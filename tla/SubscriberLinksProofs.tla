------------------------- MODULE SubscriberLinksProofs -------------------------
(***************************************************************************)
(* Proofs about SubscriberLinks, for every set of mailboxes, states and    *)
(* requests, every mix of operations and every bound: type correctness,    *)
(* double opt-in, removal and opt-out, however the requests interleave.    *)
(***************************************************************************)
EXTENDS SubscriberLinks, TLAPS

-----------------------------------------------------------------------------
(* Type correctness.                                                       *)

LEMMA UnusedTyped == Unused \in RowRecord
<1> DEFINE m0 == CHOOSE m \in Mailbox : TRUE
           s0 == CHOOSE s \in State : TRUE
           first == [box |-> m0, state |-> s0, firm |-> FALSE, own |-> FALSE,
                     status |-> "none", reason |-> "none", confirmed |-> 0,
                     stopped |-> 0, ask |-> 0, link |-> 0]
<1>1. m0 \in Mailbox /\ s0 \in State
  BY BoundAssumption
<1>2. Unused = first
  BY Zenon DEF Unused
<1> HIDE DEF m0, s0
<1>3. first \in RowRecord
  BY <1>1 DEF RowRecord
<1> QED
  BY <1>2, <1>3, Zenon

LEMMA IdleTyped == Idle \in Requests
<1>1. Unused.box \in Mailbox /\ Unused.state \in State
  BY UnusedTyped DEF RowRecord
<1>2. 1 \in Id
  BY BoundAssumption DEF Id
<1> QED
  BY <1>1, <1>2, UnusedTyped DEF Idle, Requests, Kinds

LEMMA InitTyped == Init => TypeOK
BY UnusedTyped, IdleTyped DEF Init, TypeOK, Requests

\* A request that writes its row, and ends.
LEMMA WriteTyped ==
    ASSUME TypeOK, NEW q \in Request, NEW new \in RowRecord, Write(q, new)
    PROVE  /\ row' \in [Id -> RowRecord]
           /\ req' \in [Request -> Requests]
           /\ crossed' \subseteq Id
<1>1. req[q].id \in Id
  BY DEF TypeOK, Requests
<1> QED
  BY <1>1, IdleTyped DEF TypeOK, Write, End

LEMMA ClockTyped == TypeOK /\ Now => clock' \in Nat
BY DEF TypeOK, Now

LEMMA MintTyped == TypeOK /\ Mint => minted' \in Nat
BY DEF TypeOK, Mint

\* The requests that only read.
LEMMA LinkTyped ==
    ASSUME TypeOK, NEW q \in Request, NEW e \in mail, ByLink(q, e) PROVE TypeOK'
<1>1. Idle \in Requests /\ e.id \in Id /\ row[e.id] \in RowRecord /\ e.box \in Mailbox
      /\ row[e.id].box \in Mailbox
  BY IdleTyped DEF TypeOK, Email, RowRecord
<1>2. ASSUME NEW kind \in Kinds, Click(q, kind, e) PROVE req' \in [Request -> Requests]
  BY <1>1, <1>2 DEF Click, Begin, TypeOK, Requests
<1>3. CASE ConfirmRead(q, e)
  BY <1>1, <1>2, <1>3 DEF ConfirmRead, TypeOK, table, Kinds
<1>4. CASE NextCycleRead(q, e) \/ RearmRead(q, e)
  BY <1>2, <1>4 DEF NextCycleRead, RearmRead, TypeOK, table, history, Kinds
<1>5. CASE StopAgain(q, e)
  BY <1>1, <1>5 DEF StopAgain, TypeOK, table
<1>6. ASSUME NEW reason \in {"unsubscribed", "renewed"}, StopRead(q, e, reason)
      PROVE  TypeOK'
  BY <1>2, <1>6 DEF StopRead, TypeOK, table, history, Kinds
<1> QED
  BY <1>3, <1>4, <1>5, <1>6 DEF ByLink

LEMMA RenewTyped ==
    ASSUME TypeOK, NEW q \in Request, NEW i \in Id, RenewRead(q, i) PROVE TypeOK'
BY IdleTyped, ZenonT(30) DEF RenewRead, Begin, TypeOK, Requests, Kinds, table, history

LEMMA EditReadTyped ==
    ASSUME TypeOK, NEW q \in Request, NEW i \in Id, NEW m \in Mailbox, EditRead(q, i, m)
    PROVE  TypeOK'
BY IdleTyped, ZenonT(30) DEF EditRead, Begin, TypeOK, Requests, Kinds, table, history

LEMMA EditMovesTyped ==
    ASSUME TypeOK, NEW q \in Request, EditConflict(q) \/ EditSelect(q) PROVE TypeOK'
<1>1. CASE EditConflict(q)
  BY <1>1, IdleTyped DEF EditConflict, End, TypeOK, Requests, table, history
<1>2. CASE EditSelect(q)
  <2> DEFINE local == [req[q] EXCEPT !.pc = "write", !.seen = row[req[q].id]]
  <2>1. req[q] \in Requests /\ row[req[q].id] \in RowRecord
    BY DEF TypeOK, Requests
  <2>2. local \in Requests
    BY <2>1 DEF Requests
  <2>3. req' = [req EXCEPT ![q] = local]
    BY <1>2 DEF EditSelect
  <2> HIDE DEF local
  <2> QED
    BY <1>2, <2>2, <2>3 DEF EditSelect, TypeOK, table, history
<1> QED
  BY <1>1, <1>2

LEMMA InsertTyped ==
    ASSUME TypeOK, NEW q \in Request, NEW i \in Id, NEW own \in OwnDate,
           Insert(q, i, own)
    PROVE  TypeOK'
<1> DEFINE new == row'[i]
           letter == [box |-> req[q].box, id |-> i, link |-> minted',
                      ask |-> IF req[q].op = "add" THEN 0 ELSE minted']
<1>1. /\ clock' \in Nat /\ minted' \in Nat /\ own \in BOOLEAN
      /\ req[q].box \in Mailbox /\ req[q].state \in State
  BY BoundAssumption, ClockTyped, MintTyped DEF Insert, TypeOK, Requests
<1>2. PICK r \in RowRecord : row' = [row EXCEPT ![i] = r]
  <2> DEFINE r == [Unused EXCEPT !.box = req[q].box, !.state = req[q].state,
                     !.firm = (req[q].op = "add"), !.own = own,
                     !.status = IF req[q].op = "add" THEN "confirmed" ELSE "pending",
                     !.confirmed = IF req[q].op = "add" THEN clock' ELSE 0,
                     !.ask = minted', !.link = minted']
  <2>1. row' = [row EXCEPT ![i] = r]
    BY Zenon DEF Insert
  <2>2. r \in RowRecord
    BY <1>1, UnusedTyped DEF RowRecord
  <2> HIDE DEF r
  <2> QED
    BY <2>1, <2>2
<1>3. letter \in Email
  BY <1>1 DEF Email
<1>4. mail' \in {mail, mail \cup {letter}}
  BY DEF Insert
<1> HIDE DEF letter
<1>5. consented' \subseteq Id \X Mailbox /\ waived' \subseteq Mailbox
  BY <1>1 DEF Insert, TypeOK
<1> QED
  BY <1>1, <1>2, <1>3, <1>4, <1>5, IdleTyped DEF Insert, End, TypeOK

LEMMA FinishTyped ==
    ASSUME TypeOK, NEW q \in Request,
           ConfirmWrite(q) \/ StopWrite(q) \/ RearmWrite(q)
    PROVE  TypeOK'
<1> DEFINE r == row[req[q].id]
<1>1. /\ r \in RowRecord /\ r.box \in Mailbox /\ req[q].box \in Mailbox
      /\ req[q].id \in Id
  BY DEF TypeOK, Requests, RowRecord
<1>2. CASE ConfirmWrite(q)
  <2>1. clock' \in Nat
    BY <1>2, ClockTyped DEF ConfirmWrite
  <2> DEFINE new == [r EXCEPT !.status = "confirmed", !.confirmed = clock']
  <2>2. new \in RowRecord
    BY <1>1, <2>1 DEF RowRecord
  <2>3. Write(q, new)
    BY <1>2 DEF ConfirmWrite
  <2> HIDE DEF new
  <2> QED
    BY <1>1, <1>2, <2>1, <2>2, <2>3, WriteTyped DEF ConfirmWrite, Agreed, TypeOK
<1>3. CASE StopWrite(q)
  <2>1. clock' \in Nat
    BY <1>3, ClockTyped DEF StopWrite
  <2> DEFINE new == [r EXCEPT !.status = "stopped", !.stopped = clock',
                              !.reason = req[q].op]
  <2>2. new \in RowRecord
    BY <1>1, <1>3, <2>1 DEF RowRecord, StopWrite, Permanent
  <2>3. Write(q, new)
    BY <1>3 DEF StopWrite
  <2> HIDE DEF new
  <2> QED
    BY <1>1, <1>3, <2>1, <2>2, <2>3, WriteTyped DEF StopWrite, OverrideByClick, Stray, Override, TypeOK
<1>4. CASE RearmWrite(q)
  <2>1. minted' \in Nat
    BY <1>4, MintTyped DEF RearmWrite
  <2> DEFINE new == [r EXCEPT !.status = "confirmed", !.stopped = 0,
                              !.reason = "none", !.link = minted']
  <2>2. new \in RowRecord
    BY <1>1, <2>1 DEF RowRecord
  <2>3. Write(q, new)
    BY <1>4 DEF RearmWrite
  <2> HIDE DEF new
  <2> QED
    BY <1>1, <1>4, <2>1, <2>2, <2>3, WriteTyped
       DEF RearmWrite, Agreed, OverrideByClick, Stray, Override, TypeOK
<1> QED
  BY <1>2, <1>3, <1>4

\* The row an edit leaves: the new mailbox unconfirmed, or the columns it read.
LEMMA EditWriteRow ==
    ASSUME TypeOK, NEW q \in Request, EditWrite(q)
    PROVE  \E r \in RowRecord :
             /\ row' = [row EXCEPT ![req[q].id] = r]
             /\ r.box = req[q].box
             /\ r.firm = row[req[q].id].firm
             /\ r.reason \in {"none", req[q].seen.reason}
             /\ req[q].box # req[q].first.box =>
                  /\ r.status = "pending" /\ r.confirmed = 0 /\ r.ask = minted'
                  /\ Mint
             /\ req[q].box = req[q].first.box =>
                  /\ r.status = req[q].seen.status
                  /\ r.reason = req[q].seen.reason
                  /\ r.confirmed = req[q].seen.confirmed
                  /\ r.ask = req[q].seen.ask
                  /\ mail' = mail /\ minted' = minted
<1> DEFINE i == req[q].id
           old == req[q].seen
<1>1. i \in Id /\ row[i] \in RowRecord /\ old \in RowRecord /\ req[q].box \in Mailbox
  BY DEF TypeOK, Requests
<1>2. CASE req[q].box # req[q].first.box
  <2>1. minted' \in Nat /\ Mint
    BY <1>2, MintTyped DEF EditWrite
  <2> DEFINE r == [row[i] EXCEPT !.box = req[q].box, !.status = "pending",
                     !.reason = "none", !.stopped = 0, !.confirmed = 0,
                     !.ask = minted']
  <2>2. row' = [row EXCEPT ![i] = r]
    BY <1>2 DEF EditWrite
  <2>3. r \in RowRecord /\ r.box = req[q].box /\ r.firm = row[i].firm
        /\ r.status = "pending" /\ r.confirmed = 0 /\ r.ask = minted'
        /\ r.reason = "none"
    BY <1>1, <2>1 DEF RowRecord
  <2> HIDE DEF r
  <2> QED
    BY <1>2, <2>1, <2>2, <2>3
<1>3. CASE req[q].box = req[q].first.box
  <2> DEFINE r == [row[i] EXCEPT !.box = req[q].box, !.status = old.status,
                     !.reason = old.reason, !.stopped = old.stopped,
                     !.confirmed = old.confirmed, !.ask = old.ask]
  <2>1. row' = [row EXCEPT ![i] = r] /\ mail' = mail /\ minted' = minted
    BY <1>3 DEF EditWrite
  <2>2. r \in RowRecord /\ r.box = req[q].box /\ r.firm = row[i].firm
        /\ r.status = old.status /\ r.confirmed = old.confirmed /\ r.ask = old.ask
        /\ r.reason = old.reason
    BY <1>1 DEF RowRecord
  <2> HIDE DEF r
  <2> QED
    BY <1>3, <2>1, <2>2
<1> QED
  BY <1>2, <1>3

LEMMA EditWriteTyped == ASSUME TypeOK, NEW q \in Request, EditWrite(q) PROVE TypeOK'
<1> DEFINE i == req[q].id
           letter == [box |-> req[q].box, id |-> i, ask |-> minted',
                      link |-> req[q].seen.link]
<1>1. /\ i \in Id /\ row[i].box \in Mailbox /\ req[q].box \in Mailbox
      /\ req[q].seen.link \in Nat
  BY DEF TypeOK, Requests, RowRecord
<1>2. PICK r \in RowRecord : row' = [row EXCEPT ![i] = r]
  BY EditWriteRow
<1>3. minted' \in Nat /\ mail' \subseteq Email
  <2>1. CASE req[q].box # req[q].first.box
    <3>1. minted' \in Nat
      BY <2>1, MintTyped DEF EditWrite
    <3>2. letter \in Email
      BY <1>1, <3>1 DEF Email
    <3>3. mail' \in {mail, mail \cup {letter}}
      BY <2>1 DEF EditWrite
    <3> HIDE DEF letter
    <3> QED
      BY <3>1, <3>2, <3>3 DEF TypeOK
  <2>2. CASE req[q].box = req[q].first.box
    BY <2>2, EditWriteRow DEF TypeOK
  <2> QED
    BY <2>1, <2>2
<1>4. crossed' \subseteq Id /\ waived' \subseteq Mailbox
  BY <1>1 DEF EditWrite, Override, TypeOK
<1> QED
  BY <1>2, <1>3, <1>4, IdleTyped DEF EditWrite, End, TypeOK

LEMMA RemoveTyped ==
    ASSUME TypeOK, NEW q \in Request, NEW i \in Id, Remove(q, i) PROVE TypeOK'
<1> DEFINE r == [row[i] EXCEPT !.status = "stopped", !.reason = "removed",
                               !.stopped = clock']
<1>1. clock' \in Nat /\ row[i] \in RowRecord /\ row[i].box \in Mailbox
  BY ClockTyped DEF Remove, TypeOK, RowRecord
<1>2. r \in RowRecord
  BY <1>1 DEF RowRecord
<1>3. row' = [row EXCEPT ![i] = r]
  BY DEF Remove
<1> HIDE DEF r
<1>4. row' \in [Id -> RowRecord]
  BY <1>2, <1>3 DEF TypeOK
<1>5. waived' \subseteq Mailbox
  BY <1>1 DEF Remove, Override, TypeOK
<1> QED
  BY <1>1, <1>4, <1>5 DEF Remove, TypeOK

LEMMA BounceTyped == ASSUME TypeOK, NEW m \in Mailbox, Bounce(m) PROVE TypeOK'
<1>1. clock' \in Nat
  BY ClockTyped DEF Bounce
<1>2. ASSUME NEW i \in Id PROVE row'[i] \in RowRecord
  <2> DEFINE r == [row[i] EXCEPT !.status = "stopped", !.reason = "bounced",
                                 !.stopped = clock']
  <2>1. row[i] \in RowRecord
    BY DEF TypeOK
  <2>2. r \in RowRecord
    BY <1>1, <2>1 DEF RowRecord, Permanent
  <2>3. row'[i] \in {row[i], r}
    BY DEF Bounce
  <2> HIDE DEF r
  <2> QED
    BY <2>1, <2>2, <2>3
<1>3. row' \in [Id -> RowRecord]
  BY <1>2 DEF Bounce
<1> QED
  BY <1>1, <1>3 DEF Bounce, TypeOK

LEMMA RemindTyped == ASSUME TypeOK, NEW i \in Id, Remind(i) PROVE TypeOK'
<1> DEFINE letter == [box |-> row[i].box, id |-> i, ask |-> 0, link |-> row[i].link]
<1>1. letter \in Email
  BY DEF TypeOK, RowRecord, Email
<1>2. mail' = mail \cup {letter}
  BY DEF Remind
<1> HIDE DEF letter
<1> QED
  BY <1>1, <1>2 DEF Remind, TypeOK, table, history

\* The actions of Next, by what they do to the rows.
LEMMA NextCases ==
    ASSUME [Next]_vars
    PROVE  \/ \E q \in Request, i \in Id, own \in OwnDate : Insert(q, i, own)
           \/ \E q \in Request, op \in {"signup", "add"}, m \in Mailbox, s \in State :
                  Look(q, op, m, s)
           \/ \E q \in Request, e \in mail : ByLink(q, e)
           \/ \E q \in Request, i \in Id : RenewRead(q, i) \/ Remove(q, i)
           \/ \E q \in Request, i \in Id, m \in Mailbox : EditRead(q, i, m)
           \/ \E q \in Request : Finish(q)
           \/ \E m \in Mailbox : Bounce(m)
           \/ \E i \in Id : Remind(i)
           \/ UNCHANGED vars
BY Zenon DEF Next

LEMMA StepTyped == TypeOK /\ [Next]_vars => TypeOK'
<1> SUFFICES ASSUME TypeOK, [Next]_vars PROVE TypeOK'
  OBVIOUS
<1>1. ASSUME NEW q \in Request, NEW i \in Id, NEW own \in OwnDate, Insert(q, i, own)
      PROVE  TypeOK'
  BY <1>1, InsertTyped
<1>2. ASSUME NEW q \in Request, NEW op \in {"signup", "add"}, NEW m \in Mailbox,
             NEW s \in State, Look(q, op, m, s)
      PROVE  TypeOK'
  BY <1>2, IdleTyped
     DEF Look, Begin, TypeOK, Requests, Kinds, table, history
<1>3. ASSUME NEW q \in Request, NEW e \in mail, ByLink(q, e) PROVE TypeOK'
  BY <1>3, LinkTyped
<1>4. ASSUME NEW q \in Request, NEW i \in Id, RenewRead(q, i) \/ Remove(q, i)
      PROVE  TypeOK'
  BY <1>4, RenewTyped, RemoveTyped
<1>5. ASSUME NEW q \in Request, NEW i \in Id, NEW m \in Mailbox, EditRead(q, i, m)
      PROVE  TypeOK'
  BY <1>5, EditReadTyped
<1>6. ASSUME NEW q \in Request, Finish(q) PROVE TypeOK'
  BY <1>6, FinishTyped, EditMovesTyped, EditWriteTyped DEF Finish
<1>7. ASSUME NEW m \in Mailbox, Bounce(m) PROVE TypeOK'
  BY <1>7, BounceTyped
<1>8. ASSUME NEW i \in Id, Remind(i) PROVE TypeOK'
  BY <1>8, RemindTyped
<1>9. CASE UNCHANGED vars
  BY <1>9 DEF vars, history, TypeOK
<1> QED
  BY <1>1, <1>2, <1>3, <1>4, <1>5, <1>6, <1>7, <1>8, <1>9, NextCases

\* Every reachable state is well typed, whatever the requests and how they
\* interleave (TypeOK).
THEOREM LinksTypeCorrect == Spec => []TypeOK
BY InitTyped, StepTyped, PTL DEF Spec

-----------------------------------------------------------------------------
(* Double opt-in.                                                          *)

\* Rows no request has written back over another's change.  Free rows are
\* always among them: whatever overlaps, their mailbox never changes.
Sound(i) == row[i].firm => i \notin crossed

\* A firm's row is a row in use.
FirmRows == \A i \in Id : row[i].firm => row[i].status # "none"

\* A confirmation link that still fits its row is in the row's own mailbox.
Letters ==
    \A e \in mail :
        /\ row[e.id].status # "none"
        /\ e.ask <= minted
        /\ Sound(e.id) /\ e.ask # 0 /\ e.ask = row[e.id].ask =>
               e.box = row[e.id].box

\* confirmed_at is set only with the consent of the row's mailbox, and a
\* confirmed row has one.
Consent ==
    \A i \in Id : Sound(i) =>
        /\ row[i].confirmed # 0 => <<i, row[i].box>> \in consented
        /\ row[i].status = "confirmed" => row[i].confirmed # 0

\* What a request has read about its row, and still holds when it writes.
Read(q) ==
    /\ row[req[q].id].status # "none"
    /\ req[q].op = "edit" => row[req[q].id].firm
    /\ req[q].pc # "write" => req[q].op = "edit"

Holds(q) ==
    /\ req[q].seen.status # "none"
    /\ req[q].op \in {"nextcycle", "rearm", "renew"} => req[q].seen.confirmed # 0
    /\ req[q].op = "confirm" /\ Sound(req[q].id) =>
           /\ req[q].box = req[q].seen.box
           /\ <<req[q].id, req[q].seen.box>> \in consented
    /\ ~row[req[q].id].firm =>
           /\ req[q].seen.box = row[req[q].id].box
           /\ req[q].seen.confirmed # 0 => row[req[q].id].confirmed # 0

Underway ==
    \A q \in Request :
        /\ req[q].pc \notin {"idle", "insert"} => Read(q)
        /\ req[q].pc = "write" => Holds(q)

OptInInv ==
    TypeOK /\ clock >= 1 /\ FirmRows /\ Letters /\ Consent /\ Underway

\* How any step treats a row in use: it stays in use, its owner stays the
\* same, and a free row keeps its mailbox and its confirmation.
Keeps(i) ==
    row[i].status # "none" =>
        /\ row'[i].status # "none"
        /\ row'[i].firm = row[i].firm
        /\ ~row[i].firm =>
              /\ row'[i].box = row[i].box
              /\ row[i].confirmed # 0 => row'[i].confirmed # 0

\* ... and a sound row changes its mailbox only with a fresh confirm_token.
Readdresses(i) ==
    row[i].status # "none" /\ Sound(i)' =>
        \/ row'[i].ask = row[i].ask /\ row'[i].box = row[i].box
        \/ row'[i].ask > minted

Grows == consented \subseteq consented' /\ crossed \subseteq crossed'

\* A request that does not move keeps what it holds.
LEMMA OthersKeep ==
    ASSUME TypeOK, Grows, NEW q \in Request, req'[q] = req[q], Keeps(req[q].id),
           req[q].pc \notin {"idle", "insert"} => Read(q),
           req[q].pc = "write" => Holds(q)
    PROVE  /\ (req[q].pc \notin {"idle", "insert"} => Read(q))'
           /\ (req[q].pc = "write" => Holds(q))'
<1>1. ASSUME req[q].pc \notin {"idle", "insert"} PROVE Read(q)'
  BY <1>1 DEF Read, Keeps
<1>2. ASSUME req[q].pc = "write" PROVE Holds(q)'
  <2>1. Holds(q) /\ Read(q)
    BY <1>2
  <2>2. Sound(req[q].id)' => Sound(req[q].id)
    BY <2>1 DEF Sound, Read, Keeps, Grows
  <2> QED
    BY <2>1, <2>2 DEF Holds, Read, Keeps, Grows
<1> QED
  BY <1>1, <1>2

\* The emails that are there already keep fitting their rows.
LEMMA LettersKeep ==
    ASSUME TypeOK, Letters, Grows, minted' >= minted, minted' \in Nat,
           NEW e \in mail, Keeps(e.id), Readdresses(e.id)
    PROVE  /\ row'[e.id].status # "none"
           /\ e.ask <= minted'
           /\ Sound(e.id)' /\ e.ask # 0 /\ e.ask = row'[e.id].ask =>
                  e.box = row'[e.id].box
<1>1. e.ask \in Nat /\ minted \in Nat
  BY DEF TypeOK, Email
<1>2. row[e.id].status # "none" /\ e.ask <= minted
  BY DEF Letters
<1>3. row'[e.id].status # "none" /\ row'[e.id].firm = row[e.id].firm
  BY <1>2 DEF Keeps
<1>4. ASSUME Sound(e.id)', e.ask # 0, e.ask = row'[e.id].ask
      PROVE  e.box = row'[e.id].box
  <2>1. Sound(e.id)
    BY <1>3, <1>4 DEF Sound, Grows
  <2>2. ~ (row'[e.id].ask > minted)
    BY <1>1, <1>2, <1>4
  <2> QED
    BY <1>2, <1>4, <2>1, <2>2 DEF Readdresses, Letters
<1> QED
  BY <1>1, <1>2, <1>3, <1>4

\* The steps that change no row and no email: what is left to show is what
\* the request that moved has read.
LEMMA ReadKeeps ==
    ASSUME OptInInv, NEW q \in Request, UNCHANGED <<table, mail, crossed>>,
           consented \subseteq consented',
           \A p \in Request \ {q} : req'[p] = req[p],
           (req[q].pc \notin {"idle", "insert"} => Read(q))',
           (req[q].pc = "write" => Holds(q))', TypeOK'
    PROVE  OptInInv'
<1>1. Grows /\ \A i \in Id : Keeps(i)
  BY DEF Grows, Keeps, table
<1>2. Underway'
  <2> SUFFICES ASSUME NEW p \in Request
               PROVE  /\ (req[p].pc \notin {"idle", "insert"} => Read(p))'
                      /\ (req[p].pc = "write" => Holds(p))'
    BY DEF Underway
  <2>1. CASE p = q
    BY <2>1
  <2>2. CASE p # q
    <3>1. req'[p] = req[p] /\ Keeps(req[p].id)
      BY <1>1, <2>2 DEF OptInInv, TypeOK, Requests
    <3> QED
      BY <1>1, <3>1, OthersKeep DEF OptInInv, Underway
  <2> QED
    BY <2>1, <2>2
<1>3. clock' >= 1 /\ FirmRows' /\ Letters' /\ Consent'
  BY DEF OptInInv, FirmRows, Letters, Consent, Sound, table
<1> QED
  BY <1>2, <1>3 DEF OptInInv

\* The steps that write rows.
LEMMA WriteKeeps ==
    ASSUME OptInInv, Grows, TypeOK', clock' >= clock, minted' >= minted,
           \A i \in Id : Keeps(i) /\ Readdresses(i),
           FirmRows', Consent',
           \A e \in mail' \ mail :
               /\ row'[e.id].status # "none" /\ e.ask <= minted'
               /\ e.ask # 0 => e.box = row'[e.id].box,
           \A p \in Request : req'[p] \in {req[p], Idle}
    PROVE  OptInInv'
<1>1. Letters'
  <2> SUFFICES ASSUME NEW e \in mail'
               PROVE  /\ row'[e.id].status # "none"
                      /\ e.ask <= minted'
                      /\ Sound(e.id)' /\ e.ask # 0 /\ e.ask = row'[e.id].ask =>
                             e.box = row'[e.id].box
    BY DEF Letters
  <2>1. CASE e \in mail
    <3>1. Keeps(e.id) /\ Readdresses(e.id) /\ minted' \in Nat
      BY <2>1 DEF OptInInv, TypeOK, Email
    <3> QED
      BY <2>1, <3>1, LettersKeep DEF OptInInv
  <2>2. CASE e \notin mail
    BY <2>2
  <2> QED
    BY <2>1, <2>2
<1>2. Underway'
  <2> SUFFICES ASSUME NEW p \in Request
               PROVE  /\ (req[p].pc \notin {"idle", "insert"} => Read(p))'
                      /\ (req[p].pc = "write" => Holds(p))'
    BY DEF Underway
  <2>1. CASE req'[p] = req[p]
    <3>1. Keeps(req[p].id)
      BY DEF OptInInv, TypeOK, Requests
    <3> QED
      BY <2>1, <3>1, OthersKeep DEF OptInInv, Underway
  <2>2. CASE req'[p] = Idle
    BY <2>2 DEF Idle
  <2> QED
    BY <2>1, <2>2
<1>3. clock' >= 1
  BY DEF OptInInv, TypeOK
<1> QED
  BY <1>1, <1>2, <1>3 DEF OptInInv

LEMMA InitOptIn == Init => OptInInv
<1> SUFFICES ASSUME Init PROVE OptInInv
  OBVIOUS
<1>1. \A i \in Id : ~row[i].firm /\ row[i].confirmed = 0 /\ row[i].status = "none"
  BY DEF Init, Unused
<1>2. \A q \in Request : req[q].pc = "idle"
  BY DEF Init, Idle
<1> QED
  BY <1>1, <1>2, InitTyped
     DEF Init, OptInInv, FirmRows, Letters, Consent, Underway

\* A click: the row is in use, since there is an email about it.
LEMMA ClickReads ==
    ASSUME OptInInv, NEW q \in Request, NEW e \in mail, NEW kind,
           kind # "edit", Click(q, kind, e), UNCHANGED table
    PROVE  /\ \A p \in Request \ {q} : req'[p] = req[p]
           /\ req'[q].pc = "write" /\ req'[q].op = kind /\ req'[q].id = e.id
           /\ req'[q].seen = row[e.id]
           /\ Read(q)'
<1>1. /\ \A p \in Request \ {q} : req'[p] = req[p]
      /\ req'[q].pc = "write" /\ req'[q].op = kind /\ req'[q].id = e.id
      /\ req'[q].seen = row[e.id]
  BY DEF Click, Begin, Idle, OptInInv, TypeOK
<1>2. row'[e.id].status # "none"
  BY DEF OptInInv, Letters, table
<1> QED
  BY <1>1, <1>2 DEF Read

LEMMA LinkKeeps ==
    ASSUME OptInInv, TypeOK', NEW q \in Request, NEW e \in mail, ByLink(q, e)
    PROVE  OptInInv'
<1>1. row[e.id].status # "none" /\ e.id \in Id
  BY DEF OptInInv, Letters, TypeOK, Email
<1>2. CASE ConfirmRead(q, e)
  <2>1. /\ \A p \in Request \ {q} : req'[p] = req[p]
        /\ req'[q].pc = "write" /\ req'[q].op = "confirm" /\ req'[q].id = e.id
        /\ req'[q].seen = row[e.id] /\ Read(q)'
    BY <1>2, ClickReads DEF ConfirmRead
  <2>2. UNCHANGED <<table, mail, crossed>> /\ consented \subseteq consented'
        /\ <<e.id, e.box>> \in consented'
    BY <1>2 DEF ConfirmRead
  <2>3. Sound(e.id) => e.box = row[e.id].box
    BY <1>2 DEF ConfirmRead, OptInInv, Letters
  <2>4. Sound(e.id)' => Sound(e.id)
    BY <2>2 DEF Sound, table
  <2>5. req'[q].box = e.box
    BY <1>2 DEF ConfirmRead, Click, Begin, Idle, OptInInv, TypeOK
  <2>6. Holds(q)'
    BY <1>1, <2>1, <2>2, <2>3, <2>4, <2>5 DEF Holds, table
  <2> QED
    BY <2>1, <2>2, <2>6, ReadKeeps
<1>3. CASE NextCycleRead(q, e) \/ RearmRead(q, e)
  <2>1. PICK kind \in {"nextcycle", "rearm"} : Click(q, kind, e)
    BY <1>3 DEF NextCycleRead, RearmRead
  <2>2. UNCHANGED <<table, mail, crossed>> /\ consented \subseteq consented'
        /\ row[e.id].confirmed # 0
    BY <1>3 DEF NextCycleRead, RearmRead, Renewable, Rearmable, history
  <2>3. /\ \A p \in Request \ {q} : req'[p] = req[p]
        /\ req'[q].pc = "write" /\ req'[q].op = kind /\ req'[q].id = e.id
        /\ req'[q].seen = row[e.id] /\ Read(q)'
    BY <2>1, <2>2, ClickReads
  <2>4. Holds(q)'
    BY <1>1, <2>2, <2>3 DEF Holds, table
  <2> QED
    BY <2>2, <2>3, <2>4, ReadKeeps
<1>4. CASE StopAgain(q, e)
  <2>1. UNCHANGED <<table, mail, crossed, consented, req>> /\ req[q].pc = "idle"
    BY <1>4 DEF StopAgain
  <2>2. req'[q].pc = "idle"
    BY <2>1
  <2>3. ~(req[q].pc \notin {"idle", "insert"})' /\ ~(req[q].pc = "write")'
    BY <2>2
  <2> QED
    BY <2>1, <2>3, ReadKeeps
<1>5. ASSUME NEW reason \in {"unsubscribed", "renewed"}, StopRead(q, e, reason)
      PROVE  OptInInv'
  <2>1. UNCHANGED <<table, mail, crossed>> /\ consented \subseteq consented'
        /\ Click(q, reason, e)
    BY <1>5 DEF StopRead, history
  <2>2. /\ \A p \in Request \ {q} : req'[p] = req[p]
        /\ req'[q].pc = "write" /\ req'[q].op = reason /\ req'[q].id = e.id
        /\ req'[q].seen = row[e.id] /\ Read(q)'
    BY <2>1, ClickReads
  <2>3. Holds(q)'
    BY <1>1, <2>1, <2>2 DEF Holds, table
  <2> QED
    BY <2>1, <2>2, <2>3, ReadKeeps
<1> QED
  BY <1>2, <1>3, <1>4, <1>5 DEF ByLink

LEMMA LookKeeps ==
    ASSUME OptInInv, TypeOK', NEW q \in Request, NEW op \in {"signup", "add"},
           NEW m \in Mailbox, NEW s \in State, Look(q, op, m, s)
    PROVE  OptInInv'
<1>1. /\ UNCHANGED <<table, mail, crossed>> /\ consented \subseteq consented'
      /\ \A p \in Request \ {q} : req'[p] = req[p]
      /\ req'[q].pc = "insert"
  BY DEF Look, Begin, Idle, OptInInv, TypeOK, history
<1> QED
  BY <1>1, ReadKeeps

LEMMA RenewReadKeeps ==
    ASSUME OptInInv, TypeOK', NEW q \in Request, NEW i \in Id, RenewRead(q, i)
    PROVE  OptInInv'
<1>1. /\ UNCHANGED <<table, mail, crossed>> /\ consented \subseteq consented'
      /\ \A p \in Request \ {q} : req'[p] = req[p]
      /\ req'[q].pc = "write" /\ req'[q].op = "renew" /\ req'[q].id = i
      /\ req'[q].seen = row[i]
  BY DEF RenewRead, Begin, Idle, OptInInv, TypeOK, history
<1>2. row[i].firm /\ row[i].confirmed # 0 /\ row[i].status # "none"
  BY DEF RenewRead, Renewable, OptInInv, FirmRows
<1>3. Read(q)' /\ Holds(q)'
  BY <1>1, <1>2 DEF Read, Holds, table
<1> QED
  BY <1>1, <1>3, ReadKeeps

LEMMA EditReadKeeps ==
    ASSUME OptInInv, TypeOK', NEW q \in Request, NEW i \in Id, NEW m \in Mailbox,
           EditRead(q, i, m)
    PROVE  OptInInv'
<1>1. /\ UNCHANGED <<table, mail, crossed>> /\ consented \subseteq consented'
      /\ \A p \in Request \ {q} : req'[p] = req[p]
      /\ req'[q].pc \in {"select", "conflict"} /\ req'[q].op = "edit"
      /\ req'[q].id = i
  BY DEF EditRead, Begin, Idle, OptInInv, TypeOK, history
<1>2. row[i].firm /\ row[i].status # "none"
  BY DEF EditRead, OptInInv, FirmRows
<1>3. Read(q)'
  BY <1>1, <1>2 DEF Read, table
<1> QED
  BY <1>1, <1>3, ReadKeeps

LEMMA EditMovesKeep ==
    ASSUME OptInInv, TypeOK', NEW q \in Request, EditConflict(q) \/ EditSelect(q)
    PROVE  OptInInv'
<1>1. Read(q) /\ req[q].op = "edit" /\ row[req[q].id].firm
      /\ row[req[q].id].status # "none"
  BY DEF EditConflict, EditSelect, OptInInv, Underway, Read
<1>2. /\ UNCHANGED <<table, mail, crossed>> /\ consented \subseteq consented'
      /\ \A p \in Request \ {q} : req'[p] = req[p]
  BY DEF EditConflict, EditSelect, End, OptInInv, TypeOK, history
<1>3. CASE EditConflict(q)
  <2>1. \/ req'[q] = Idle
        \/ req'[q].pc = "select" /\ req'[q].op = "edit" /\ req'[q].id = req[q].id
    BY <1>1, <1>3 DEF EditConflict, End, OptInInv, TypeOK, Requests
  <2>2. (req[q].pc \notin {"idle", "insert"} => Read(q))'
    BY <1>1, <1>2, <2>1 DEF Read, table, Idle
  <2>3. (req[q].pc = "write" => Holds(q))'
    BY <2>1 DEF Idle
  <2> QED
    BY <1>2, <2>2, <2>3, ReadKeeps
<1>4. CASE EditSelect(q)
  <2>1. /\ req'[q].pc = "write" /\ req'[q].op = "edit"
        /\ req'[q].id = req[q].id /\ req'[q].seen = row[req[q].id]
    BY <1>1, <1>4 DEF EditSelect, OptInInv, TypeOK, Requests
  <2>2. Read(q)' /\ Holds(q)'
    BY <1>1, <1>2, <2>1 DEF Read, Holds, table
  <2> QED
    BY <1>2, <2>2, ReadKeeps
<1> QED
  BY <1>3, <1>4

\* A request that writes its row, keeping owner, mailbox and confirm_token.
LEMMA RowWriteKeeps ==
    ASSUME OptInInv, TypeOK', NEW q \in Request, req[q].pc = "write",
           NEW i \in Id, i = req[q].id, NEW new \in RowRecord, Write(q, new),
           new.box = row[i].box, new.firm = row[i].firm,
           new.ask = row[i].ask, new.status # "none",
           row[i].confirmed # 0 => new.confirmed # 0,
           Sound(i)' /\ new.confirmed # 0 => <<i, new.box>> \in consented,
           Sound(i)' /\ new.status = "confirmed" => new.confirmed # 0,
           UNCHANGED <<mail, consented>>, clock' >= clock, minted' >= minted
    PROVE  OptInInv'
<1>1. /\ row'[i] = new /\ crossed \subseteq crossed'
      /\ \A j \in Id \ {i} : row'[j] = row[j]
  BY DEF Write, OptInInv, TypeOK, Requests
<1>2. row[i].status # "none"
  BY DEF OptInInv, Underway, Read
<1>3. Grows
  BY <1>1 DEF Grows
<1>4. ASSUME NEW j \in Id PROVE Keeps(j) /\ Readdresses(j)
  BY <1>1, <1>2, <1>4 DEF Keeps, Readdresses
<1>5. FirmRows'
  BY <1>1 DEF FirmRows, OptInInv
<1>6. Consent'
  <2> SUFFICES ASSUME NEW j \in Id, Sound(j)'
               PROVE  /\ row'[j].confirmed # 0 => <<j, row'[j].box>> \in consented'
                      /\ row'[j].status = "confirmed" => row'[j].confirmed # 0
    BY DEF Consent
  <2>1. CASE j = i
    BY <1>1, <2>1
  <2>2. CASE j # i
    <3>1. row'[j] = row[j] /\ Sound(j)
      BY <1>1, <2>2 DEF Sound
    <3> QED
      BY <3>1 DEF OptInInv, Consent
  <2> QED
    BY <2>1, <2>2
<1>7. \A p \in Request : req'[p] \in {req[p], Idle}
  BY DEF Write, End, OptInInv, TypeOK
<1> QED
  BY <1>3, <1>4, <1>5, <1>6, <1>7, WriteKeeps

\* Unless the row has changed hands since, the writer finds what it read.
LEMMA SeenStill ==
    ASSUME OptInInv, NEW q \in Request, req[q].pc = "write",
           NEW i \in Id, i = req[q].id, NEW new, Write(q, new),
           new.firm = row[i].firm, Sound(i)'
    PROVE  /\ Sound(i)
           /\ req[q].seen.box = row[i].box
           /\ req[q].seen.confirmed # 0 => row[i].confirmed # 0
<1>1. row'[i] = new /\ crossed \subseteq crossed'
  BY DEF Write, OptInInv, TypeOK, Requests
<1>2. Sound(i)
  BY <1>1 DEF Sound
<1>3. CASE row[i].firm
  <2>1. i \notin crossed'
    BY <1>1, <1>3 DEF Sound
  <2>2. row[i] = req[q].seen
    BY <2>1 DEF Write
  <2> QED
    BY <1>2, <2>2
<1>4. CASE ~row[i].firm
  BY <1>2, <1>4 DEF OptInInv, Underway, Holds
<1> QED
  BY <1>3, <1>4

LEMMA ConfirmKeeps ==
    ASSUME OptInInv, TypeOK', NEW q \in Request, ConfirmWrite(q) PROVE OptInInv'
<1>0. PICK i \in Id : i = req[q].id
  BY DEF OptInInv, TypeOK, Requests
<1> DEFINE new == [row[i] EXCEPT !.status = "confirmed", !.confirmed = clock']
<1>1. row[i] \in RowRecord /\ clock' \in Nat /\ clock' >= clock /\ clock' # 0
  BY DEF OptInInv, TypeOK, ConfirmWrite, Now
<1>2. /\ new \in RowRecord /\ new.box = row[i].box /\ new.firm = row[i].firm
      /\ new.ask = row[i].ask /\ new.status # "none" /\ new.confirmed # 0
  BY <1>1 DEF RowRecord
<1>3. /\ Write(q, new) /\ req[q].pc = "write" /\ req[q].op = "confirm"
      /\ UNCHANGED <<mail, minted, consented>>
  BY <1>0 DEF ConfirmWrite
<1> HIDE DEF new
<1>4. Sound(i)' => <<i, new.box>> \in consented
  BY <1>2, <1>3, <1>0, SeenStill DEF OptInInv, Underway, Holds
<1>5. minted' >= minted
  BY <1>3 DEF OptInInv, TypeOK
<1> QED
  BY <1>1, <1>2, <1>3, <1>4, <1>5, <1>0, RowWriteKeeps

LEMMA StopKeeps ==
    ASSUME OptInInv, TypeOK', NEW q \in Request, StopWrite(q) PROVE OptInInv'
<1>0. PICK i \in Id : i = req[q].id
  BY DEF OptInInv, TypeOK, Requests
<1> DEFINE new == [row[i] EXCEPT !.status = "stopped", !.stopped = clock',
                              !.reason = req[q].op]
<1>1. i \in Id /\ row[i] \in RowRecord /\ clock' \in Nat /\ clock' >= clock
  BY DEF OptInInv, TypeOK, StopWrite, Now
<1>2. /\ new \in RowRecord /\ new.box = row[i].box /\ new.firm = row[i].firm
      /\ new.ask = row[i].ask /\ new.status = "stopped"
      /\ new.confirmed = row[i].confirmed
  BY <1>1 DEF RowRecord, StopWrite, Permanent
<1>3. Write(q, new) /\ req[q].pc = "write" /\ UNCHANGED <<mail, minted, consented>>
  BY <1>0 DEF StopWrite
<1> HIDE DEF new
<1>4. Sound(i)' /\ new.confirmed # 0 => <<i, new.box>> \in consented
  BY <1>1, <1>2, <1>3, <1>0, SeenStill DEF OptInInv, Consent
<1>5. minted' >= minted
  BY <1>3 DEF OptInInv, TypeOK
<1> QED
  BY <1>1, <1>2, <1>3, <1>4, <1>5, <1>0, RowWriteKeeps

LEMMA RearmKeeps ==
    ASSUME OptInInv, TypeOK', NEW q \in Request, RearmWrite(q) PROVE OptInInv'
<1>0. PICK i \in Id : i = req[q].id
  BY DEF OptInInv, TypeOK, Requests
<1> DEFINE new == [row[i] EXCEPT !.status = "confirmed", !.stopped = 0,
                              !.reason = "none", !.link = minted']
<1>1. i \in Id /\ row[i] \in RowRecord /\ minted' \in Nat /\ minted' >= minted
  BY DEF OptInInv, TypeOK, RearmWrite, Mint
<1>2. /\ new \in RowRecord /\ new.box = row[i].box /\ new.firm = row[i].firm
      /\ new.ask = row[i].ask /\ new.status # "none"
      /\ new.confirmed = row[i].confirmed
  BY <1>1 DEF RowRecord
<1>3. /\ Write(q, new) /\ req[q].pc = "write" /\ UNCHANGED <<mail, clock, consented>>
      /\ req[q].op \in {"nextcycle", "rearm", "renew"}
  BY <1>0 DEF RearmWrite
<1> HIDE DEF new
<1>4. Sound(i)' /\ new.confirmed # 0 => <<i, new.box>> \in consented
  BY <1>1, <1>2, <1>3, <1>0, SeenStill DEF OptInInv, Consent
<1>5. Sound(i)' => new.confirmed # 0
  BY <1>2, <1>3, <1>0, SeenStill DEF OptInInv, Underway, Holds
<1>6. clock' >= clock
  BY <1>3 DEF OptInInv, TypeOK
<1> QED
  BY <1>1, <1>2, <1>3, <1>4, <1>5, <1>6, <1>0, RowWriteKeeps

LEMMA InsertKeeps ==
    ASSUME OptInInv, TypeOK', NEW q \in Request, NEW i \in Id, NEW own \in OwnDate,
           Insert(q, i, own)
    PROVE  OptInInv'
<1> DEFINE m == req[q].box
           firm == req[q].op = "add"
<1>1. /\ clock' \in Nat /\ clock' >= clock /\ clock' # 0
      /\ minted' \in Nat /\ minted' = minted + 1 /\ minted \in Nat
  BY DEF Insert, Now, Mint, OptInInv, TypeOK
<1>2. /\ row'[i].box = m /\ row'[i].firm = firm
      /\ row'[i].status = (IF firm THEN "confirmed" ELSE "pending")
      /\ row'[i].confirmed = (IF firm THEN clock' ELSE 0)
      /\ \A j \in Id \ {i} : row'[j] = row[j]
  BY UnusedTyped DEF Insert, OptInInv, TypeOK, RowRecord
<1>3. Grows /\ (firm => <<i, m>> \in consented')
  BY DEF Insert, Grows
<1>4. ASSUME NEW j \in Id PROVE Keeps(j) /\ Readdresses(j)
  <2>1. row[i].status = "none"
    BY DEF Insert
  <2> QED
    BY <1>2, <2>1 DEF Keeps, Readdresses
<1>5. FirmRows'
  BY <1>2 DEF FirmRows, OptInInv
<1>6. Consent'
  <2> SUFFICES ASSUME NEW j \in Id, Sound(j)'
               PROVE  /\ row'[j].confirmed # 0 => <<j, row'[j].box>> \in consented'
                      /\ row'[j].status = "confirmed" => row'[j].confirmed # 0
    BY DEF Consent
  <2>1. CASE j = i
    BY <1>1, <1>2, <1>3, <2>1
  <2>2. CASE j # i
    <3>1. row'[j] = row[j] /\ Sound(j)
      BY <1>2, <1>3, <2>2 DEF Sound, Grows
    <3> QED
      BY <1>3, <3>1 DEF OptInInv, Consent, Grows
  <2> QED
    BY <2>1, <2>2
<1>7. ASSUME NEW e \in mail' \ mail
      PROVE  /\ row'[e.id].status # "none" /\ e.ask <= minted'
             /\ e.ask # 0 => e.box = row'[e.id].box
  <2>1. e = [box |-> m, id |-> i, link |-> minted', ask |-> IF firm THEN 0 ELSE minted']
    BY <1>7 DEF Insert
  <2>2. e.id = i /\ e.box = m /\ e.ask \in {0, minted'}
    BY <2>1
  <2> QED
    BY <1>1, <1>2, <2>2
<1>8. \A p \in Request : req'[p] \in {req[p], Idle}
  BY DEF Insert, End, OptInInv, TypeOK
<1>9. minted' >= minted
  BY <1>1
<1> QED
  BY <1>1, <1>3, <1>4, <1>5, <1>6, <1>7, <1>8, <1>9, WriteKeeps

\* An edit: a sound row has not changed since it was first read, so the
\* columns written back are the row's own.
LEMMA EditWriteKeeps ==
    ASSUME OptInInv, TypeOK', NEW q \in Request, EditWrite(q) PROVE OptInInv'
<1>0. PICK i \in Id : i = req[q].id
  BY DEF OptInInv, TypeOK, Requests
<1>1. PICK r \in RowRecord :
        /\ row' = [row EXCEPT ![i] = r]
        /\ r.box = req[q].box
        /\ r.firm = row[i].firm
        /\ req[q].box # req[q].first.box =>
             r.status = "pending" /\ r.confirmed = 0 /\ r.ask = minted' /\ Mint
        /\ req[q].box = req[q].first.box =>
             /\ r.status = req[q].seen.status
             /\ r.confirmed = req[q].seen.confirmed
             /\ r.ask = req[q].seen.ask
             /\ mail' = mail /\ minted' = minted
  BY <1>0, EditWriteRow DEF OptInInv
<1>2. row'[i] = r /\ \A j \in Id \ {i} : row'[j] = row[j]
  BY <1>1 DEF OptInInv, TypeOK
<1>3. row[i].firm /\ row[i].status # "none" /\ r.status # "none"
  BY <1>0, <1>1 DEF EditWrite, OptInInv, Underway, Read, Holds
<1>4. minted \in Nat /\ minted' \in Nat /\ minted' >= minted
      /\ (req[q].box # req[q].first.box => minted' > minted)
  BY <1>1 DEF OptInInv, TypeOK, Mint
<1>5. Grows /\ clock' >= clock
  BY DEF EditWrite, Grows, OptInInv, TypeOK
<1>6. ASSUME Sound(i)' PROVE Sound(i) /\ row[i] = req[q].seen /\ row[i] = req[q].first
  <2>1. i \notin crossed'
    BY <1>1, <1>2, <1>3, <1>6 DEF Sound
  <2> QED
    BY <1>0, <1>5, <2>1 DEF EditWrite, Sound, Grows
<1>7. ASSUME NEW j \in Id PROVE Keeps(j) /\ Readdresses(j)
  <2>1. CASE j = i
    <3>1. Keeps(i)
      BY <1>1, <1>2, <1>3 DEF Keeps
    <3>2. Readdresses(i)
      BY <1>1, <1>2, <1>4, <1>6 DEF Readdresses
    <3> QED
      BY <2>1, <3>1, <3>2
  <2>2. CASE j # i
    BY <1>2, <2>2 DEF Keeps, Readdresses
  <2> QED
    BY <2>1, <2>2
<1>8. FirmRows'
  BY <1>2, <1>3 DEF FirmRows, OptInInv
<1>9. Consent'
  <2> SUFFICES ASSUME NEW j \in Id, Sound(j)'
               PROVE  /\ row'[j].confirmed # 0 => <<j, row'[j].box>> \in consented'
                      /\ row'[j].status = "confirmed" => row'[j].confirmed # 0
    BY DEF Consent
  <2>1. CASE j = i
    <3>1. Sound(i) /\ row[i] = req[q].seen /\ row[i] = req[q].first
      BY <1>6, <2>1
    <3>2. CASE req[q].box # req[q].first.box
      BY <1>1, <1>2, <2>1, <3>2
    <3>3. CASE req[q].box = req[q].first.box
      <4>1. r.box = row[i].box /\ r.confirmed = row[i].confirmed
            /\ r.status = row[i].status
        BY <1>1, <3>1, <3>3
      <4> QED
        BY <1>2, <1>5, <2>1, <3>1, <4>1 DEF OptInInv, Consent, Grows
    <3> QED
      BY <3>2, <3>3
  <2>2. CASE j # i
    <3>1. row'[j] = row[j] /\ Sound(j)
      BY <1>2, <1>5, <2>2 DEF Sound, Grows
    <3> QED
      BY <1>5, <3>1 DEF OptInInv, Consent, Grows
  <2> QED
    BY <2>1, <2>2
<1>10. ASSUME NEW e \in mail' \ mail
       PROVE  /\ row'[e.id].status # "none" /\ e.ask <= minted'
              /\ e.ask # 0 => e.box = row'[e.id].box
  <2>1. req[q].box # req[q].first.box
    BY <1>1, <1>10
  <2>2. e = [box |-> req[q].box, id |-> i, ask |-> minted', link |-> req[q].seen.link]
    BY <1>0, <1>10, <2>1 DEF EditWrite
  <2>3. e.id = i /\ e.box = req[q].box /\ e.ask = minted'
    BY <2>2
  <2> QED
    BY <1>1, <1>2, <1>3, <1>4, <2>3
<1>11. \A p \in Request : req'[p] \in {req[p], Idle}
  BY DEF EditWrite, End, OptInInv, TypeOK
<1> QED
  BY <1>4, <1>5, <1>7, <1>8, <1>9, <1>10, <1>11, WriteKeeps

\* A removal or a bounce only takes rows out of use by the passes.
LEMMA StoppingKeeps ==
    ASSUME OptInInv, TypeOK', UNCHANGED <<req, mail, minted, consented, crossed>>,
           clock' >= clock,
           \A i \in Id :
               \/ row'[i] = row[i]
               \/ /\ row[i].status # "none" /\ row'[i].status = "stopped"
                  /\ row'[i].box = row[i].box /\ row'[i].firm = row[i].firm
                  /\ row'[i].ask = row[i].ask
                  /\ row'[i].confirmed = row[i].confirmed
    PROVE  OptInInv'
<1>1. Grows /\ \A i \in Id : Keeps(i) /\ Readdresses(i)
  BY DEF Grows, Keeps, Readdresses
<1>2. FirmRows'
  BY DEF FirmRows, OptInInv
<1>3. Consent'
  BY DEF Consent, Sound, OptInInv
<1>4. minted' >= minted
  BY DEF OptInInv, TypeOK
<1>5. mail' \ mail = {}
  OBVIOUS
<1> QED
  BY <1>1, <1>2, <1>3, <1>4, <1>5, WriteKeeps

LEMMA RemoveKeeps ==
    ASSUME OptInInv, TypeOK', NEW q \in Request, NEW i \in Id, Remove(q, i)
    PROVE  OptInInv'
<1>1. row[i].status # "none"
  BY DEF Remove, OptInInv, FirmRows
<1>2. row[i] \in RowRecord
  BY DEF OptInInv, TypeOK
<1> DEFINE r == [row[i] EXCEPT !.status = "stopped", !.reason = "removed",
                               !.stopped = clock']
<1>3. /\ r.status = "stopped" /\ r.box = row[i].box /\ r.firm = row[i].firm
      /\ r.ask = row[i].ask /\ r.confirmed = row[i].confirmed
  BY <1>2 DEF RowRecord
<1>4. row' = [row EXCEPT ![i] = r]
  BY DEF Remove
<1> HIDE DEF r
<1>5. clock' >= clock /\ UNCHANGED <<req, mail, minted, consented, crossed>>
  BY DEF Remove, Now, OptInInv, TypeOK
<1> QED
  BY <1>1, <1>3, <1>4, <1>5, StoppingKeeps DEF OptInInv, TypeOK

LEMMA BounceKeeps ==
    ASSUME OptInInv, TypeOK', NEW m \in Mailbox, Bounce(m) PROVE OptInInv'
<1>1. clock' >= clock /\ UNCHANGED <<req, mail, minted, consented, crossed>>
  <2>1. Now /\ UNCHANGED <<req, mail, minted, consented, crossed>>
    BY DEF Bounce
  <2> QED
    BY <2>1 DEF Now, OptInInv, TypeOK
<1>2. ASSUME NEW i \in Id, row'[i] # row[i]
      PROVE  /\ row[i].status # "none" /\ row'[i].status = "stopped"
             /\ row'[i].box = row[i].box /\ row'[i].firm = row[i].firm
             /\ row'[i].ask = row[i].ask /\ row'[i].confirmed = row[i].confirmed
  <2> DEFINE r == [row[i] EXCEPT !.status = "stopped", !.reason = "bounced",
                                 !.stopped = clock']
  <2>1. row[i] \in RowRecord
    BY DEF OptInInv, TypeOK
  <2>2. row'[i] = r /\ row[i].status # "none"
    BY <1>2 DEF Bounce
  <2>3. /\ r.status = "stopped" /\ r.box = row[i].box /\ r.firm = row[i].firm
        /\ r.ask = row[i].ask /\ r.confirmed = row[i].confirmed
    BY <2>1 DEF RowRecord
  <2> HIDE DEF r
  <2> QED
    BY <2>2, <2>3
<1> QED
  BY <1>1, <1>2, StoppingKeeps

LEMMA RemindKeeps == ASSUME OptInInv, TypeOK', NEW i \in Id, Remind(i) PROVE OptInInv'
<1>1. UNCHANGED <<row, minted, clock, req, consented, crossed>>
      /\ row[i].status = "confirmed"
      /\ \A e \in mail' \ mail : e.id = i /\ e.ask = 0
  BY DEF Remind, table, history
<1>2. Grows /\ \A j \in Id : Keeps(j) /\ Readdresses(j)
  BY <1>1 DEF Grows, Keeps, Readdresses
<1>3. FirmRows' /\ Consent'
  BY <1>1 DEF FirmRows, Consent, Sound, OptInInv
<1>4. clock' >= clock /\ minted' >= minted /\ 0 <= minted'
  BY <1>1 DEF OptInInv, TypeOK
<1> QED
  BY <1>1, <1>2, <1>3, <1>4, WriteKeeps

LEMMA StepOptIn == OptInInv /\ [Next]_vars => OptInInv'
<1> SUFFICES ASSUME OptInInv, [Next]_vars PROVE OptInInv'
  OBVIOUS
<1>0. TypeOK'
  BY StepTyped DEF OptInInv
<1>1. ASSUME NEW q \in Request, NEW i \in Id, NEW own \in OwnDate, Insert(q, i, own)
      PROVE  OptInInv'
  BY <1>0, <1>1, InsertKeeps
<1>2. ASSUME NEW q \in Request, NEW op \in {"signup", "add"}, NEW m \in Mailbox,
             NEW s \in State, Look(q, op, m, s)
      PROVE  OptInInv'
  BY <1>0, <1>2, LookKeeps
<1>3. ASSUME NEW q \in Request, NEW e \in mail, ByLink(q, e) PROVE OptInInv'
  BY <1>0, <1>3, LinkKeeps
<1>4. ASSUME NEW q \in Request, NEW i \in Id, RenewRead(q, i) \/ Remove(q, i)
      PROVE  OptInInv'
  BY <1>0, <1>4, RenewReadKeeps, RemoveKeeps
<1>5. ASSUME NEW q \in Request, NEW i \in Id, NEW m \in Mailbox, EditRead(q, i, m)
      PROVE  OptInInv'
  BY <1>0, <1>5, EditReadKeeps
<1>6. ASSUME NEW q \in Request, Finish(q) PROVE OptInInv'
  BY <1>0, <1>6, ConfirmKeeps, StopKeeps, RearmKeeps, EditMovesKeep, EditWriteKeeps
     DEF Finish
<1>7. ASSUME NEW m \in Mailbox, Bounce(m) PROVE OptInInv'
  BY <1>0, <1>7, BounceKeeps
<1>8. ASSUME NEW i \in Id, Remind(i) PROVE OptInInv'
  BY <1>0, <1>8, RemindKeeps
<1>9. CASE UNCHANGED vars
  <2>1. UNCHANGED <<row, req, mail, minted, clock, consented, crossed>>
    BY <1>9 DEF vars, history
  <2>2. FirmRows' /\ Letters' /\ Consent'
    BY <2>1 DEF OptInInv, FirmRows, Letters, Consent, Sound
  <2>3. Underway'
    BY <2>1 DEF OptInInv, Underway, Read, Holds, Sound
  <2> QED
    BY <1>0, <2>1, <2>2, <2>3 DEF OptInInv
<1> QED
  BY <1>1, <1>2, <1>3, <1>4, <1>5, <1>6, <1>7, <1>8, <1>9, NextCases

\* Whatever requests overlap, reminders go only to mailboxes that confirmed
\* or that a firm added, on every row no request wrote back over another's
\* change, and on every free row (DoubleOptIn).
THEOREM OptInFirst == Spec => []DoubleOptIn
<1>1. OptInInv => DoubleOptIn
  BY DEF OptInInv, Consent, Sound, DoubleOptIn
<1> QED
  BY <1>1, InitOptIn, StepOptIn, PTL DEF Spec

-----------------------------------------------------------------------------
(* Removed lines stay off the roster.                                      *)

\* What a request has read was no removed line, unless it read a row that
\* two requests had already crossed on.
Away(q) ==
    /\ req[q].pc = "write" /\ req[q].op \in {"confirm", "nextcycle", "rearm", "renew"}
           /\ req[q].id \notin crossed => req[q].seen.reason # "removed"
    /\ req[q].pc \in {"conflict", "select"} =>
           req[q].op = "edit" /\ req[q].first.reason # "removed"
    /\ req[q].pc = "write" /\ req[q].op = "edit" => req[q].first.reason # "removed"

OffInv ==
    /\ TypeOK
    /\ \A i \in Id : row[i].reason = "removed" /\ i \notin crossed =>
                         row[i].status = "stopped"
    /\ \A q \in Request : Away(q)

\* A step leaves a removed line stopped, and a line it stops as removed too.
StaysOff(i) ==
    i \notin crossed' /\ (row[i].reason = "removed" \/ row'[i].reason = "removed") =>
        row'[i].status = "stopped"

LEMMA OffSteps ==
    ASSUME OffInv, TypeOK', crossed \subseteq crossed', \A i \in Id : StaysOff(i),
           \A p \in Request : req'[p] = req[p] \/ Away(p)'
    PROVE  OffInv' /\ \A i \in Id : row[i].reason = "removed"
                                    /\ row'[i].status # "stopped" => i \in crossed'
<1>1. \A i \in Id : row'[i].reason = "removed" /\ i \notin crossed' =>
                        row'[i].status = "stopped"
  BY DEF StaysOff
<1>2. ASSUME NEW p \in Request PROVE Away(p)'
  <2>1. CASE req'[p] = req[p]
    BY <2>1 DEF OffInv, Away
  <2> QED
    BY <2>1
<1> QED
  BY <1>1, <1>2 DEF OffInv, StaysOff

\* No row changes: the lines that were stopped still are.
LEMMA OffReads ==
    ASSUME OffInv, UNCHANGED <<row, crossed>>
    PROVE  crossed \subseteq crossed' /\ \A i \in Id : StaysOff(i)
BY DEF OffInv, StaysOff

LEMMA LinkOff ==
    ASSUME OffInv, TypeOK', NEW q \in Request, NEW e \in mail, ByLink(q, e)
    PROVE  /\ crossed \subseteq crossed' /\ \A i \in Id : StaysOff(i)
           /\ \A p \in Request : req'[p] = req[p] \/ Away(p)'
<1>1. UNCHANGED <<row, crossed>> /\ e.id \in Id
  BY DEF ByLink, ConfirmRead, NextCycleRead, RearmRead, StopAgain, StopRead, table,
         history, OffInv, TypeOK, Email
<1>2. ASSUME NEW kind, Click(q, kind, e), kind # "edit",
             kind \in {"confirm", "nextcycle", "rearm", "renew"} /\ e.id \notin crossed =>
                 row[e.id].reason # "removed"
      PROVE  \A p \in Request : req'[p] = req[p] \/ Away(p)'
  <2>1. /\ \A p \in Request \ {q} : req'[p] = req[p]
        /\ req'[q].pc = "write" /\ req'[q].op = kind /\ req'[q].id = e.id
        /\ req'[q].seen = row[e.id]
    BY <1>2 DEF Click, Begin, Idle, OffInv, TypeOK
  <2>2. Away(q)'
    BY <1>1, <1>2, <2>1 DEF Away
  <2> QED
    BY <2>1, <2>2
<1>3. CASE ConfirmRead(q, e)
  <2>1. Click(q, "confirm", e) /\ row[e.id].status = "pending"
    BY <1>3 DEF ConfirmRead
  <2>2. e.id \notin crossed => row[e.id].reason # "removed"
    BY <1>1, <2>1 DEF OffInv
  <2> QED
    BY <1>1, <1>2, <2>1, <2>2, OffReads
<1>4. CASE NextCycleRead(q, e) \/ RearmRead(q, e)
  <2>1. PICK kind \in {"nextcycle", "rearm"} : Click(q, kind, e)
    BY <1>4 DEF NextCycleRead, RearmRead
  <2>2. row[e.id].reason # "removed"
    BY <1>4 DEF NextCycleRead, RearmRead, Renewable, Rearmable
  <2> QED
    BY <1>1, <1>2, <2>1, <2>2, OffReads
<1>5. CASE StopAgain(q, e)
  BY <1>1, <1>5, OffReads DEF StopAgain
<1>6. ASSUME NEW reason \in {"unsubscribed", "renewed"}, StopRead(q, e, reason)
      PROVE  \A p \in Request : req'[p] = req[p] \/ Away(p)'
  BY <1>2, <1>6 DEF StopRead
<1> QED
  BY <1>1, <1>3, <1>4, <1>5, <1>6, OffReads DEF ByLink

LEMMA DashboardOff ==
    ASSUME OffInv, TypeOK', NEW q \in Request,
           \/ \E op \in {"signup", "add"}, m \in Mailbox, s \in State : Look(q, op, m, s)
           \/ \E i \in Id : RenewRead(q, i)
           \/ \E i \in Id, m \in Mailbox : EditRead(q, i, m)
           \/ EditConflict(q)
           \/ EditSelect(q)
    PROVE  /\ crossed \subseteq crossed' /\ \A i \in Id : StaysOff(i)
           /\ \A p \in Request : req'[p] = req[p] \/ Away(p)'
<1>1. UNCHANGED <<row, crossed>>
  BY DEF Look, RenewRead, EditRead, EditConflict, EditSelect, table, history
<1>2. \A p \in Request \ {q} : req'[p] = req[p]
  BY DEF Look, RenewRead, EditRead, EditConflict, EditSelect, Begin, End, OffInv, TypeOK
<1>3. CASE \E op \in {"signup", "add"}, m \in Mailbox, s \in State : Look(q, op, m, s)
  <2>1. req'[q].pc = "insert"
    BY <1>3 DEF Look, Begin, Idle, OffInv, TypeOK
  <2> QED
    BY <1>1, <1>2, <2>1, OffReads DEF Away
<1>4. CASE \E i \in Id : RenewRead(q, i)
  <2>1. PICK i \in Id : RenewRead(q, i)
    BY <1>4
  <2>2. req'[q].pc = "write" /\ req'[q].op = "renew" /\ req'[q].seen.reason # "removed"
    BY <2>1 DEF RenewRead, Renewable, Begin, Idle, OffInv, TypeOK
  <2> QED
    BY <1>1, <1>2, <2>2, OffReads DEF Away
<1>5. CASE \E i \in Id, m \in Mailbox : EditRead(q, i, m)
  <2>0. PICK i \in Id, m \in Mailbox : EditRead(q, i, m)
    BY <1>5
  <2>1. /\ req'[q].pc \in {"select", "conflict"} /\ req'[q].op = "edit"
        /\ req'[q].first = row[i] /\ row[i].reason # "removed"
    BY <2>0 DEF EditRead, Begin, Idle, OffInv, TypeOK
  <2>2. Away(q)'
    BY <2>1 DEF Away
  <2> QED
    BY <1>1, <1>2, <2>2, OffReads
<1>6. CASE EditConflict(q)
  <2>1. req[q].first.reason # "removed" /\ req[q].op = "edit"
    BY <1>6 DEF EditConflict, OffInv, Away
  <2>2. \/ req'[q] = Idle
        \/ /\ req'[q].pc = "select" /\ req'[q].first = req[q].first
           /\ req'[q].op = req[q].op
    BY <1>6 DEF EditConflict, End, OffInv, TypeOK, Requests
  <2>3. Away(q)'
    BY <2>1, <2>2 DEF Away, Idle
  <2> QED
    BY <1>1, <1>2, <2>3, OffReads
<1>7. CASE EditSelect(q)
  <2>1. req[q].first.reason # "removed"
    BY <1>7 DEF EditSelect, OffInv, Away
  <2>2. /\ req'[q].pc = "write" /\ req'[q].first = req[q].first
        /\ req'[q].op = req[q].op
    BY <1>7 DEF EditSelect, OffInv, TypeOK, Requests
  <2>3. req[q].op = "edit"
    BY <1>7 DEF EditSelect, OffInv, Away
  <2>4. Away(q)'
    BY <2>1, <2>2, <2>3 DEF Away
  <2> QED
    BY <1>1, <1>2, <2>4, OffReads
<1> QED
  BY <1>3, <1>4, <1>5, <1>6, <1>7

\* A request that writes its row, with what that leaves of the row's reason.
LEMMA WriteOff ==
    ASSUME OffInv, NEW q \in Request, NEW i \in Id, i = req[q].id,
           NEW new, Write(q, new),
           i \notin crossed' /\ row[i] = req[q].seen
               /\ (row[i].reason = "removed" \/ new.reason = "removed") =>
                   new.status = "stopped"
    PROVE  /\ crossed \subseteq crossed' /\ \A j \in Id : StaysOff(j)
           /\ \A p \in Request : req'[p] = req[p] \/ Away(p)'
<1>1. /\ row'[i] = new /\ crossed \subseteq crossed'
      /\ i \notin crossed' => row[i] = req[q].seen
      /\ \A j \in Id \ {i} : row'[j] = row[j]
      /\ req'[q] = Idle /\ \A p \in Request \ {q} : req'[p] = req[p]
  BY DEF Write, End, OffInv, TypeOK
<1>2. Away(q)'
  BY <1>1 DEF Away, Idle
<1>3. ASSUME NEW j \in Id PROVE StaysOff(j)
  <2>1. CASE j = i
    BY <1>1, <2>1 DEF StaysOff
  <2>2. CASE j # i
    BY <1>1, <2>2 DEF StaysOff, OffInv
  <2> QED
    BY <2>1, <2>2
<1> QED
  BY <1>1, <1>2, <1>3

LEMMA FinishOff ==
    ASSUME OffInv, NEW q \in Request,
           ConfirmWrite(q) \/ StopWrite(q) \/ RearmWrite(q)
    PROVE  /\ crossed \subseteq crossed' /\ \A j \in Id : StaysOff(j)
           /\ \A p \in Request : req'[p] = req[p] \/ Away(p)'
<1>0. PICK i \in Id : i = req[q].id
  BY DEF OffInv, TypeOK, Requests
<1>1. row[i] \in RowRecord
  BY DEF OffInv, TypeOK
<1>2. CASE ConfirmWrite(q)
  <2> DEFINE new == [row[i] EXCEPT !.status = "confirmed", !.confirmed = clock']
  <2>1. Write(q, new) /\ req[q].pc = "write" /\ req[q].op = "confirm"
    BY <1>0, <1>2 DEF ConfirmWrite
  <2>2. new.reason = row[i].reason
    BY <1>1 DEF RowRecord
  <2> HIDE DEF new
  <2>3. i \notin crossed' => i \notin crossed
    BY <2>1 DEF Write
  <2>4. i \notin crossed' /\ row[i] = req[q].seen => row[i].reason # "removed"
    BY <1>0, <2>1, <2>3 DEF OffInv, Away
  <2> QED
    BY <1>0, <2>1, <2>2, <2>4, WriteOff
<1>3. CASE StopWrite(q)
  <2> DEFINE new == [row[i] EXCEPT !.status = "stopped", !.stopped = clock',
                                   !.reason = req[q].op]
  <2>1. Write(q, new)
    BY <1>0, <1>3 DEF StopWrite
  <2>2. new.status = "stopped"
    BY <1>1 DEF RowRecord
  <2> HIDE DEF new
  <2> QED
    BY <1>0, <2>1, <2>2, WriteOff
<1>4. CASE RearmWrite(q)
  <2> DEFINE new == [row[i] EXCEPT !.status = "confirmed", !.stopped = 0,
                                   !.reason = "none", !.link = minted']
  <2>1. Write(q, new) /\ req[q].pc = "write"
        /\ req[q].op \in {"nextcycle", "rearm", "renew"}
    BY <1>0, <1>4 DEF RearmWrite
  <2>2. new.reason = "none"
    BY <1>1 DEF RowRecord
  <2> HIDE DEF new
  <2>3. i \notin crossed' => i \notin crossed
    BY <2>1 DEF Write
  <2>4. i \notin crossed' /\ row[i] = req[q].seen => row[i].reason # "removed"
    BY <1>0, <2>1, <2>3 DEF OffInv, Away
  <2> QED
    BY <1>0, <2>1, <2>2, <2>4, WriteOff
<1> QED
  BY <1>2, <1>3, <1>4

LEMMA EditWriteOff ==
    ASSUME OffInv, NEW q \in Request, EditWrite(q)
    PROVE  /\ crossed \subseteq crossed' /\ \A j \in Id : StaysOff(j)
           /\ \A p \in Request : req'[p] = req[p] \/ Away(p)'
<1>0. PICK i \in Id : i = req[q].id
  BY DEF OffInv, TypeOK, Requests
<1>1. /\ row[i] \in RowRecord /\ req[q].seen \in RowRecord
      /\ req[q].first.reason # "removed"
  BY <1>0 DEF EditWrite, OffInv, Away, TypeOK, Requests
<1>2. /\ crossed \subseteq crossed'
      /\ i \notin crossed' => row[i] = req[q].seen /\ row[i] = req[q].first
      /\ req'[q] = Idle /\ \A p \in Request \ {q} : req'[p] = req[p]
  BY <1>0 DEF EditWrite, End, OffInv, TypeOK
<1>3. /\ \A j \in Id \ {i} : row'[j] = row[j]
      /\ row'[i].reason \in {"none", req[q].seen.reason}
  <2>1. PICK r \in RowRecord :
          row' = [row EXCEPT ![i] = r] /\ r.reason \in {"none", req[q].seen.reason}
    BY <1>0, EditWriteRow DEF OffInv
  <2> QED
    BY <2>1 DEF OffInv, TypeOK
<1>4. Away(q)'
  BY <1>2 DEF Away, Idle
<1>5. ASSUME NEW j \in Id PROVE StaysOff(j)
  <2>1. CASE j = i
    BY <1>1, <1>2, <1>3, <2>1 DEF StaysOff
  <2>2. CASE j # i
    BY <1>2, <1>3, <2>2 DEF StaysOff, OffInv
  <2> QED
    BY <2>1, <2>2
<1> QED
  BY <1>2, <1>4, <1>5

LEMMA InsertOff ==
    ASSUME OffInv, NEW q \in Request, NEW i \in Id, NEW own \in OwnDate,
           Insert(q, i, own)
    PROVE  /\ crossed \subseteq crossed' /\ \A j \in Id : StaysOff(j)
           /\ \A p \in Request : req'[p] = req[p] \/ Away(p)'
<1>1. /\ row[i].status = "none" /\ row'[i].reason = "none"
      /\ \A j \in Id \ {i} : row'[j] = row[j]
      /\ UNCHANGED crossed
      /\ req'[q] = Idle /\ \A p \in Request \ {q} : req'[p] = req[p]
  <2>1. Unused.reason = "none"
    BY DEF Unused
  <2>2. row[i].status = "none" /\ UNCHANGED crossed /\ End(q)
    BY DEF Insert
  <2>3. row'[i].reason = "none" /\ \A j \in Id \ {i} : row'[j] = row[j]
    BY <2>1, UnusedTyped DEF Insert, OffInv, TypeOK, RowRecord
  <2> QED
    BY <2>2, <2>3 DEF End, OffInv, TypeOK
<1>2. Away(q)'
  BY <1>1 DEF Away, Idle
<1>3. \A j \in Id : StaysOff(j)
  BY <1>1 DEF StaysOff, OffInv
<1> QED
  BY <1>1, <1>2, <1>3

\* Taking lines off, bouncing and reminding stops rows or leaves them.
LEMMA StoppedOrSame ==
    ASSUME TypeOK, NEW j \in Id,
           \/ \E q \in Request, i \in Id : Remove(q, i)
           \/ \E m \in Mailbox : Bounce(m)
           \/ \E i \in Id : Remind(i)
           \/ UNCHANGED vars
    PROVE  row'[j] = row[j] \/ row'[j].status = "stopped"
<1>1. row[j] \in RowRecord /\ row \in [Id -> RowRecord]
  BY DEF TypeOK
<1>2. CASE \E q \in Request, i \in Id : Remove(q, i)
  <2>1. PICK q \in Request, i \in Id : Remove(q, i)
    BY <1>2
  <2> DEFINE r == [row[i] EXCEPT !.status = "stopped", !.reason = "removed",
                                 !.stopped = clock']
  <2>2. r.status = "stopped"
    BY DEF TypeOK, RowRecord
  <2>3. row' = [row EXCEPT ![i] = r]
    BY <2>1 DEF Remove
  <2> HIDE DEF r
  <2> QED
    BY <1>1, <2>2, <2>3
<1>3. CASE \E m \in Mailbox : Bounce(m)
  <2> DEFINE r == [row[j] EXCEPT !.status = "stopped", !.reason = "bounced",
                                 !.stopped = clock']
  <2>1. r.status = "stopped"
    BY <1>1 DEF RowRecord
  <2>2. row'[j] \in {row[j], r}
    BY <1>3 DEF Bounce
  <2> HIDE DEF r
  <2> QED
    BY <2>1, <2>2
<1>4. CASE (\E i \in Id : Remind(i)) \/ UNCHANGED vars
  BY <1>4 DEF Remind, table, vars
<1> QED
  BY <1>2, <1>3, <1>4

LEMMA StoppingOff ==
    ASSUME OffInv,
           \/ \E q \in Request, i \in Id : Remove(q, i)
           \/ \E m \in Mailbox : Bounce(m)
           \/ \E i \in Id : Remind(i)
           \/ UNCHANGED vars
    PROVE  /\ crossed \subseteq crossed' /\ \A j \in Id : StaysOff(j)
           /\ \A p \in Request : req'[p] = req[p] \/ Away(p)'
<1>1. UNCHANGED <<req, crossed>>
  BY DEF Remove, Bounce, Remind, vars, history
<1>2. ASSUME NEW j \in Id PROVE row'[j] = row[j] \/ row'[j].status = "stopped"
  BY StoppedOrSame DEF OffInv
<1> QED
  BY <1>1, <1>2 DEF StaysOff, OffInv

\* A line the admin removed comes back only through a request that had read
\* it before (RemovedStaysOff).
THEOREM RemovalHolds == Spec => RemovedStaysOff
<1> DEFINE NoneBack == \A i \in Id : row[i].reason = "removed"
                           /\ row'[i].status # "stopped" => i \in crossed'
<1>1. Init => OffInv
  <2> SUFFICES ASSUME Init PROVE OffInv
    OBVIOUS
  <2>1. (\A i \in Id : row[i].reason = "none") /\ \A q \in Request : req[q].pc = "idle"
    BY DEF Init, Unused, Idle
  <2> QED
    BY <2>1, InitTyped DEF OffInv, Away
<1>2. OffInv /\ [Next]_vars => OffInv' /\ NoneBack
  <2> SUFFICES ASSUME OffInv, [Next]_vars PROVE OffInv' /\ NoneBack
    OBVIOUS
  <2>1. TypeOK'
    BY StepTyped DEF OffInv
  <2>2. crossed \subseteq crossed' /\ (\A j \in Id : StaysOff(j))
        /\ \A p \in Request : req'[p] = req[p] \/ Away(p)'
    <3>1. CASE \E q \in Request, i \in Id, own \in OwnDate : Insert(q, i, own)
      BY <3>1, InsertOff
    <3>2. CASE \E q \in Request, op \in {"signup", "add"}, m \in Mailbox, s \in State :
                   Look(q, op, m, s)
      BY <2>1, <3>2, DashboardOff
    <3>3. CASE \E q \in Request, e \in mail : ByLink(q, e)
      BY <2>1, <3>3, LinkOff
    <3>4. CASE \E q \in Request, i \in Id : RenewRead(q, i)
      BY <2>1, <3>4, DashboardOff
    <3>5. CASE \E q \in Request, i \in Id, m \in Mailbox : EditRead(q, i, m)
      BY <2>1, <3>5, DashboardOff
    <3>6. CASE \E q \in Request : Finish(q)
      BY <2>1, <3>6, DashboardOff, FinishOff, EditWriteOff DEF Finish
    <3>7. CASE \/ \E q \in Request, i \in Id : Remove(q, i)
               \/ \E m \in Mailbox : Bounce(m)
               \/ \E i \in Id : Remind(i)
               \/ UNCHANGED vars
      BY <3>7, StoppingOff
    <3> QED
      BY <3>1, <3>2, <3>3, <3>4, <3>5, <3>6, <3>7, NextCases
  <2> QED
    BY <2>1, <2>2, OffSteps
<1>3. NoneBack => [\A i \in Id : row[i].reason = "removed"
                       /\ row'[i].status # "stopped" => i \in crossed']_vars
  OBVIOUS
<1> QED
  BY <1>1, <1>2, <1>3, PTL DEF Spec, RemovedStaysOff

-----------------------------------------------------------------------------
(* What a request that stops a row finds in it.                            *)

\* An opt-out is on a row that is stopped.
Unmarked(r) == r.status # "stopped" => r.reason \notin Permanent

\* What a request has read of its row.
Fresh(q) ==
    /\ req[q].pc \in {"conflict", "select"} => req[q].op = "edit"
    /\ (req[q].pc = "write" /\ req[q].op = "renewed") => req[q].seen.status # "stopped"
    /\ (req[q].pc = "write" /\ req[q].op = "confirm") => req[q].seen.status = "pending"

\* No click takes an opt-out away, unless it is made on a row on which requests
\* have crossed.
MarkInv ==
    /\ TypeOK
    /\ \A i \in Id : i \notin crossed => Unmarked(row[i])
    /\ \A q \in Request : Fresh(q)

LEMMA MarkStep ==
    ASSUME MarkInv, TypeOK', crossed \subseteq crossed',
           \A i \in Id : row'[i] = row[i] \/ i \in crossed' \/ Unmarked(row'[i]),
           \A p \in Request : req'[p] = req[p] \/ Fresh(p)'
    PROVE  MarkInv'
<1>1. \A i \in Id : i \notin crossed' => Unmarked(row'[i])
  BY DEF MarkInv
<1>2. \A p \in Request : Fresh(p)'
  BY DEF MarkInv, Fresh
<1> QED
  BY <1>1, <1>2 DEF MarkInv, Unmarked

LEMMA LinkMarks ==
    ASSUME MarkInv, TypeOK', NEW q \in Request, NEW e \in mail, ByLink(q, e)
    PROVE  MarkInv'
<1>1. UNCHANGED <<row, crossed>> /\ e.id \in Id
  BY DEF ByLink, ConfirmRead, NextCycleRead, RearmRead, StopAgain, StopRead, table,
         history, MarkInv, TypeOK, Email
<1>2. ASSUME NEW kind, Click(q, kind, e)
      PROVE  /\ \A p \in Request \ {q} : req'[p] = req[p]
             /\ req'[q].pc = "write" /\ req'[q].op = kind /\ req'[q].seen = row[e.id]
  BY <1>2 DEF Click, Begin, Idle, MarkInv, TypeOK
<1>3. CASE ConfirmRead(q, e)
  <2>1. Click(q, "confirm", e) /\ row[e.id].status = "pending"
    BY <1>3 DEF ConfirmRead
  <2> QED
    BY <1>1, <1>2, <2>1, MarkStep DEF Fresh
<1>4. CASE NextCycleRead(q, e) \/ RearmRead(q, e)
  <2>1. Click(q, "nextcycle", e) \/ Click(q, "rearm", e)
    BY <1>4 DEF NextCycleRead, RearmRead
  <2> QED
    BY <1>1, <1>2, <2>1, MarkStep DEF Fresh
<1>5. ASSUME NEW reason \in {"unsubscribed", "renewed"}, StopRead(q, e, reason)
      PROVE  MarkInv'
  <2>1. Click(q, reason, e) /\ row[e.id].status # "stopped"
    BY <1>5 DEF StopRead, Stoppable
  <2>2. Fresh(q)'
    BY <1>2, <2>1 DEF Fresh
  <2> QED
    BY <1>1, <1>2, <2>1, <2>2, MarkStep
<1>6. CASE StopAgain(q, e)
  BY <1>1, <1>6, MarkStep DEF StopAgain
<1> QED
  BY <1>3, <1>4, <1>5, <1>6 DEF ByLink

LEMMA DashboardMarks ==
    ASSUME MarkInv, TypeOK', NEW q \in Request,
           \/ \E op \in {"signup", "add"}, m \in Mailbox, s \in State : Look(q, op, m, s)
           \/ \E i \in Id : RenewRead(q, i)
           \/ \E i \in Id, m \in Mailbox : EditRead(q, i, m)
           \/ EditConflict(q)
           \/ EditSelect(q)
    PROVE  MarkInv'
<1>1. UNCHANGED <<row, crossed>>
  BY DEF Look, RenewRead, EditRead, EditConflict, EditSelect, table, history
<1>2. \A p \in Request \ {q} : req'[p] = req[p]
  BY DEF Look, RenewRead, EditRead, EditConflict, EditSelect, Begin, End, MarkInv, TypeOK
<1>3. Fresh(q)'
  <2>1. CASE \E op \in {"signup", "add"}, m \in Mailbox, s \in State : Look(q, op, m, s)
    <3>1. PICK op \in {"signup", "add"}, m \in Mailbox, s \in State : Look(q, op, m, s)
      BY <2>1
    <3>2. req'[q].pc = "insert"
      BY <3>1 DEF Look, Begin, Idle, MarkInv, TypeOK
    <3> QED
      BY <3>2 DEF Fresh
  <2>2. CASE \E i \in Id : RenewRead(q, i)
    <3>1. PICK i \in Id : RenewRead(q, i)
      BY <2>2
    <3>2. req'[q].pc = "write" /\ req'[q].op = "renew"
      BY <3>1 DEF RenewRead, Begin, Idle, MarkInv, TypeOK
    <3> QED
      BY <3>2 DEF Fresh
  <2>3. CASE \E i \in Id, m \in Mailbox : EditRead(q, i, m)
    <3>1. PICK i \in Id, m \in Mailbox : EditRead(q, i, m)
      BY <2>3
    <3>2. req'[q].pc \in {"select", "conflict"} /\ req'[q].op = "edit"
      BY <3>1 DEF EditRead, Begin, Idle, MarkInv, TypeOK
    <3> QED
      BY <3>2 DEF Fresh
  <2>4. CASE EditConflict(q)
    <3>1. \/ req'[q].pc = "idle"
          \/ req'[q].pc = "select" /\ req'[q].op = req[q].op
      BY <2>4 DEF EditConflict, End, Idle, MarkInv, TypeOK, Requests
    <3>2. req[q].op = "edit"
      BY <2>4 DEF EditConflict, MarkInv, Fresh
    <3> QED
      BY <3>1, <3>2 DEF Fresh
  <2>5. CASE EditSelect(q)
    <3>1. req'[q].pc = "write" /\ req'[q].op = req[q].op
      BY <2>5 DEF EditSelect, MarkInv, TypeOK, Requests
    <3>2. req[q].op = "edit"
      BY <2>5 DEF EditSelect, MarkInv, Fresh
    <3> QED
      BY <3>1, <3>2 DEF Fresh
  <2> QED
    BY <2>1, <2>2, <2>3, <2>4, <2>5
<1> QED
  BY <1>1, <1>2, <1>3, MarkStep

\* A request that writes its row, as it found it or after others crossed.
LEMMA WriteMarks ==
    ASSUME MarkInv, TypeOK', NEW q \in Request, NEW i \in Id, i = req[q].id,
           NEW new, Write(q, new),
           i \notin crossed' /\ row[i] = req[q].seen /\ Unmarked(row[i]) => Unmarked(new)
    PROVE  MarkInv'
<1>1. /\ row'[i] = new /\ crossed \subseteq crossed'
      /\ i \notin crossed' => row[i] = req[q].seen
      /\ \A j \in Id \ {i} : row'[j] = row[j]
      /\ req'[q] = Idle /\ \A p \in Request \ {q} : req'[p] = req[p]
  BY DEF Write, End, MarkInv, TypeOK
<1>2. Fresh(q)'
  BY <1>1 DEF Fresh, Idle
<1>3. i \in crossed' \/ Unmarked(row'[i])
  BY <1>1 DEF MarkInv
<1> QED
  BY <1>1, <1>2, <1>3, MarkStep

LEMMA FinishMarks ==
    ASSUME MarkInv, TypeOK', NEW q \in Request,
           ConfirmWrite(q) \/ StopWrite(q) \/ RearmWrite(q)
    PROVE  MarkInv'
<1>0. PICK i \in Id : i = req[q].id
  BY DEF MarkInv, TypeOK, Requests
<1>1. row[i] \in RowRecord
  BY DEF MarkInv, TypeOK
<1>2. CASE ConfirmWrite(q)
  <2> DEFINE new == [row[i] EXCEPT !.status = "confirmed", !.confirmed = clock']
  <2>1. Write(q, new) /\ req[q].seen.status = "pending"
    BY <1>0, <1>2 DEF ConfirmWrite, MarkInv, Fresh
  <2>2. new.reason = row[i].reason
    BY <1>1 DEF RowRecord
  <2> HIDE DEF new
  <2>3. row[i] = req[q].seen /\ Unmarked(row[i]) => Unmarked(new)
    BY <2>1, <2>2 DEF Unmarked
  <2> QED
    BY <1>0, <2>1, <2>3, WriteMarks
<1>3. CASE StopWrite(q)
  <2> DEFINE new == [row[i] EXCEPT !.status = "stopped", !.stopped = clock',
                                   !.reason = req[q].op]
  <2>1. Write(q, new)
    BY <1>0, <1>3 DEF StopWrite
  <2>2. Unmarked(new)
    BY <1>1 DEF RowRecord, Unmarked
  <2> HIDE DEF new
  <2> QED
    BY <1>0, <2>1, <2>2, WriteMarks
<1>4. CASE RearmWrite(q)
  <2> DEFINE new == [row[i] EXCEPT !.status = "confirmed", !.stopped = 0,
                                   !.reason = "none", !.link = minted']
  <2>1. Write(q, new)
    BY <1>0, <1>4 DEF RearmWrite
  <2>2. Unmarked(new)
    BY <1>1 DEF RowRecord, Unmarked, Permanent
  <2> HIDE DEF new
  <2> QED
    BY <1>0, <2>1, <2>2, WriteMarks
<1> QED
  BY <1>2, <1>3, <1>4

LEMMA EditWriteMarks ==
    ASSUME MarkInv, TypeOK', NEW q \in Request, EditWrite(q)
    PROVE  MarkInv'
<1>0. PICK i \in Id : i = req[q].id
  BY DEF MarkInv, TypeOK, Requests
<1>1. PICK r \in RowRecord :
        /\ row' = [row EXCEPT ![i] = r]
        /\ r.reason \in {"none", req[q].seen.reason}
        /\ req[q].box # req[q].first.box => r.status = "pending"
        /\ req[q].box = req[q].first.box =>
             r.status = req[q].seen.status /\ r.reason = req[q].seen.reason
  BY <1>0, EditWriteRow DEF MarkInv
<1>2. /\ crossed \subseteq crossed'
      /\ i \notin crossed' => i \notin crossed /\ row[i] = req[q].seen
      /\ req'[q] = Idle /\ \A p \in Request \ {q} : req'[p] = req[p]
  BY <1>0 DEF EditWrite, End, MarkInv, TypeOK
<1>3. req[q].box # req[q].first.box => r.reason = "none"
  <2> SUFFICES ASSUME req[q].box # req[q].first.box PROVE r.reason = "none"
    OBVIOUS
  <2> DEFINE s == [row[i] EXCEPT !.box = req[q].box, !.status = "pending",
                     !.reason = "none", !.stopped = 0, !.confirmed = 0, !.ask = minted']
  <2>1. row' = [row EXCEPT ![i] = s]
    BY <1>0 DEF EditWrite
  <2>2. s.reason = "none"
    BY DEF MarkInv, TypeOK, RowRecord
  <2> HIDE DEF s
  <2> QED
    BY <1>1, <2>1, <2>2 DEF MarkInv, TypeOK
<1>4. i \in crossed' \/ Unmarked(r)
  BY <1>1, <1>2, <1>3 DEF MarkInv, Unmarked, Permanent
<1>5. row'[i] = r /\ \A j \in Id \ {i} : row'[j] = row[j]
  BY <1>1 DEF MarkInv, TypeOK
<1>6. Fresh(q)'
  BY <1>2 DEF Fresh, Idle
<1> QED
  BY <1>2, <1>4, <1>5, <1>6, MarkStep

LEMMA InsertMarks ==
    ASSUME MarkInv, TypeOK', NEW q \in Request, NEW i \in Id, NEW own \in OwnDate,
           Insert(q, i, own)
    PROVE  MarkInv'
<1>1. Unused.reason = "none" /\ UNCHANGED crossed /\ End(q)
  BY DEF Insert, Unused
<1>2. row'[i].reason = "none" /\ \A j \in Id \ {i} : row'[j] = row[j]
  BY <1>1, UnusedTyped DEF Insert, MarkInv, TypeOK, RowRecord
<1>3. Fresh(q)' /\ \A p \in Request \ {q} : req'[p] = req[p]
  BY <1>1 DEF End, Fresh, Idle, MarkInv, TypeOK
<1>4. Unmarked(row'[i])
  BY <1>2 DEF Unmarked, Permanent
<1> QED
  BY <1>1, <1>2, <1>3, <1>4, MarkStep

LEMMA StoppingMarks ==
    ASSUME MarkInv, TypeOK',
           \/ \E q \in Request, i \in Id : Remove(q, i)
           \/ \E m \in Mailbox : Bounce(m)
           \/ \E i \in Id : Remind(i)
           \/ UNCHANGED vars
    PROVE  MarkInv'
<1>1. UNCHANGED <<req, crossed>>
  BY DEF Remove, Bounce, Remind, vars, history
<1>2. ASSUME NEW j \in Id PROVE row'[j] = row[j] \/ row'[j].status = "stopped"
  BY StoppedOrSame DEF MarkInv
<1> QED
  BY <1>1, <1>2, MarkStep DEF Unmarked

LEMMA MarkHolds == Spec => []MarkInv
<1>1. Init => MarkInv
  <2> SUFFICES ASSUME Init PROVE MarkInv
    OBVIOUS
  <2>1. /\ TypeOK /\ \A i \in Id : row[i] = Unused
        /\ \A q \in Request : req[q].pc = "idle"
    BY InitTyped DEF Init, Idle
  <2>2. Unmarked(Unused)
    BY DEF Unmarked, Unused, Permanent
  <2>3. \A q \in Request : Fresh(q)
    BY <2>1 DEF Fresh
  <2> QED
    BY <2>1, <2>2, <2>3 DEF MarkInv
<1>2. MarkInv /\ [Next]_vars => MarkInv'
  <2> SUFFICES ASSUME MarkInv, [Next]_vars PROVE MarkInv'
    OBVIOUS
  <2>1. TypeOK'
    BY StepTyped DEF MarkInv
  <2> QED
    BY <2>1, NextCases, InsertMarks, DashboardMarks, LinkMarks, FinishMarks, EditWriteMarks,
       StoppingMarks DEF Finish
<1> QED
  BY <1>1, <1>2, PTL DEF Spec

-----------------------------------------------------------------------------
(* An opt-out silences the mailbox.                                        *)

\* A row, or a copy of one: confirmed by now, and blank if not in use.
Past(r) == r.confirmed <= clock /\ (r.status = "none" => r.reason = "none")

\* Every row of the mailbox is older than an opt-out of it, but for the rows
\* on which requests have crossed.
Silenced(m) ==
    /\ OptOuts(m) # {}
    /\ \A i \in Id : row[i].box = m /\ i \notin crossed =>
         \E j \in OptOuts(m) : row[i].confirmed <= row[j].stopped

OutInv ==
    /\ TypeOK
    /\ \A i \in Id : Past(row[i])
    /\ \A q \in Request : Past(req[q].seen) /\ Past(req[q].first)
    /\ \A m \in Mailbox : (said[m] = "no" /\ m \notin waived) => Silenced(m)

LEMMA UnusedPast == TypeOK => Past(Unused)
BY DEF Past, Unused, TypeOK

\* A step keeps the mailboxes silenced if it leaves an opt-out where it is,
\* confirms no row, and spends the excuse where it does not.  The mailboxes
\* in M have just been opted out.
LEMMA SilentStep ==
    ASSUME OutInv, TypeOK', clock <= clock', NEW M \in SUBSET Mailbox,
           \A i \in Id : row'[i].confirmed <= clock' /\ (row'[i].status = "none" => row'[i].reason = "none"),
           \A p \in Request : \/ req'[p] = req[p]
                              \/ Past(req'[p].seen) /\ Past(req'[p].first),
           \A m \in M : \E j \in Id : /\ row'[j].box = m /\ row'[j].reason \in Permanent
                                      /\ row'[j].stopped = clock',
           \A m \in Mailbox \ M : (said'[m] = "no" /\ m \notin waived') =>
                                    (said[m] = "no" /\ m \notin waived),
           \A i \in Id : row[i].reason \in Permanent =>
              \/ row[i].box \in M \/ said'[row[i].box] = "yes" \/ row[i].box \in waived'
              \/ /\ row'[i].box = row[i].box /\ row'[i].reason \in Permanent
                 /\ row'[i].stopped = row[i].stopped,
           \A i \in Id :
              \/ i \in crossed' \/ row'[i].confirmed = 0
              \/ row'[i].box \in M \/ said'[row'[i].box] = "yes" \/ row'[i].box \in waived'
              \/ i \notin crossed /\ row'[i].box = row[i].box /\ row'[i].confirmed = row[i].confirmed
    PROVE  OutInv'
<1>1. \A i \in Id : row[i] \in RowRecord /\ row'[i] \in RowRecord
  BY DEF OutInv, TypeOK
<1>2. \A p \in Request : Past(req[p].seen)' /\ Past(req[p].first)'
  <2> SUFFICES ASSUME NEW p \in Request PROVE Past(req[p].seen)' /\ Past(req[p].first)'
    OBVIOUS
  <2>1. Past(req'[p].seen) /\ Past(req'[p].first)
    BY DEF OutInv
  <2>2. /\ req'[p].seen \in RowRecord /\ req'[p].first \in RowRecord
        /\ clock \in Nat /\ clock' \in Nat
    BY DEF OutInv, TypeOK, Requests
  <2> QED
    BY <2>1, <2>2 DEF Past, RowRecord
<1>3. ASSUME NEW m \in Mailbox, said'[m] = "no", m \notin waived'
      PROVE  Silenced(m)'
  <2>1. CASE m \in M
    <3>1. PICK j \in Id : row'[j].box = m /\ row'[j].reason \in Permanent /\ row'[j].stopped = clock'
      BY <2>1
    <3> QED
      BY <3>1 DEF Silenced, OptOuts
  <2>2. CASE m \notin M
    <3>1. Silenced(m)
      BY <1>3, <2>2 DEF OutInv
    <3>2. ASSUME NEW j \in OptOuts(m)
          PROVE  j \in OptOuts(m)' /\ row'[j].stopped = row[j].stopped
      BY <1>3, <2>2 DEF OptOuts
    <3>3. ASSUME NEW i \in Id, row'[i].box = m, i \notin crossed'
          PROVE  \E j \in OptOuts(m)' : row'[i].confirmed <= row'[j].stopped
      <4>1. \/ row'[i].confirmed = 0
            \/ i \notin crossed /\ row[i].box = m /\ row'[i].confirmed = row[i].confirmed
        BY <1>3, <2>2, <3>3
      <4>2. CASE row'[i].confirmed = 0
        <5>1. PICK j \in OptOuts(m) : TRUE
          BY <3>1 DEF Silenced
        <5>2. row[j].stopped \in Nat
          BY <1>1 DEF OptOuts, RowRecord
        <5> QED
          BY <3>2, <4>2, <5>1, <5>2
      <4>3. CASE i \notin crossed /\ row[i].box = m /\ row'[i].confirmed = row[i].confirmed
        <5>1. PICK j \in OptOuts(m) : row[i].confirmed <= row[j].stopped
          BY <3>1, <4>3 DEF Silenced
        <5> QED
          BY <3>2, <4>3, <5>1
      <4> QED
        BY <4>1, <4>2, <4>3
    <3>4. OptOuts(m)' # {}
      BY <3>1, <3>2 DEF Silenced
    <3> QED
      BY <3>3, <3>4 DEF Silenced
  <2> QED
    BY <2>1, <2>2
<1> QED
  BY <1>2, <1>3 DEF OutInv, Past

\* The requests that read, and a reminder: no row changes.
LEMMA ReadsOut ==
    ASSUME OutInv, TypeOK',
           UNCHANGED <<row, clock>>, crossed' = crossed,
           \A p \in Request : \/ req'[p] = req[p]
                              \/ Past(req'[p].seen) /\ Past(req'[p].first),
           \A m \in Mailbox : (said'[m] = "no" /\ m \notin waived') =>
                                (said[m] = "no" /\ m \notin waived)
    PROVE  OutInv'
<1>1. clock <= clock'
  BY DEF OutInv, TypeOK
<1>2. \A i \in Id : row'[i].confirmed <= clock' /\ (row'[i].status = "none" => row'[i].reason = "none")
  BY DEF OutInv, Past
<1> DEFINE M == {}
<1>3. /\ M \in SUBSET Mailbox
      /\ \A m \in M : \E j \in Id : /\ row'[j].box = m /\ row'[j].reason \in Permanent
                                   /\ row'[j].stopped = clock'
      /\ \A m \in Mailbox \ M : (said'[m] = "no" /\ m \notin waived') =>
                                 (said[m] = "no" /\ m \notin waived)
  OBVIOUS
<1> HIDE DEF M
<1>4. \A i \in Id :
         \/ i \in crossed' \/ row'[i].confirmed = 0
         \/ row'[i].box \in M \/ said'[row'[i].box] = "yes" \/ row'[i].box \in waived'
         \/ i \notin crossed /\ row'[i].box = row[i].box /\ row'[i].confirmed = row[i].confirmed
  OBVIOUS
<1>5. \A i \in Id : row[i].reason \in Permanent =>
         \/ row[i].box \in M \/ said'[row[i].box] = "yes" \/ row[i].box \in waived'
         \/ /\ row'[i].box = row[i].box /\ row'[i].reason \in Permanent
            /\ row'[i].stopped = row[i].stopped
  OBVIOUS
<1> QED
  BY <1>1, <1>2, <1>3, <1>4, <1>5, SilentStep

\* Request q writes new over row i, confirms it only if it says so, and takes
\* no opt-out away without an excuse.  The mailboxes in M are opted out.
Honest(q, i, new, M) ==
    /\ i = req[q].id /\ Write(q, new) /\ clock <= clock'
    /\ new \in RowRecord /\ new.box = row[i].box /\ new.confirmed <= clock'
    /\ new.status # "none"
    /\ M \in SUBSET {row[i].box}
    /\ M # {} => new.reason \in Permanent /\ new.stopped = clock'
    /\ \A m \in Mailbox \ M : (said'[m] = "no" /\ m \notin waived') =>
                               (said[m] = "no" /\ m \notin waived)
    /\ row[i].reason \in Permanent =>
         \/ row[i].box \in M \/ said'[row[i].box] = "yes" \/ row[i].box \in waived'
         \/ new.reason \in Permanent /\ new.stopped = row[i].stopped
    /\ \/ row[i] # req[q].seen \/ i \in crossed
       \/ said'[row[i].box] = "yes" \/ new.confirmed = row[i].confirmed

LEMMA WriteOut ==
    ASSUME OutInv, TypeOK', NEW q \in Request, NEW i \in Id, NEW new, NEW M,
           Honest(q, i, new, M)
    PROVE  OutInv'
<1>0. /\ i = req[q].id /\ Write(q, new) /\ clock <= clock'
      /\ new \in RowRecord /\ new.box = row[i].box /\ new.confirmed <= clock'
      /\ new.status # "none"
      /\ M \in SUBSET {row[i].box}
      /\ M # {} => new.reason \in Permanent /\ new.stopped = clock'
  BY DEF Honest
<1>1. \A j \in Id : row[j] \in RowRecord
  BY DEF OutInv, TypeOK
<1>2. /\ row'[i] = new /\ crossed \subseteq crossed'
      /\ i \notin crossed' => row[i] = req[q].seen
      /\ \A j \in Id \ {i} : row'[j] = row[j] /\ (j \notin crossed' <=> j \notin crossed)
      /\ req'[q] = Idle /\ \A p \in Request \ {q} : req'[p] = req[p]
  BY <1>0 DEF Write, End, OutInv, TypeOK
<1>3. \A j \in Id : row'[j].confirmed <= clock' /\ (row'[j].status = "none" => row'[j].reason = "none")
  <2> SUFFICES ASSUME NEW j \in Id, j # i PROVE row[j].confirmed <= clock'
                                              /\ (row[j].status = "none" => row[j].reason = "none")
    BY <1>0, <1>2
  <2> QED
    BY <1>0, <1>1 DEF OutInv, TypeOK, Past, RowRecord
<1>4. \A p \in Request : req'[p] = req[p] \/ (Past(req'[p].seen) /\ Past(req'[p].first))
  BY <1>2, UnusedPast DEF Idle, OutInv
<1>5. M \in SUBSET Mailbox
  BY <1>0, <1>1 DEF RowRecord
<1>6. \A m \in M : \E j \in Id : /\ row'[j].box = m /\ row'[j].reason \in Permanent
                                 /\ row'[j].stopped = clock'
  BY <1>0, <1>2
<1>7. \A j \in Id : row[j].reason \in Permanent =>
         \/ row[j].box \in M \/ said'[row[j].box] = "yes" \/ row[j].box \in waived'
         \/ /\ row'[j].box = row[j].box /\ row'[j].reason \in Permanent
            /\ row'[j].stopped = row[j].stopped
  BY <1>0, <1>2 DEF Honest
<1>8. \A j \in Id :
         \/ j \in crossed' \/ row'[j].confirmed = 0
         \/ row'[j].box \in M \/ said'[row'[j].box] = "yes" \/ row'[j].box \in waived'
         \/ j \notin crossed /\ row'[j].box = row[j].box /\ row'[j].confirmed = row[j].confirmed
  BY <1>0, <1>2 DEF Honest
<1>9. \A m \in Mailbox \ M : (said'[m] = "no" /\ m \notin waived') =>
                             (said[m] = "no" /\ m \notin waived)
  BY DEF Honest
<1> QED
  BY <1>0, <1>3, <1>4, <1>5, <1>6, <1>7, <1>8, <1>9, SilentStep

LEMMA ClockOn == ASSUME TypeOK, Now PROVE clock <= clock' /\ clock' \in Nat
BY DEF TypeOK, Now

LEMMA LinkOut ==
    ASSUME OutInv, TypeOK', NEW q \in Request, NEW e \in mail, ByLink(q, e)
    PROVE  OutInv'
<1>1. UNCHANGED <<row, clock, crossed>> /\ e.id \in Id /\ row[e.id].box \in Mailbox
  BY DEF ByLink, ConfirmRead, NextCycleRead, RearmRead, StopAgain, StopRead, table,
         history, OutInv, TypeOK, Email, RowRecord
<1>2. ASSUME NEW kind, Click(q, kind, e)
      PROVE  \A p \in Request : \/ req'[p] = req[p]
                                \/ Past(req'[p].seen) /\ Past(req'[p].first)
  <2>1. /\ \A p \in Request \ {q} : req'[p] = req[p]
        /\ req'[q].seen = row[e.id] /\ req'[q].first = Unused
    BY <1>2 DEF Click, Begin, Idle, OutInv, TypeOK
  <2> QED
    BY <1>1, <2>1, UnusedPast DEF OutInv
<1>3. CASE ConfirmRead(q, e) \/ NextCycleRead(q, e) \/ RearmRead(q, e)
  <2>1. (\E kind : Click(q, kind, e)) /\ UNCHANGED <<said, waived>>
    BY <1>3 DEF ConfirmRead, NextCycleRead, RearmRead, history
  <2> QED
    BY <1>1, <1>2, <2>1, ReadsOut
<1>4. ASSUME NEW reason \in {"unsubscribed", "renewed"}, StopRead(q, e, reason)
      PROVE  OutInv'
  <2>1. Click(q, reason, e) /\ UNCHANGED <<said, waived>>
    BY <1>4 DEF StopRead, history
  <2> QED
    BY <1>1, <1>2, <2>1, ReadsOut
<1>5. CASE StopAgain(q, e)
  <2>1. /\ req' = req /\ waived' = waived \cup {e.box}
        /\ said' = [said EXCEPT ![e.box] = "no"]
    BY <1>5 DEF StopAgain
  <2>2. \A m \in Mailbox : (said'[m] = "no" /\ m \notin waived') =>
                             (said[m] = "no" /\ m \notin waived)
    BY <1>1, <2>1 DEF OutInv, TypeOK
  <2> QED
    BY <1>1, <2>1, <2>2, ReadsOut
<1> QED
  BY <1>3, <1>4, <1>5 DEF ByLink

LEMMA DashboardOut ==
    ASSUME OutInv, TypeOK', NEW q \in Request,
           \/ \E op \in {"signup", "add"}, m \in Mailbox, s \in State : Look(q, op, m, s)
           \/ \E i \in Id : RenewRead(q, i)
           \/ \E i \in Id, m \in Mailbox : EditRead(q, i, m)
           \/ EditConflict(q)
           \/ EditSelect(q)
    PROVE  OutInv'
<1>1. UNCHANGED <<row, clock, crossed, said, waived>>
  BY DEF Look, RenewRead, EditRead, EditConflict, EditSelect, table, history
<1>2. \A p \in Request \ {q} : req'[p] = req[p]
  BY DEF Look, RenewRead, EditRead, EditConflict, EditSelect, Begin, End, OutInv, TypeOK
<1>3. req[q] \in Requests
  BY DEF OutInv, TypeOK
<1>4. CASE \E op \in {"signup", "add"}, m \in Mailbox, s \in State : Look(q, op, m, s)
  <2>1. req'[q].seen = Unused /\ req'[q].first = Unused
    <3>1. PICK op \in {"signup", "add"}, m \in Mailbox, s \in State : Look(q, op, m, s)
      BY <1>4
    <3>2. req' = [req EXCEPT ![q] = [Idle EXCEPT !.pc = "insert", !.op = op,
                                                !.box = m, !.state = s]]
      BY <3>1 DEF Look, Begin
    <3> QED
      BY <3>2 DEF Idle, OutInv, TypeOK
  <2> QED
    BY <1>1, <1>2, <2>1, UnusedPast, ReadsOut DEF OutInv
<1>5. CASE \E i \in Id : RenewRead(q, i)
  <2>1. PICK i \in Id : RenewRead(q, i)
    BY <1>5
  <2>2. req'[q].seen = row[i] /\ req'[q].first = Unused
    BY <2>1 DEF RenewRead, Begin, Idle, OutInv, TypeOK
  <2> QED
    BY <1>1, <1>2, <2>2, UnusedPast, ReadsOut DEF OutInv
<1>6. CASE \E i \in Id, m \in Mailbox : EditRead(q, i, m)
  <2>1. PICK i \in Id, m \in Mailbox : EditRead(q, i, m)
    BY <1>6
  <2>2. req'[q].first = row[i] /\ req'[q].seen = Unused
    BY <2>1 DEF EditRead, Begin, Idle, OutInv, TypeOK
  <2> QED
    BY <1>1, <1>2, <2>2, UnusedPast, ReadsOut DEF OutInv
<1>7. CASE EditConflict(q)
  <2>1. \/ req'[q] = Idle
        \/ req'[q].seen = req[q].seen /\ req'[q].first = req[q].first
    BY <1>3, <1>7 DEF EditConflict, End, OutInv, TypeOK, Requests
  <2>2. Past(req'[q].seen) /\ Past(req'[q].first)
    BY <2>1, UnusedPast DEF OutInv, Idle
  <2> QED
    BY <1>1, <1>2, <2>2, ReadsOut
<1>8. CASE EditSelect(q)
  <2>1. req'[q].seen = row[req[q].id] /\ req'[q].first = req[q].first /\ req[q].id \in Id
    BY <1>3, <1>8 DEF EditSelect, OutInv, TypeOK, Requests
  <2>2. Past(req'[q].seen) /\ Past(req'[q].first)
    BY <2>1 DEF OutInv
  <2> QED
    BY <1>1, <1>2, <2>2, ReadsOut
<1> QED
  BY <1>4, <1>5, <1>6, <1>7, <1>8

LEMMA FinishOut ==
    ASSUME OutInv, MarkInv, OptInInv, TypeOK', NEW q \in Request,
           ConfirmWrite(q) \/ StopWrite(q) \/ RearmWrite(q)
    PROVE  OutInv'
<1>0. PICK i \in Id : i = req[q].id
  BY DEF OutInv, TypeOK, Requests
<1>1. /\ row[i] \in RowRecord /\ row[i].box \in Mailbox /\ req[q].seen \in RowRecord
      /\ req[q].box \in Mailbox /\ row[i].confirmed <= clock /\ row[i].confirmed \in Nat /\ clock \in Nat
      /\ said \in [Mailbox -> {"yes", "no"}]
  BY DEF OutInv, TypeOK, RowRecord, Past, Requests
<1>2. CASE ConfirmWrite(q)
  <2> DEFINE new == [row[i] EXCEPT !.status = "confirmed", !.confirmed = clock']
             M == {}
  <2>1. /\ Write(q, new) /\ clock <= clock' /\ clock' \in Nat
        /\ said' = [said EXCEPT ![req[q].box] = "yes"] /\ waived' = waived
    BY <1>0, <1>2, ClockOn DEF ConfirmWrite, Agreed, OutInv
  <2>2. /\ new \in RowRecord /\ new.box = row[i].box /\ new.confirmed = clock'
        /\ new.status # "none" /\ new.reason = row[i].reason /\ new.stopped = row[i].stopped
    BY <1>1, <2>1 DEF RowRecord
  <2>3. /\ M \in SUBSET {row[i].box} /\ M = {}
        /\ \A m \in Mailbox \ M : (said'[m] = "no" /\ m \notin waived') =>
                                   (said[m] = "no" /\ m \notin waived)
    BY <1>1, <2>1
  <2>4. row[i] # req[q].seen \/ i \in crossed \/ said'[row[i].box] = "yes"
    <3> SUFFICES ASSUME row[i] = req[q].seen, i \notin crossed
                 PROVE  said'[row[i].box] = "yes"
      OBVIOUS
    <3>1. req[q].box = row[i].box
      BY <1>0, <1>2 DEF ConfirmWrite, OptInInv, Underway, Holds, Sound
    <3> QED
      BY <1>1, <2>1, <3>1
  <2>5. /\ new.confirmed <= clock'
        /\ M # {} => new.reason \in Permanent /\ new.stopped = clock'
    BY <2>1, <2>2, <2>3
  <2>6. row[i].reason \in Permanent =>
          \/ row[i].box \in M \/ said'[row[i].box] = "yes" \/ row[i].box \in waived'
          \/ new.reason \in Permanent /\ new.stopped = row[i].stopped
    BY <2>2
  <2>7. \/ row[i] # req[q].seen \/ i \in crossed
        \/ said'[row[i].box] = "yes" \/ new.confirmed = row[i].confirmed
    BY <2>4
  <2>8. /\ clock <= clock' /\ Write(q, new) /\ new \in RowRecord /\ new.box = row[i].box
        /\ new.status # "none"
    BY <2>1, <2>2
  <2> HIDE DEF new, M
  <2>9. Honest(q, i, new, M)
    BY <1>0, <2>3, <2>5, <2>6, <2>7, <2>8 DEF Honest
  <2> QED
    BY <2>9, WriteOut
<1>3. CASE StopWrite(q)
  <2> DEFINE new == [row[i] EXCEPT !.status = "stopped", !.stopped = clock',
                                   !.reason = req[q].op]
             M == IF req[q].op = "unsubscribed" THEN {row[i].box} ELSE {}
  <2>1. /\ Write(q, new) /\ clock <= clock' /\ clock' \in Nat
        /\ req[q].op \in {"unsubscribed", "renewed"}
        /\ req[q].op = "unsubscribed" =>
             /\ said' = [said EXCEPT ![req[q].box] = "no"]
             /\ waived' = IF Stray(q) THEN waived \cup {req[q].box}
                                       ELSE waived \ {req[q].box}
        /\ req[q].op = "renewed" => said' = said /\ waived' = OverrideByClick(q)
    BY <1>0, <1>3, ClockOn DEF StopWrite, OutInv
  <2>2. /\ new \in RowRecord /\ new.box = row[i].box /\ new.confirmed = row[i].confirmed
        /\ new.status # "none" /\ new.reason = req[q].op /\ new.stopped = clock'
    BY <1>1, <2>1 DEF RowRecord, Permanent
  <2>0. Stray(q) <=> req[q].box # row[i].box
    BY <1>0 DEF Stray
  <2>3. /\ M \in SUBSET {row[i].box}
        /\ M # {} => req[q].op = "unsubscribed"
        /\ \A m \in Mailbox \ M : (said'[m] = "no" /\ m \notin waived') =>
                                   (said[m] = "no" /\ m \notin waived)
    <3>1. CASE req[q].op = "unsubscribed"
      BY <1>1, <2>0, <2>1, <3>1
    <3>2. CASE req[q].op = "renewed"
      BY <1>0, <1>1, <2>1, <3>2 DEF OverrideByClick, Override
    <3> QED
      BY <2>1, <3>1, <3>2
  <2>4. row[i].reason \in Permanent => row[i].box \in M \/ row[i].box \in waived'
    <3>1. CASE req[q].op = "unsubscribed"
      BY <3>1
    <3>2. CASE req[q].op = "renewed" /\ i \in crossed'
      BY <1>0, <2>1, <3>2 DEF OverrideByClick, Override
    <3>3. CASE req[q].op = "renewed" /\ i \notin crossed'
      <4>1. i \notin crossed /\ row[i] = req[q].seen
        BY <1>0, <2>1, <3>3 DEF Write
      <4>2. req[q].seen.status # "stopped"
        BY <1>3, <3>3 DEF StopWrite, MarkInv, Fresh
      <4> QED
        BY <4>1, <4>2 DEF MarkInv, Unmarked
    <3> QED
      BY <2>1, <3>1, <3>2, <3>3
  <2>5. /\ new.confirmed <= clock'
        /\ M # {} => new.reason \in Permanent /\ new.stopped = clock'
    BY <1>1, <2>1, <2>2, <2>3 DEF Permanent
  <2>6. row[i].reason \in Permanent =>
          \/ row[i].box \in M \/ said'[row[i].box] = "yes" \/ row[i].box \in waived'
          \/ new.reason \in Permanent /\ new.stopped = row[i].stopped
    BY <2>4
  <2>7. \/ row[i] # req[q].seen \/ i \in crossed
        \/ said'[row[i].box] = "yes" \/ new.confirmed = row[i].confirmed
    BY <2>2
  <2>8. /\ clock <= clock' /\ Write(q, new) /\ new \in RowRecord /\ new.box = row[i].box
        /\ new.status # "none"
    BY <2>1, <2>2
  <2> HIDE DEF new, M
  <2>9. Honest(q, i, new, M)
    BY <1>0, <2>3, <2>5, <2>6, <2>7, <2>8 DEF Honest
  <2> QED
    BY <2>9, WriteOut
<1>4. CASE RearmWrite(q)
  <2> DEFINE new == [row[i] EXCEPT !.status = "confirmed", !.stopped = 0,
                                   !.reason = "none", !.link = minted']
             M == {}
  <2>1. /\ Write(q, new) /\ clock' = clock
        /\ minted' \in Nat
        /\ \/ said' = said /\ waived' = Override(i)
           \/ /\ said' = [said EXCEPT ![req[q].box] = "yes"]
              /\ waived' = OverrideByClick(q)
    BY <1>0, <1>4, MintTyped DEF RearmWrite, Agreed, OutInv
  <2>2. /\ new \in RowRecord /\ new.box = row[i].box /\ new.confirmed = row[i].confirmed
        /\ new.status # "none"
    BY <1>1, <2>1 DEF RowRecord
  <2>3. /\ M \in SUBSET {row[i].box} /\ M = {}
        /\ \A m \in Mailbox \ M : (said'[m] = "no" /\ m \notin waived') =>
                                   (said[m] = "no" /\ m \notin waived)
    BY <1>0, <1>1, <2>1 DEF OverrideByClick, Override
  <2>4. row[i].reason \in Permanent => said'[row[i].box] = "yes" \/ row[i].box \in waived'
    <3>1. Stray(q) <=> req[q].box # row[i].box
      BY <1>0 DEF Stray
    <3> QED
      BY <1>0, <1>1, <2>1, <3>1 DEF OverrideByClick, Override
  <2>5. /\ new.confirmed <= clock'
        /\ M # {} => new.reason \in Permanent /\ new.stopped = clock'
    BY <1>1, <2>1, <2>2, <2>3
  <2>6. row[i].reason \in Permanent =>
          \/ row[i].box \in M \/ said'[row[i].box] = "yes" \/ row[i].box \in waived'
          \/ new.reason \in Permanent /\ new.stopped = row[i].stopped
    BY <2>4
  <2>7. \/ row[i] # req[q].seen \/ i \in crossed
        \/ said'[row[i].box] = "yes" \/ new.confirmed = row[i].confirmed
    BY <2>2
  <2>8. /\ clock <= clock' /\ Write(q, new) /\ new \in RowRecord /\ new.box = row[i].box
        /\ new.status # "none"
    BY <1>1, <2>1, <2>2
  <2> HIDE DEF new, M
  <2>9. Honest(q, i, new, M)
    BY <1>0, <2>3, <2>5, <2>6, <2>7, <2>8 DEF Honest
  <2> QED
    BY <2>9, WriteOut
<1> QED
  BY <1>2, <1>3, <1>4

LEMMA EditWriteOut ==
    ASSUME OutInv, TypeOK', NEW q \in Request, EditWrite(q)
    PROVE  OutInv'
<1>0. PICK i \in Id : i = req[q].id
  BY DEF OutInv, TypeOK, Requests
<1>1. /\ \A j \in Id : row[j] \in RowRecord
      /\ row[i].box \in Mailbox /\ req[q].seen \in RowRecord /\ clock \in Nat
      /\ Past(req[q].seen) /\ Past(req[q].first)
  BY DEF OutInv, TypeOK, RowRecord, Requests
<1>2. PICK r \in RowRecord :
        /\ row' = [row EXCEPT ![i] = r]
        /\ r.box = req[q].box /\ r.reason \in {"none", req[q].seen.reason}
        /\ req[q].box # req[q].first.box => r.status = "pending" /\ r.confirmed = 0
        /\ req[q].box = req[q].first.box =>
             /\ r.status = req[q].seen.status /\ r.confirmed = req[q].seen.confirmed
             /\ r.reason = req[q].seen.reason
  BY <1>0, EditWriteRow DEF OutInv
<1>3. /\ clock' = clock /\ said' = said /\ waived' = Override(i)
      /\ crossed \subseteq crossed'
      /\ \A j \in Id \ {i} : j \notin crossed' <=> j \notin crossed
      /\ i \notin crossed' => i \notin crossed /\ row[i] = req[q].seen /\ row[i] = req[q].first
      /\ req'[q] = Idle /\ \A p \in Request \ {q} : req'[p] = req[p]
  BY <1>0 DEF EditWrite, End, OutInv, TypeOK
<1>4. row'[i] = r /\ \A j \in Id \ {i} : row'[j] = row[j]
  BY <1>2 DEF OutInv, TypeOK
<1> DEFINE M == {}
<1>5. \A j \in Id : row'[j].confirmed <= clock' /\ (row'[j].status = "none" => row'[j].reason = "none")
  <2> SUFFICES ASSUME NEW j \in Id
               PROVE  row'[j].confirmed <= clock' /\ (row'[j].status = "none" => row'[j].reason = "none")
    OBVIOUS
  <2>1. CASE j = i /\ req[q].box = req[q].first.box
    BY <1>1, <1>2, <1>3, <1>4, <2>1 DEF Past
  <2>2. CASE j = i /\ req[q].box # req[q].first.box
    BY <1>1, <1>2, <1>3, <1>4, <2>2
  <2>3. CASE j # i
    BY <1>3, <1>4, <2>3 DEF OutInv, Past
  <2> QED
    BY <2>1, <2>2, <2>3
<1>6. \A p \in Request : req'[p] = req[p] \/ (Past(req'[p].seen) /\ Past(req'[p].first))
  BY <1>3, UnusedPast DEF Idle, OutInv
<1>7. /\ M \in SUBSET Mailbox
      /\ \A m \in M : \E j \in Id : /\ row'[j].box = m /\ row'[j].reason \in Permanent
                                   /\ row'[j].stopped = clock'
      /\ \A m \in Mailbox \ M : (said'[m] = "no" /\ m \notin waived') =>
                                 (said[m] = "no" /\ m \notin waived)
  BY <1>3 DEF Override
<1>8. \A j \in Id : row[j].reason \in Permanent =>
         \/ row[j].box \in M \/ said'[row[j].box] = "yes" \/ row[j].box \in waived'
         \/ /\ row'[j].box = row[j].box /\ row'[j].reason \in Permanent
            /\ row'[j].stopped = row[j].stopped
  BY <1>3, <1>4 DEF Override
<1>9. \A j \in Id :
         \/ j \in crossed' \/ row'[j].confirmed = 0
         \/ row'[j].box \in M \/ said'[row'[j].box] = "yes" \/ row'[j].box \in waived'
         \/ j \notin crossed /\ row'[j].box = row[j].box /\ row'[j].confirmed = row[j].confirmed
  BY <1>2, <1>3, <1>4
<1>10. clock <= clock'
  BY <1>1, <1>3
<1> HIDE DEF M
<1> QED
  BY <1>5, <1>6, <1>7, <1>8, <1>9, <1>10, SilentStep

LEMMA InsertOut ==
    ASSUME OutInv, TypeOK', NEW q \in Request, NEW i \in Id, NEW own \in OwnDate,
           Insert(q, i, own)
    PROVE  OutInv'
<1>1. /\ row[i].status = "none" /\ clock <= clock' /\ clock \in Nat /\ clock' \in Nat
      /\ said' = said /\ crossed' = crossed
      /\ req'[q] = Idle /\ \A p \in Request \ {q} : req'[p] = req[p]
      /\ waived \subseteq waived'
      /\ req[q].op = "add" =>
           said'[req[q].box] = "yes" \/ req[q].box \in waived'
  <2>1. req[q].box \in Mailbox /\ said[req[q].box] \in {"yes", "no"}
    BY DEF OutInv, TypeOK, Requests
  <2> QED
    BY <2>1, ClockOn DEF Insert, End, OutInv, TypeOK
<1>2. /\ row'[i].box = req[q].box /\ row'[i].status # "none" /\ row'[i].confirmed <= clock'
      /\ req[q].op # "add" => row'[i].confirmed = 0
      /\ \A j \in Id \ {i} : row'[j] = row[j]
  <2> DEFINE r == [Unused EXCEPT !.box = req[q].box, !.state = req[q].state,
                     !.firm = (req[q].op = "add"), !.own = own,
                     !.status = IF req[q].op = "add" THEN "confirmed" ELSE "pending",
                     !.confirmed = IF req[q].op = "add" THEN clock' ELSE 0,
                     !.ask = minted', !.link = minted']
  <2>1. row' = [row EXCEPT ![i] = r]
    BY Zenon DEF Insert
  <2>2. /\ r.box = req[q].box /\ r.status # "none" /\ r.confirmed <= clock'
        /\ req[q].op # "add" => r.confirmed = 0
    BY <1>1, UnusedTyped DEF RowRecord
  <2> HIDE DEF r
  <2> QED
    BY <2>1, <2>2 DEF OutInv, TypeOK
<1> DEFINE M == {}
<1>3. \A j \in Id : row'[j].confirmed <= clock' /\ (row'[j].status = "none" => row'[j].reason = "none")
  <2> SUFFICES ASSUME NEW j \in Id, j # i
               PROVE  row[j].confirmed <= clock' /\ (row[j].status = "none" => row[j].reason = "none")
    BY <1>2
  <2>1. row[j].confirmed \in Nat /\ row[j].confirmed <= clock
        /\ (row[j].status = "none" => row[j].reason = "none")
    BY DEF OutInv, TypeOK, RowRecord, Past
  <2> QED
    BY <1>1, <2>1
<1>4. \A p \in Request : req'[p] = req[p] \/ (Past(req'[p].seen) /\ Past(req'[p].first))
  BY <1>1, UnusedPast DEF Idle, OutInv
<1>5. /\ M \in SUBSET Mailbox
      /\ \A m \in M : \E j \in Id : /\ row'[j].box = m /\ row'[j].reason \in Permanent
                                   /\ row'[j].stopped = clock'
      /\ \A m \in Mailbox \ M : (said'[m] = "no" /\ m \notin waived') =>
                                 (said[m] = "no" /\ m \notin waived)
  BY <1>1
<1>6. \A j \in Id : row[j].reason \in Permanent =>
         \/ row[j].box \in M \/ said'[row[j].box] = "yes" \/ row[j].box \in waived'
         \/ /\ row'[j].box = row[j].box /\ row'[j].reason \in Permanent
            /\ row'[j].stopped = row[j].stopped
  <2>1. row[i].reason = "none"
    BY <1>1 DEF OutInv, Past
  <2> QED
    BY <1>2, <2>1 DEF Permanent
<1>7. \A j \in Id :
         \/ j \in crossed' \/ row'[j].confirmed = 0
         \/ row'[j].box \in M \/ said'[row'[j].box] = "yes" \/ row'[j].box \in waived'
         \/ j \notin crossed /\ row'[j].box = row[j].box /\ row'[j].confirmed = row[j].confirmed
  BY <1>1, <1>2
<1> HIDE DEF M
<1> QED
  BY <1>1, <1>3, <1>4, <1>5, <1>6, <1>7, SilentStep

LEMMA RemoveOut ==
    ASSUME OutInv, TypeOK', NEW q \in Request, NEW i \in Id, Remove(q, i)
    PROVE  OutInv'
<1>1. /\ clock <= clock' /\ clock \in Nat /\ clock' \in Nat
      /\ said' = said /\ crossed' = crossed /\ req' = req /\ waived' = Override(i)
      /\ \A j \in Id : row[j] \in RowRecord
  BY ClockOn DEF Remove, OutInv, TypeOK
<1>2. /\ row'[i].box = row[i].box /\ row'[i].status = "stopped"
      /\ row'[i].confirmed = row[i].confirmed
      /\ \A j \in Id \ {i} : row'[j] = row[j]
  <2> DEFINE r == [row[i] EXCEPT !.status = "stopped", !.reason = "removed",
                                 !.stopped = clock']
  <2>1. row' = [row EXCEPT ![i] = r]
    BY DEF Remove
  <2>2. r.box = row[i].box /\ r.status = "stopped" /\ r.confirmed = row[i].confirmed
    BY <1>1 DEF RowRecord
  <2> HIDE DEF r
  <2> QED
    BY <2>1, <2>2 DEF OutInv, TypeOK
<1> DEFINE M == {}
<1>3. \A j \in Id : row'[j].confirmed <= clock' /\ (row'[j].status = "none" => row'[j].reason = "none")
  <2> SUFFICES ASSUME NEW j \in Id
               PROVE  row'[j].confirmed <= clock' /\ (row'[j].status = "none" => row'[j].reason = "none")
    OBVIOUS
  <2>1. row[j].confirmed \in Nat /\ row[j].confirmed <= clock
        /\ (row[j].status = "none" => row[j].reason = "none")
    BY DEF OutInv, TypeOK, RowRecord, Past
  <2>2. row'[j].confirmed <= clock'
    BY <1>1, <1>2, <2>1
  <2> QED
    BY <1>2, <2>1, <2>2
<1>4. /\ M \in SUBSET Mailbox
      /\ \A m \in M : \E j \in Id : /\ row'[j].box = m /\ row'[j].reason \in Permanent
                                   /\ row'[j].stopped = clock'
      /\ \A m \in Mailbox \ M : (said'[m] = "no" /\ m \notin waived') =>
                                 (said[m] = "no" /\ m \notin waived)
  BY <1>1 DEF Override
<1>5. \A j \in Id : row[j].reason \in Permanent =>
         \/ row[j].box \in M \/ said'[row[j].box] = "yes" \/ row[j].box \in waived'
         \/ /\ row'[j].box = row[j].box /\ row'[j].reason \in Permanent
            /\ row'[j].stopped = row[j].stopped
  BY <1>1, <1>2 DEF Override
<1>6. \A j \in Id :
         \/ j \in crossed' \/ row'[j].confirmed = 0
         \/ row'[j].box \in M \/ said'[row'[j].box] = "yes" \/ row'[j].box \in waived'
         \/ j \notin crossed /\ row'[j].box = row[j].box /\ row'[j].confirmed = row[j].confirmed
  BY <1>1, <1>2
<1>7. \A p \in Request : req'[p] = req[p] \/ (Past(req'[p].seen) /\ Past(req'[p].first))
  BY <1>1
<1> HIDE DEF M
<1> QED
  BY <1>1, <1>3, <1>4, <1>5, <1>6, <1>7, SilentStep

LEMMA BounceOut ==
    ASSUME OutInv, TypeOK', NEW m \in Mailbox, Bounce(m)
    PROVE  OutInv'
<1>1. /\ clock <= clock' /\ clock \in Nat /\ clock' \in Nat
      /\ said' = [said EXCEPT ![m] = "no"] /\ waived' = waived \ {m}
      /\ crossed' = crossed /\ req' = req
      /\ \A j \in Id : row[j] \in RowRecord
  BY ClockOn DEF Bounce, OutInv, TypeOK
<1>2. ASSUME NEW j \in Id
      PROVE  \/ row'[j] = row[j] /\ ~(row[j].box = m /\ row[j].status \in {"pending", "confirmed"})
             \/ /\ row[j].box = m /\ row'[j].box = m /\ row'[j].status = "stopped"
                /\ row'[j].confirmed = row[j].confirmed
                /\ row'[j].reason \in Permanent /\ row'[j].stopped = clock'
  <2> DEFINE r == [row[j] EXCEPT !.status = "stopped", !.reason = "bounced",
                                 !.stopped = clock']
  <2>1. /\ r.box = row[j].box /\ r.status = "stopped" /\ r.confirmed = row[j].confirmed
        /\ r.reason \in Permanent /\ r.stopped = clock'
    BY <1>1 DEF RowRecord, Permanent
  <2>2. row'[j] = IF row[j].box = m /\ row[j].status \in {"pending", "confirmed"}
                    THEN r ELSE row[j]
    BY DEF Bounce
  <2> HIDE DEF r
  <2> QED
    BY <2>1, <2>2
<1> DEFINE M == {m}
<1>3. \A j \in Id : row'[j].confirmed <= clock' /\ (row'[j].status = "none" => row'[j].reason = "none")
  <2> SUFFICES ASSUME NEW j \in Id
               PROVE  row'[j].confirmed <= clock' /\ (row'[j].status = "none" => row'[j].reason = "none")
    OBVIOUS
  <2>1. row[j].confirmed \in Nat /\ row[j].confirmed <= clock
        /\ (row[j].status = "none" => row[j].reason = "none")
    BY DEF OutInv, TypeOK, RowRecord, Past
  <2>2. row'[j].confirmed = row[j].confirmed
    BY <1>2
  <2>3. row'[j].confirmed <= clock'
    BY <1>1, <2>1, <2>2
  <2> QED
    BY <1>2, <2>1, <2>3
<1>4. \A k \in M : \E j \in Id : /\ row'[j].box = k /\ row'[j].reason \in Permanent
                                 /\ row'[j].stopped = clock'
  <2>1. PICK j \in Id : row[j].box = m /\ row[j].status \in {"pending", "confirmed"}
    BY DEF Bounce
  <2> QED
    BY <1>2, <2>1
<1>5. \A k \in Mailbox \ M : (said'[k] = "no" /\ k \notin waived') =>
                             (said[k] = "no" /\ k \notin waived)
  BY <1>1 DEF OutInv, TypeOK
<1>6. \A j \in Id : row[j].reason \in Permanent =>
         \/ row[j].box \in M \/ said'[row[j].box] = "yes" \/ row[j].box \in waived'
         \/ /\ row'[j].box = row[j].box /\ row'[j].reason \in Permanent
            /\ row'[j].stopped = row[j].stopped
  BY <1>2
<1>7. \A j \in Id :
         \/ j \in crossed' \/ row'[j].confirmed = 0
         \/ row'[j].box \in M \/ said'[row'[j].box] = "yes" \/ row'[j].box \in waived'
         \/ j \notin crossed /\ row'[j].box = row[j].box /\ row'[j].confirmed = row[j].confirmed
  BY <1>1, <1>2
<1>8. \A p \in Request : req'[p] = req[p] \/ (Past(req'[p].seen) /\ Past(req'[p].first))
  BY <1>1
<1>9. M \in SUBSET Mailbox
  OBVIOUS
<1> HIDE DEF M
<1> QED
  BY <1>1, <1>3, <1>4, <1>5, <1>6, <1>7, <1>8, <1>9, SilentStep

\* Whoever is told they are unsubscribed is not mailed until they or the firm
\* override it, a link older than a re-addressing is used, or two requests
\* cross on one of their rows (OptOutSticks).
THEOREM OptOutHolds == Spec => []OptOutSticks
<1>1. Init => OutInv
  <2> SUFFICES ASSUME Init PROVE OutInv
    OBVIOUS
  <2>1. /\ TypeOK /\ Past(Unused)
        /\ \A i \in Id : row[i] = Unused
        /\ \A q \in Request : req[q].seen = Unused /\ req[q].first = Unused
        /\ \A m \in Mailbox : said[m] = "yes"
    BY InitTyped, UnusedPast DEF Init, Idle
  <2> QED
    BY <2>1 DEF OutInv
<1>2. OutInv /\ MarkInv /\ OptInInv /\ [Next]_vars => OutInv'
  <2> SUFFICES ASSUME OutInv, MarkInv, OptInInv, [Next]_vars PROVE OutInv'
    OBVIOUS
  <2>1. TypeOK'
    BY StepTyped DEF OutInv
  <2>2. ASSUME NEW i \in Id, Remind(i)
        PROVE  OutInv'
    BY <2>1, <2>2, ReadsOut DEF Remind, table, history
  <2>3. CASE UNCHANGED vars
    BY <2>1, <2>3, ReadsOut DEF vars, history
  <2> QED
    BY <2>1, <2>2, <2>3, NextCases, InsertOut, DashboardOut, LinkOut, FinishOut, EditWriteOut,
       RemoveOut, BounceOut DEF Finish
<1>3. OutInv => OptOutSticks
  <2> SUFFICES ASSUME OutInv, NEW m \in Mailbox, said[m] = "no", m \notin waived,
                      ~ \E i \in crossed : row[i].box = m
               PROVE  ~Mailable(m)
    BY DEF OptOutSticks
  <2>1. Silenced(m)
    BY DEF OutInv
  <2>2. Suppressed(m)
    BY <2>1 DEF Silenced, Suppressed
  <2> QED
    BY <2>2 DEF Mailable
<1> QED
  BY <1>1, <1>2, <1>3, MarkHolds, InitOptIn, StepOptIn, PTL DEF Spec
=============================================================================
