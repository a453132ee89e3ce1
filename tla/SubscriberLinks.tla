--------------------------- MODULE SubscriberLinks ---------------------------
(***************************************************************************)
(* The life of a subscriber row in worker/src/store.ts: signup and double  *)
(* opt-in, the links in the emails (confirm, unsubscribe, "I've renewed",  *)
(* "remind me next cycle", re-arm), and what a firm's dashboard does to    *)
(* the same rows (add, edit, remove, mark renewed).                        *)
(*                                                                         *)
(* Each of them reads a row, checks it, and later writes it by id without  *)
(* checking again.  The read and the write are separate steps here, so     *)
(* that any other request may come between them.                           *)
(*                                                                         *)
(* NULL is 0 for the two time stamps.  A token is a number that is never   *)
(* handed out twice; unsubscribe_token and renewed_token are always made   *)
(* together and looked up together, so one number, `link', is both.        *)
(***************************************************************************)
EXTENDS Integers, FiniteSets

CONSTANTS
    Mailbox,
    State,        \* licensing states
    Request,      \* HTTP requests that may be under way at the same time
    Op,           \* the kinds of request that arrive
    OwnDate,      \* may a row have a "bring your own date" deadline? {FALSE} or BOOLEAN
    MaxRow,       \* bound: rows ever created
    MaxToken,     \* bound: tokens ever made
    LastTick      \* bound: clock readings explored

Kinds == {"signup", "add", "confirm", "unsubscribed", "renewed", "nextcycle",
          "rearm", "renew", "edit", "remove", "bounce"}

ASSUME BoundAssumption ==
    /\ MaxRow \in Nat \ {0} /\ MaxToken \in Nat /\ LastTick \in Nat \ {0}
    /\ Op \subseteq Kinds /\ OwnDate \subseteq BOOLEAN
    /\ Mailbox # {} /\ State # {}

Id == 1..MaxRow

VARIABLES
    row,        \* the subscribers table
    req,        \* the local state of each request
    mail,       \* the emails that have reached a mailbox
    minted,     \* the number of tokens made so far
    clock,      \* what nowIso() reads
    consented,  \* history: <<row, mailbox>> that confirmed, or that a firm added
    said,       \* history: what the owner of a mailbox was last told by a page
    waived,     \* history: mailboxes whose opt-out something else has overridden
    crossed     \* history: rows written by a request that had read them before
                \* another request changed them

table == <<row, minted, clock>>
history == <<consented, said, waived, crossed>>
vars == <<row, req, mail, minted, clock, history>>

-----------------------------------------------------------------------------
Permanent == {"unsubscribed", "bounced"}

RowRecord ==
    [box : Mailbox, state : State, firm : BOOLEAN, own : BOOLEAN,
     status : {"none", "pending", "confirmed", "stopped"},
     reason : {"none", "removed", "renewed"} \cup Permanent,
     confirmed : Nat, stopped : Nat, ask : Nat, link : Nat]

Email == [box : Mailbox, id : Id, ask : Nat, link : Nat]

Unused == [box |-> CHOOSE m \in Mailbox : TRUE, state |-> CHOOSE s \in State : TRUE,
           firm |-> FALSE, own |-> FALSE, status |-> "none", reason |-> "none",
           confirmed |-> 0, stopped |-> 0, ask |-> 0, link |-> 0]

Idle == [pc |-> "idle", op |-> "signup", id |-> 1, seen |-> Unused,
         first |-> Unused, box |-> Unused.box, state |-> Unused.state]

Init ==
    /\ row = [i \in Id |-> Unused]
    /\ req = [q \in Request |-> Idle]
    /\ mail = {}
    /\ minted = 0
    /\ clock = 1
    /\ consented = {}
    /\ said = [m \in Mailbox |-> "yes"]
    /\ waived = {}
    /\ crossed = {}

(* findActiveOrPending                                                      *)
Live(m, s) == {i \in Id : /\ row[i].box = m /\ row[i].state = s
                          /\ row[i].status \in {"pending", "confirmed"}}

(* isPermanentlySuppressed: by mailbox, over all its rows, until one of     *)
(* them is confirmed later than the last opt-out.                           *)
OptOuts(m) == {i \in Id : row[i].box = m /\ row[i].reason \in Permanent}

(* A slip: a row confirmed within the same second lifts the suppression.    *)
SuppressedStrictly(m) ==
    /\ OptOuts(m) # {}
    /\ \A i \in Id : row[i].box = m =>
         \E j \in OptOuts(m) : row[i].confirmed < row[j].stopped

Suppressed(m) ==
    /\ OptOuts(m) # {}
    /\ \A i \in Id : row[i].box = m =>
         \E j \in OptOuts(m) : row[i].confirmed <= row[j].stopped

-----------------------------------------------------------------------------
Begin(q, local) == req[q].pc = "idle" /\ req' = [req EXCEPT ![q] = local]
End(q) == req' = [req EXCEPT ![q] = Idle]

Now == clock' \in {clock, clock + 1} /\ clock' <= LastTick
Mint == minted' = minted + 1 /\ minted' <= MaxToken

(* A write by id, of whatever has become of the row since it was read.      *)
Write(q, new) ==
    LET i == req[q].id
    IN  /\ row' = [row EXCEPT ![i] = new]
        /\ crossed' = IF row[i] = req[q].seen THEN crossed ELSE crossed \cup {i}
        /\ End(q)

(* A page has told whoever clicked the link that reminders will come.       *)
Agreed(q) == said' = [said EXCEPT ![req[q].box] = "yes"]

(* The link was mailed before the firm re-addressed the row: whoever        *)
(* clicked it is not whom the row mails.                                    *)
Stray(q) == req[q].box # row[req[q].id].box

(* The opt-out of row i's mailbox no longer counts, though its owner did    *)
(* not ask for that: what a click does only if requests have crossed, or if *)
(* it is somebody else's.                                                   *)
Override(i) == IF row[i].reason \in Permanent THEN waived \cup {row[i].box} ELSE waived
OverrideByClick(q) ==
    IF req[q].id \in crossed' \/ Stray(q) THEN Override(req[q].id) ELSE waived

-----------------------------------------------------------------------------
(* handleSubscribe and handleFirmLicenseCreate: look for a live row ...     *)
(* (The signup cooldown may refuse as well; that changes nothing.)          *)
Look(q, op, m, s) ==
    /\ op \in Op \cap {"signup", "add"}
    /\ Live(m, s) = {}
    /\ Begin(q, [Idle EXCEPT !.pc = "insert", !.op = op, !.box = m, !.state = s])
    /\ UNCHANGED <<table, mail, history>>

(* ... then insert one and send its first email, if the budget allows: the  *)
(* confirmation, or to a firm's staff the notice that they were added.      *)
Insert(q, i, own) ==
    LET m == req[q].box
        firm == req[q].op = "add"
    IN  /\ req[q].pc = "insert"
        /\ row[i].status = "none"
        /\ \A j \in 1..(i - 1) : row[j].status # "none"
        /\ Now /\ Mint
        /\ row' = [row EXCEPT ![i] =
               [Unused EXCEPT !.box = m, !.state = req[q].state, !.firm = firm,
                  !.own = own, !.status = IF firm THEN "confirmed" ELSE "pending",
                  !.confirmed = IF firm THEN clock' ELSE 0,
                  !.ask = minted', !.link = minted']]
        /\ mail' \in {mail, mail \cup {[box |-> m, id |-> i, link |-> minted',
                                        ask |-> IF firm THEN 0 ELSE minted']}}
        /\ consented' = IF firm THEN consented \cup {<<i, m>>} ELSE consented
        /\ waived' = IF firm /\ said[m] = "no" THEN waived \cup {m} ELSE waived
        /\ End(q)
        /\ UNCHANGED <<said, crossed>>

-----------------------------------------------------------------------------
(* The links.  A click presents the token of an email in a mailbox; the     *)
(* row is found by it only while it is the row's current one.  A confirm    *)
(* token is replaced when the firm re-addresses the row; the other links    *)
(* of the row are not, and go on working in the mailbox they were sent to.  *)
Click(q, op, e) ==
    /\ op \in Op
    /\ Begin(q, [Idle EXCEPT !.pc = "write", !.op = op, !.id = e.id,
                             !.seen = row[e.id], !.box = e.box])

(* confirmIfPending                                                         *)
ConfirmRead(q, e) ==
    /\ e.ask # 0 /\ row[e.id].ask = e.ask /\ row[e.id].status = "pending"
    /\ Click(q, "confirm", e)
    /\ consented' = consented \cup {<<e.id, e.box>>}
    /\ UNCHANGED <<table, mail, said, waived, crossed>>

ConfirmWrite(q) ==
    /\ req[q].pc = "write" /\ req[q].op = "confirm"
    /\ Now
    /\ Write(q, [row[req[q].id] EXCEPT !.status = "confirmed", !.confirmed = clock'])
    /\ Agreed(q)
    /\ UNCHANGED <<mail, minted, consented, waived>>

(* Slips a change to the code might make are set before what they replace:  *)
(* stop does not look whether the row is stopped already.                   *)
StoppableAgain(r, reason) == reason = "renewed" => r.confirmed # 0

(* stop, for both reasons: "renewed" only for a row once confirmed.         *)
Stoppable(r, reason) ==
    /\ r.status # "stopped"
    /\ reason = "renewed" => r.confirmed # 0

StopRead(q, e, reason) ==
    /\ row[e.id].link = e.link
    /\ Stoppable(row[e.id], reason)
    /\ Click(q, reason, e)
    /\ UNCHANGED <<table, mail, history>>

StopWrite(q) ==
    LET i == req[q].id
    IN  /\ req[q].pc = "write" /\ req[q].op \in {"unsubscribed", "renewed"}
        /\ Now
        /\ Write(q, [row[i] EXCEPT !.status = "stopped", !.stopped = clock',
                                   !.reason = req[q].op])
        /\ said' = IF req[q].op = "unsubscribed"
                     THEN [said EXCEPT ![req[q].box] = "no"] ELSE said
        /\ waived' = IF req[q].op = "renewed" THEN OverrideByClick(q)
                     ELSE IF Stray(q) THEN waived \cup {req[q].box}
                     ELSE waived \ {req[q].box}
        /\ UNCHANGED <<mail, minted, consented>>

(* An unsubscribe link of a row that is stopped already changes nothing,    *)
(* and is answered with the same page.                                      *)
StopAgain(q, e) ==
    /\ "unsubscribed" \in Op /\ req[q].pc = "idle"
    /\ row[e.id].link = e.link /\ row[e.id].status = "stopped"
    /\ said' = [said EXCEPT ![e.box] = "no"]
    /\ waived' = waived \cup {e.box}
    /\ UNCHANGED <<table, req, mail, consented, crossed>>

(* Slips: one of the three refusals is missing.                             *)
RenewableUnconfirmed(r) == r.status # "none" /\ r.reason # "removed" /\ ~r.own
RenewableRemoved(r) == r.confirmed # 0 /\ ~r.own

(* renewAndRearmByToken and renewAndRearm refuse a row that was never       *)
(* confirmed, that the admin removed, or with a date of its own.            *)
Renewable(r) == r.confirmed # 0 /\ r.reason # "removed" /\ ~r.own

NextCycleRead(q, e) ==
    /\ row[e.id].link = e.link
    /\ Renewable(row[e.id])
    /\ Click(q, "nextcycle", e)
    /\ UNCHANGED <<table, mail, history>>

(* rearm: only a row stopped as renewed.                                    *)
Rearmable(r) ==
    r.status = "stopped" /\ r.reason = "renewed" /\ r.confirmed # 0 /\ ~r.own

RearmRead(q, e) ==
    /\ row[e.id].link = e.link
    /\ Rearmable(row[e.id])
    /\ Click(q, "rearm", e)
    /\ UNCHANGED <<table, mail, history>>

(* "Mark renewed" on the dashboard.                                         *)
RenewRead(q, i) ==
    /\ "renew" \in Op
    /\ row[i].firm /\ Renewable(row[i])
    /\ Begin(q, [Idle EXCEPT !.pc = "write", !.op = "renew", !.id = i,
                             !.seen = row[i]])
    /\ UNCHANGED <<table, mail, history>>

(* applyRenewAndRearm, and the same UPDATE in rearm: active again, whatever *)
(* it was stopped for, with new tokens.                                     *)
RearmWrite(q) ==
    LET i == req[q].id
    IN  /\ req[q].pc = "write" /\ req[q].op \in {"nextcycle", "rearm", "renew"}
        /\ Mint
        /\ Write(q, [row[i] EXCEPT !.status = "confirmed", !.stopped = 0,
                                   !.reason = "none", !.link = minted'])
        /\ IF req[q].op = "renew"
             THEN waived' = Override(i) /\ UNCHANGED said
             ELSE waived' = OverrideByClick(q) /\ Agreed(q)
        /\ UNCHANGED <<mail, clock, consented>>

-----------------------------------------------------------------------------
(* handleFirmLicensePatch: the row as first read settles the mailbox it     *)
(* writes and whether that is a change ...                                  *)
EditRead(q, i, m) ==
    /\ "edit" \in Op
    /\ row[i].firm /\ row[i].reason # "removed"
    /\ Begin(q, [Idle EXCEPT !.pc = IF m = row[i].box THEN "select" ELSE "conflict",
                             !.op = "edit", !.id = i, !.first = row[i], !.box = m])
    /\ UNCHANGED <<table, mail, history>>

EditConflict(q) ==
    /\ req[q].pc = "conflict"
    /\ LET same == Live(req[q].box, req[q].first.state)
       IN  \/ (same = {} \/ req[q].id \in same) /\ req' = [req EXCEPT ![q].pc = "select"]
           \/ same \ {req[q].id} # {} /\ End(q)
    /\ UNCHANGED <<table, mail, history>>

(* ... updateFirmLicense selects it again for the lifecycle columns ...     *)
EditSelect(q) ==
    /\ req[q].pc = "select"
    /\ req' = [req EXCEPT ![q].pc = "write", ![q].seen = row[req[q].id]]
    /\ UNCHANGED <<table, mail, history>>

(* ... and writes them all back; a new mailbox has to confirm anew.         *)
EditWrite(q) ==
    LET i == req[q].id
        old == req[q].seen
        reset == req[q].box # req[q].first.box
    IN  /\ req[q].pc = "write" /\ req[q].op = "edit"
        /\ IF reset
             THEN /\ Mint
                  /\ row' = [row EXCEPT ![i] =
                       [@ EXCEPT !.box = req[q].box, !.status = "pending",
                          !.reason = "none", !.stopped = 0, !.confirmed = 0,
                          !.ask = minted']]
                  /\ mail' \in {mail, mail \cup {[box |-> req[q].box, id |-> i,
                                        ask |-> minted', link |-> old.link]}}
             ELSE /\ row' = [row EXCEPT ![i] =
                       [@ EXCEPT !.box = req[q].box, !.status = old.status,
                          !.reason = old.reason, !.stopped = old.stopped,
                          !.confirmed = old.confirmed, !.ask = old.ask]]
                  /\ UNCHANGED <<mail, minted>>
        /\ crossed' = IF row[i] = old /\ row[i] = req[q].first
                        THEN crossed ELSE crossed \cup {i}
        /\ waived' = Override(i)
        /\ End(q)
        /\ UNCHANGED <<clock, consented, said>>

(* removeFirmLicense: one UPDATE, whatever the row was stopped for.         *)
Remove(q, i) ==
    /\ "remove" \in Op /\ req[q].pc = "idle"
    /\ row[i].firm
    /\ Now
    /\ row' = [row EXCEPT ![i].status = "stopped", ![i].reason = "removed",
                          ![i].stopped = clock']
    /\ waived' = Override(i)
    /\ UNCHANGED <<req, mail, minted, consented, said, crossed>>

(* suppressByEmail, on a hard bounce or a complaint.                        *)
Bounce(m) ==
    /\ "bounce" \in Op
    /\ Now
    /\ \E i \in Id : row[i].box = m /\ row[i].status \in {"pending", "confirmed"}
    /\ row' = [i \in Id |->
         IF row[i].box = m /\ row[i].status \in {"pending", "confirmed"}
           THEN [row[i] EXCEPT !.status = "stopped", !.reason = "bounced",
                               !.stopped = clock']
           ELSE row[i]]
    /\ said' = [said EXCEPT ![m] = "no"]
    /\ waived' = waived \ {m}
    /\ UNCHANGED <<req, mail, minted, consented, crossed>>

(* A reminder: the passes mail confirmed rows that are not suppressed.      *)
Remind(i) ==
    /\ row[i].status = "confirmed" /\ ~Suppressed(row[i].box)
    /\ mail' = mail \cup {[box |-> row[i].box, id |-> i, ask |-> 0,
                           link |-> row[i].link]}
    /\ UNCHANGED <<table, req, history>>

ByLink(q, e) ==
    \/ ConfirmRead(q, e) \/ NextCycleRead(q, e) \/ RearmRead(q, e) \/ StopAgain(q, e)
    \/ \E reason \in {"unsubscribed", "renewed"} : StopRead(q, e, reason)

Finish(q) ==
    \/ ConfirmWrite(q) \/ StopWrite(q) \/ RearmWrite(q)
    \/ EditConflict(q) \/ EditSelect(q) \/ EditWrite(q)

Next ==
    \/ \E q \in Request :
         \/ \E op \in {"signup", "add"}, m \in Mailbox, s \in State : Look(q, op, m, s)
         \/ \E i \in Id, own \in OwnDate : Insert(q, i, own)
         \/ \E e \in mail : ByLink(q, e)
         \/ \E i \in Id : RenewRead(q, i) \/ Remove(q, i)
         \/ \E i \in Id, m \in Mailbox : EditRead(q, i, m)
         \/ Finish(q)
    \/ \E m \in Mailbox : Bounce(m)
    \/ \E i \in Id : Remind(i)

Spec == Init /\ [][Next]_vars

-----------------------------------------------------------------------------
(* Properties.                                                              *)

Requests ==
    [pc : {"idle", "insert", "conflict", "select", "write"}, op : Kinds, id : Id,
     seen : RowRecord, first : RowRecord, box : Mailbox, state : State]

TypeOK ==
    /\ row \in [Id -> RowRecord]
    /\ req \in [Request -> Requests]
    /\ mail \subseteq Email
    /\ minted \in Nat /\ clock \in Nat
    /\ consented \subseteq Id \X Mailbox
    /\ said \in [Mailbox -> {"yes", "no"}]
    /\ waived \subseteq Mailbox /\ crossed \subseteq Id

(* Reminders go to a row only after somebody who reads the row's own        *)
(* mailbox clicked the confirmation link of that row, or after a firm added *)
(* that mailbox.  Whatever requests overlap, this holds of every free row;  *)
(* it holds of a firm's row, whose mailbox can be edited, unless a request  *)
(* wrote the row back over somebody else's change.                          *)
DoubleOptIn ==
    \A i \in Id : row[i].status = "confirmed" =>
        \/ <<i, row[i].box>> \in consented
        \/ row[i].firm /\ i \in crossed

Mailable(m) == ~Suppressed(m) /\ \E i \in Id : row[i].box = m /\ row[i].status = "confirmed"

(* Whoever is told by a page that they are unsubscribed, or whose mail      *)
(* bounces, is mailed by no row of their mailbox, those of other states and *)
(* other firms too, until they ask for reminders again -- unless the firm   *)
(* overrode it (by renewing, re-adding, removing or re-addressing), the row *)
(* had been stopped before, a link was used that had been mailed before the *)
(* firm re-addressed its row (to stop the row, so that the clicker's other  *)
(* rows go on; or to rearm it, against its new owner's opt-out), or two     *)
(* requests on one of the mailbox's rows overlapped.                        *)
OptOutSticks ==
    \A m \in Mailbox : said[m] = "no" =>
        \/ ~Mailable(m)
        \/ m \in waived
        \/ \E i \in crossed : row[i].box = m

(* A line the admin has taken off the roster does not come back by anything *)
(* the links or the dashboard can do with it, unless a request had read the *)
(* row before the removal.                                                  *)
RemovedStaysOff ==
    [][\A i \in Id : row[i].reason = "removed" /\ row'[i].status # "stopped" =>
                        i \in crossed']_vars

-----------------------------------------------------------------------------
(* What the pages and comments say, and the code does not do.               *)

(* "You're unsubscribed, instantly and permanently" (index.ts:10559);       *)
(* "never send here again unless a later real confirm proves renewed        *)
(* consent" (store.ts:391-392).                                             *)
OptOutIsPermanent == \A m \in Mailbox : said[m] = "no" => ~Mailable(m)

=============================================================================
