------------------------- MODULE LocalRemindersProofs -------------------------
(***************************************************************************)
(* Proofs about LocalReminders, for any addresses, states, thresholds and  *)
(* caps, and whatever the bounds on rows, requests and days.               *)
(***************************************************************************)
EXTENDS LocalReminders, WellFoundedInduction, TLAPS

-----------------------------------------------------------------------------
(* The tier that is due.                                                   *)

\* Min picks a member.
LEMMA MinIsMember ==
    ASSUME NEW S, S \subseteq Nat, S # {}
    PROVE  Min(S) \in S
<1> DEFINE Less == {ss \in Nat \X Nat : ss[1] < ss[2]}
<1>1. IsWellFoundedOn(Less, Nat)
  BY NatLessThanWellFounded, Zenon DEF OpToRel
<1> HIDE DEF Less
<1>2. PICK m \in S : \A n \in S : ~ (<<n, m>> \in Less)
  BY <1>1, WFMin, Zenon
<1>3. ASSUME NEW n \in S PROVE m <= n
  <2>1. ~ (n < m)
    BY <1>2 DEF Less
  <2> QED
    BY <2>1
<1> QED
  BY <1>3 DEF Min

\* A tier is due only if it is a threshold, and it was not sent before.
LEMMA TierIsNew ==
    ASSUME NEW x \in Signup, NEW d, TierDue(x, d) # 0
    PROVE  TierDue(x, d) \in Thresholds \ x.sent
<1>1. Thresholds \subseteq Nat /\ Thresholds # {}
  BY ConstantAssumption
<1>2. x.sent \subseteq Thresholds
  BY DEF Signup
<1>3. Min(Thresholds) \in Thresholds
  BY <1>1, MinIsMember
<1>4. ASSUME NEW left, NextTier(left, x.sent) # 0
      PROVE  NextTier(left, x.sent) \in Thresholds \ x.sent
  <2> DEFINE due == {t \in Thresholds \ x.sent : left <= t /\ \A m \in x.sent : t < m}
  <2>1. NextTier(left, x.sent) = IF due = {} THEN 0 ELSE Min(due)
    BY DEF NextTier
  <2>2. due \subseteq Thresholds \ x.sent /\ due \subseteq Nat
    BY <1>1
  <2> HIDE DEF due
  <2> QED
    BY <1>4, <2>1, <2>2, MinIsMember
<1> DEFINE left == Deadline(x.slug, d) - d
<1>5. TierDue(x, d) = IF left >= -Grace THEN NextTier(left, x.sent)
                      ELSE IF x.sent = {} /\ left >= -CatchUp THEN Min(Thresholds) ELSE 0
  BY DEF TierDue
<1> HIDE DEF left
<1> QED
  BY <1>3, <1>4, <1>5

\* Deadlines are day numbers.
LEMMA DeadlineTyped ==
    ASSUME NEW s \in Slug, NEW d \in Nat
    PROVE  Deadline(s, d) \in Int
<1>1. FirstDue[s] \in Nat /\ Period[s] \in Nat
  BY ConstantAssumption
<1>2. Period[s] # 0 => (d - FirstDue[s] + Period[s] - 1) \div Period[s] \in Int
  BY <1>1
<1> QED
  BY <1>1, <1>2 DEF Deadline

-----------------------------------------------------------------------------
(* Types.                                                                  *)

LEMMA IdleTyped ==
    /\ NoRow \notin Signup /\ NoRow.status = "none"
    /\ NoRows \in Document /\ Idle \in Activity /\ Idle.pc = "idle" /\ Idle.op = "none"
    /\ Idle.raced = "no" /\ Idle.on = 0 /\ Idle.row = 0 /\ Idle.doc = NoRows
    /\ NoPass \in [on : Nat, snap : Document, todo : SUBSET Row] /\ NoPass.todo = {}
<1>1. NoRow \notin Signup /\ NoRow.status = "none"
  BY DEF NoRow, Signup
<1>2. NoRows \in Document
  BY DEF NoRows, Document
<1>3. NoPass \in [on : Nat, snap : Document, todo : SUBSET Row] /\ NoPass.todo = {}
  BY <1>2 DEF NoPass
<1> QED
  BY <1>1, <1>2, <1>3 DEF Idle, Activity

LEMMA InitTyped == Init => TypeOK
<1> SUFFICES ASSUME Init PROVE TypeOK
  OBVIOUS
<1>1. "server" \in Process /\ "scheduler" \in Process
  BY DEF Process
<1>2. proc["server"] = Idle /\ proc["scheduler"] = Idle /\ proc \in [Process -> Activity]
  BY <1>1, IdleTyped DEF Init
<1>3. ServerStage(proc["server"]) /\ SchedulerStage(proc["scheduler"])
  BY <1>2, IdleTyped DEF ServerStage, SchedulerStage
<1>4. issued \in 0..MaxRows
  BY ConstantAssumption DEF Init
<1> QED
  BY <1>2, <1>3, <1>4, IdleTyped DEF Init, TypeOK

\* What a request makes of a record.
LEMMA ConfirmServed ==
    ASSUME NEW x \in Signup, NEW t \in Nat, NEW y, y = Served("confirm", x, t)
    PROVE  /\ y \in Signup /\ y.email = x.email /\ y.made = x.made /\ y.reason = x.reason
           /\ y.sent = x.sent /\ y.cycle = x.cycle /\ y.stopped = x.stopped
           /\ x.status # "pending" => y = x
           /\ x.status = "pending" => y.status = "confirmed" /\ y.confirmed = t
<1>1. CASE x.status = "pending"
  <2>1. y = [x EXCEPT !.status = "confirmed", !.confirmed = t]
    BY <1>1 DEF Served
  <2> QED
    BY <1>1, <2>1 DEF Signup
<1>2. CASE x.status # "pending"
  BY <1>2 DEF Served, Signup
<1> QED
  BY <1>1, <1>2

LEMMA StopServed ==
    ASSUME NEW x \in Signup, NEW t \in Nat, NEW op \in {"unsubscribe", "renewed"},
           NEW y, y = Served(op, x, t)
    PROVE  /\ y \in Signup /\ y.email = x.email /\ y.made = x.made /\ y.status = "stopped"
           /\ y.sent = x.sent /\ y.cycle = x.cycle /\ y.stopped = t
           /\ y.confirmed = x.confirmed
           /\ op = "unsubscribe" => y.reason = "unsubscribed"
           /\ op = "renewed" => y.reason = "renewed"
<1>1. CASE op = "unsubscribe"
  <2>1. y = [x EXCEPT !.status = "stopped", !.stopped = t, !.reason = "unsubscribed"]
    BY <1>1 DEF Served
  <2> QED
    BY <1>1, <2>1 DEF Signup
<1>2. CASE op = "renewed"
  <2>1. y = [x EXCEPT !.status = "stopped", !.stopped = t, !.reason = "renewed"]
    BY <1>2 DEF Served
  <2> QED
    BY <1>2, <2>1 DEF Signup
<1> QED
  BY <1>1, <1>2

LEMMA RearmServed ==
    ASSUME NEW x \in Signup, NEW t \in Nat, NEW y, y = Served("rearm", x, t)
    PROVE  /\ y \in Signup /\ y.email = x.email /\ y.made = x.made /\ y.status = "confirmed"
           /\ y.sent = {} /\ y.cycle = x.cycle + 1 /\ y.confirmed = x.confirmed
<1> DEFINE c == x.cycle + 1
<1>1. c \in Nat \ {0}
  BY DEF Signup
<1>2. y = [x EXCEPT !.status = "confirmed", !.stopped = 0, !.reason = "none",
                    !.sent = {}, !.cycle = c]
  BY DEF Served
<1> HIDE DEF c
<1>3. y \in Signup /\ y.email = x.email /\ y.made = x.made /\ y.status = "confirmed"
      /\ y.sent = {} /\ y.cycle = c /\ y.confirmed = x.confirmed
  <2>1. y = [status |-> "confirmed", email |-> x.email, slug |-> x.slug, made |-> x.made,
             confirmed |-> x.confirmed, stopped |-> 0, reason |-> "none", sent |-> {},
             cycle |-> c]
    BY <1>2 DEF Signup
  <2> QED
    BY <1>1, <2>1 DEF Signup
<1> QED
  BY <1>3 DEF c

\* Every request leaves a record of the same address and signup, whose cycle is
\* the same with the same marks or a later one without.
LEMMA ServedTyped ==
    ASSUME NEW x \in Signup, NEW t \in Nat,
           NEW op \in {"confirm", "unsubscribe", "renewed", "rearm"}
    PROVE  /\ Served(op, x, t) \in Signup
           /\ Served(op, x, t).email = x.email /\ Served(op, x, t).made = x.made
           /\ \/ Served(op, x, t).sent = x.sent /\ Served(op, x, t).cycle = x.cycle
              \/ Served(op, x, t).cycle = x.cycle + 1
<1>1. CASE op = "confirm"
  BY <1>1, ConfirmServed
<1>2. CASE op = "unsubscribe" \/ op = "renewed"
  <2> DEFINE y == Served(op, x, t)
  <2>1. op \in {"unsubscribe", "renewed"} /\ y = Served(op, x, t)
    BY <1>2
  <2> HIDE DEF y
  <2>2. y \in Signup /\ y.email = x.email /\ y.made = x.made /\ y.sent = x.sent
        /\ y.cycle = x.cycle
    BY <2>1, StopServed
  <2> QED
    BY <2>1, <2>2
<1>3. CASE op = "rearm"
  BY <1>3, RearmServed
<1> QED
  BY <1>1, <1>2, <1>3

\* Only a confirmation sets its time, and only it and a re-arm end confirmed.
LEMMA ConfirmedBy ==
    ASSUME NEW x \in Signup, NEW t \in Nat, NEW op \in {"unsubscribe", "renewed", "rearm"}
    PROVE  /\ Served(op, x, t).confirmed = x.confirmed
           /\ op # "rearm" => Served(op, x, t).status = "stopped"
           /\ op = "unsubscribe" => /\ Served(op, x, t).reason = "unsubscribed"
                                    /\ Served(op, x, t).stopped = t
<1>1. CASE op = "unsubscribe" \/ op = "renewed"
  <2> DEFINE y == Served(op, x, t)
  <2>1. op \in {"unsubscribe", "renewed"} /\ y = Served(op, x, t)
    BY <1>1
  <2> HIDE DEF y
  <2>2. /\ y.confirmed = x.confirmed /\ y.status = "stopped" /\ y.stopped = t
        /\ op = "unsubscribe" => y.reason = "unsubscribed"
    BY <2>1, StopServed
  <2> QED
    BY <2>1, <2>2
<1>2. CASE op = "rearm"
  BY <1>2, RearmServed
<1> QED
  BY <1>1, <1>2

\* One process moves on, the other keeps what it was doing.
LEMMA OneMoves ==
    ASSUME TypeOK, NEW p \in Process, NEW a, proc' = [proc EXCEPT ![p] = a]
    PROVE  /\ proc'[p] = a /\ proc'[Other(p)] = proc[Other(p)]
           /\ a \in Activity => proc' \in [Process -> Activity]
           /\ "server" \in Process /\ "scheduler" \in Process /\ Other(p) \in Process
           /\ p = "server" => Other(p) = "scheduler"
           /\ p = "scheduler" => Other(p) = "server"
BY DEF TypeOK, Process, Other

-----------------------------------------------------------------------------
(* What each action does, field by field.                                  *)

\* Between the read and the end of the write, with nothing written in between.
Saving(p) == At(p, "truncate") \/ At(p, "write")
Sound(p) == Saving(p) /\ proc[p].raced = "no"

\* Two stages of a process that differ at most in raced and miscount.
Alike(a, b) ==
    /\ a.pc = b.pc /\ a.op = b.op /\ a.row = b.row /\ a.tier = b.tier /\ a.who = b.who
    /\ a.where = b.where /\ a.made = b.made /\ a.doc = b.doc /\ a.count = b.count
    /\ a.on = b.on

LEMMA SubscribeDoes ==
    ASSUME TypeOK, NEW e \in Email, NEW s \in Slug, Subscribe(e, s)
    PROVE  /\ LET a == proc'["server"]
              IN  /\ a \in Activity /\ a.pc = "add" /\ a.op = "subscribe" /\ a.who = e
                  /\ a.where = s /\ a.doc = NoRows /\ a.raced = "no" /\ a.on = 0
           /\ proc' \in [Process -> Activity] /\ proc'["scheduler"] = proc["scheduler"]
           /\ UNCHANGED <<day, file, issued, breaker, pass, consent, optedOut, renewed,
                          reminded, asked, posted, spoilt>>
           /\ requests' = requests + 1 /\ issued < MaxRows /\ file.ok
           /\ \E since \in WindowStart : ~Recent(file.rows, e, s, since)
<1> DEFINE a == [Idle EXCEPT !.pc = "add", !.op = "subscribe", !.who = e, !.where = s]
<1>1. /\ a \in Activity /\ a.pc = "add" /\ a.op = "subscribe" /\ a.who = e /\ a.where = s
      /\ a.doc = NoRows /\ a.raced = "no" /\ a.on = 0
  BY IdleTyped DEF Activity, Idle
<1>2. proc' = [proc EXCEPT !["server"] = a]
  BY DEF Subscribe
<1> HIDE DEF a
<1>3. /\ proc' \in [Process -> Activity] /\ proc'["server"] = a
      /\ proc'["scheduler"] = proc["scheduler"]
  BY <1>1, <1>2, OneMoves DEF Process
<1> QED
  BY <1>1, <1>3 DEF Subscribe, mails

LEMMA SubscribeTyped ==
    ASSUME TypeOK, NEW e \in Email, NEW s \in Slug, Subscribe(e, s)
    PROVE  TypeOK'
<1>1. ServerStage(proc["server"])' /\ SchedulerStage(proc["scheduler"])'
  BY SubscribeDoes DEF TypeOK, ServerStage, SchedulerStage
<1> QED
  BY <1>1, SubscribeDoes DEF TypeOK

\* The new row is added to what the file holds, or the request fails.
LEMMA AddPendingDoes ==
    ASSUME TypeOK, AddPending
    PROVE  /\ At("server", "add")
           /\ LET me == proc["server"]
                  a == proc'["server"]
              IN  IF file.ok
                  THEN /\ issued' = issued + 1 /\ issued + 1 \in Row /\ a.pc = "truncate"
                       /\ a.op = "subscribe" /\ a.row = issued + 1 /\ a.who = me.who
                       /\ a.made = day /\ a.on = me.on /\ a.raced = me.raced
                       /\ Pending(me.who, me.where) \in Signup
                       /\ a.doc = [file.rows EXCEPT ![issued + 1] = Pending(me.who, me.where)]
                  ELSE issued' = issued /\ a = Idle
           /\ proc' \in [Process -> Activity] /\ proc'["scheduler"] = proc["scheduler"]
           /\ UNCHANGED <<day, requests, file, breaker, pass, consent, optedOut, renewed,
                          reminded, asked, posted, spoilt>>
<1> DEFINE me == proc["server"]
           x == Pending(me.who, me.where)
           doc == [file.rows EXCEPT ![issued + 1] = x]
           a == [me EXCEPT !.pc = "truncate", !.row = issued + 1, !.made = day, !.doc = doc]
<1>1. /\ me \in Activity /\ me.pc = "add" /\ me.op = "subscribe" /\ me.who \in Email
      /\ me.where \in Slug /\ issued < MaxRows /\ "server" \in Process
  BY DEF AddPending, At, TypeOK, ServerStage, Process
<1>2. issued + 1 \in Row
  BY <1>1, ConstantAssumption DEF TypeOK, Row
<1>3. x \in Signup
  BY <1>1 DEF Pending, Signup, TypeOK
<1>4. doc \in Document
  BY <1>2, <1>3 DEF TypeOK, Document
<1> HIDE DEF x, doc
<1>5. /\ a \in Activity /\ a.pc = "truncate" /\ a.op = me.op /\ a.row = issued + 1
      /\ a.who = me.who /\ a.made = day /\ a.on = me.on /\ a.raced = me.raced /\ a.doc = doc
  BY <1>1, <1>2, <1>4 DEF Activity, TypeOK
<1>6. proc' = [proc EXCEPT !["server"] = IF file.ok THEN a ELSE Idle]
  <2>1. CASE file.ok
    BY <2>1, <1>1 DEF AddPending, TypeOK, x, doc
  <2>2. CASE ~file.ok
    BY <2>2 DEF AddPending
  <2> QED
    BY <2>1, <2>2
<1> HIDE DEF a, me
<1>7. /\ proc'["server"] = (IF file.ok THEN a ELSE Idle)
      /\ proc' \in [Process -> Activity] /\ proc'["scheduler"] = proc["scheduler"]
  <2> DEFINE b == IF file.ok THEN a ELSE Idle
  <2>1. b \in Activity
    BY <1>5, IdleTyped
  <2>2. proc' = [proc EXCEPT !["server"] = b]
    BY <1>6
  <2> HIDE DEF b
  <2>3. proc'["server"] = b /\ proc' \in [Process -> Activity] /\ proc'["scheduler"] = proc["scheduler"]
    BY <1>1, <2>1, <2>2, OneMoves
  <2> QED
    BY <2>3 DEF b
<1> QED
  BY <1>1, <1>2, <1>3, <1>5, <1>7 DEF AddPending, mails, me, x, doc

LEMMA AddPendingTyped ==
    ASSUME TypeOK, AddPending
    PROVE  TypeOK'
<1>1. issued' \in 0..MaxRows
  BY AddPendingDoes DEF TypeOK, Row
<1>2. ServerStage(proc["server"])'
  <2>1. CASE file.ok
    BY <2>1, AddPendingDoes DEF TypeOK, ServerStage, At
  <2>2. CASE ~file.ok
    BY <2>2, AddPendingDoes, IdleTyped DEF ServerStage
  <2> QED
    BY <2>1, <2>2
<1>3. SchedulerStage(proc["scheduler"])'
  BY AddPendingDoes DEF TypeOK, SchedulerStage
<1> QED
  BY <1>1, <1>2, <1>3, AddPendingDoes DEF TypeOK

\* A link changes the copy of one record that exists.
LEMMA FollowDoes ==
    ASSUME TypeOK, NEW op \in {"confirm", "unsubscribe", "renewed", "rearm"}, NEW r \in Row,
           NEW c \in 1..MaxCycle, Follow(op, r, c)
    PROVE  /\ file.ok /\ r <= issued /\ requests' = requests + 1 /\ At("server", "idle")
           /\ file.rows[r] \in Signup /\ Honoured(op, file.rows[r], c)
           /\ LET a == proc'["server"]
              IN  /\ a.pc = "truncate" /\ a.op = op /\ a.row = r /\ a.raced = "no" /\ a.on = 0
                  /\ a.who = file.rows[r].email
                  /\ a.doc = [file.rows EXCEPT ![r] = Served(op, file.rows[r], requests')]
           /\ proc' \in [Process -> Activity] /\ proc'["scheduler"] = proc["scheduler"]
           /\ consent' = IF op = "confirm" THEN consent \cup {r} ELSE consent
           /\ UNCHANGED <<day, file, issued, breaker, pass, optedOut, renewed, reminded, asked,
                          posted, spoilt>>
<1> DEFINE x == file.rows[r]
           doc == [file.rows EXCEPT ![r] = Served(op, x, requests')]
           a == [Idle EXCEPT !.pc = "truncate", !.op = op, !.row = r, !.who = x.email,
                             !.doc = doc]
<1>1. x \in Signup
  BY IdleTyped DEF Follow, Honoured, TypeOK, Document
<1>2. requests' = requests + 1 /\ requests' \in Nat
  BY DEF Follow, TypeOK
<1>3. Served(op, x, requests') \in Signup
  BY <1>1, <1>2, ServedTyped
<1>4. doc \in Document
  BY <1>3 DEF TypeOK, Document
<1>5. x.email \in Email
  BY <1>1 DEF Signup
<1>6. proc' = [proc EXCEPT !["server"] = a]
  BY DEF Follow
<1> HIDE DEF x, doc
<1>7. /\ a \in Activity /\ a.pc = "truncate" /\ a.op = op /\ a.row = r /\ a.raced = "no"
      /\ a.on = 0 /\ a.who = x.email /\ a.doc = doc
  BY <1>4, <1>5, IdleTyped DEF Activity, Idle
<1> HIDE DEF a
<1>8. /\ proc' \in [Process -> Activity] /\ proc'["server"] = a
      /\ proc'["scheduler"] = proc["scheduler"]
  BY <1>6, <1>7, OneMoves DEF Process
<1> QED
  BY <1>1, <1>2, <1>7, <1>8 DEF Follow, x, doc

LEMMA FollowTyped ==
    ASSUME TypeOK, NEW op \in {"confirm", "unsubscribe", "renewed", "rearm"}, NEW r \in Row,
           NEW c \in 1..MaxCycle, Follow(op, r, c)
    PROVE  TypeOK'
<1>1. /\ file.rows[r] \in Signup /\ requests' = requests + 1
      /\ proc'["server"].who = file.rows[r].email /\ proc'["server"].pc = "truncate"
      /\ proc'["server"].op = op /\ proc'["server"].row = r
      /\ proc' \in [Process -> Activity] /\ proc'["scheduler"] = proc["scheduler"]
      /\ consent' \in SUBSET (consent \cup {r})
      /\ UNCHANGED <<day, file, issued, breaker, pass, optedOut, renewed, reminded, asked,
                     posted, spoilt>>
  BY FollowDoes
<1>2. proc'["server"].who \in Email
  BY <1>1 DEF Signup
<1>3. ServerStage(proc["server"])' /\ SchedulerStage(proc["scheduler"])'
  BY <1>1, <1>2 DEF TypeOK, ServerStage, SchedulerStage
<1> QED
  BY <1>1, <1>3 DEF TypeOK

LEMMA TruncateDoes ==
    ASSUME TypeOK, NEW p \in Process, Truncate(p)
    PROVE  /\ At(p, "truncate") /\ ~file'.ok /\ file'.rows = NoRows
           /\ file' \in [ok : BOOLEAN, rows : Document]
           /\ proc' \in [Process -> Activity] /\ proc'[Other(p)] = proc[Other(p)]
           /\ LET a == proc'[p]
              IN  /\ a.pc = "write" /\ a.op = proc[p].op /\ a.row = proc[p].row
                  /\ a.tier = proc[p].tier /\ a.who = proc[p].who /\ a.made = proc[p].made
                  /\ a.doc = proc[p].doc /\ a.raced = proc[p].raced /\ a.on = proc[p].on
           /\ UNCHANGED <<day, requests, issued, breaker, pass, consent, optedOut, renewed,
                          reminded, asked, posted, spoilt>>
<1> DEFINE me == proc[p]
           a == [me EXCEPT !.pc = "write"]
<1>1. me \in Activity
  BY DEF TypeOK
<1>2. /\ a \in Activity /\ a.pc = "write" /\ a.op = me.op /\ a.row = me.row /\ a.tier = me.tier
      /\ a.who = me.who /\ a.made = me.made /\ a.doc = me.doc /\ a.raced = me.raced
      /\ a.on = me.on
  BY <1>1 DEF Activity
<1>3. proc' = [proc EXCEPT ![p] = a]
  BY DEF Truncate, TypeOK
<1> HIDE DEF a
<1>4. /\ proc' \in [Process -> Activity] /\ proc'[p] = a /\ proc'[Other(p)] = proc[Other(p)]
  BY <1>2, <1>3, OneMoves
<1> QED
  BY <1>2, <1>4, IdleTyped DEF Truncate, mails

LEMMA TruncateTyped ==
    ASSUME TypeOK, NEW p \in Process, Truncate(p)
    PROVE  TypeOK'
<1>1. CASE p = "server"
  <2>1. Other(p) = "scheduler"
    BY <1>1 DEF Other
  <2> QED
    BY <1>1, <2>1, TruncateDoes DEF TypeOK, ServerStage, SchedulerStage, At
<1>2. CASE p = "scheduler"
  <2>1. Other(p) = "server"
    BY <1>2 DEF Other
  <2> QED
    BY <1>2, <2>1, TruncateDoes DEF TypeOK, ServerStage, SchedulerStage, At
<1> QED
  BY <1>1, <1>2 DEF Process

\* The scheduler between two rows.
LEMMA NextRowStage ==
    LET a == [Idle EXCEPT !.pc = "next"]
    IN  /\ a \in Activity /\ a.pc = "next" /\ a.op = "none" /\ a.on = 0 /\ a.raced = "no"
        /\ a.doc = NoRows /\ a.row = 0
BY IdleTyped DEF Activity, Idle

LEMMA DoneStage ==
    ASSUME NEW p \in Process
    PROVE  /\ Done(p) \in Activity /\ Done(p).op = "none" /\ Done(p).on = 0
           /\ Done(p).raced = "no" /\ Done(p).doc = NoRows /\ Done(p).row = 0
           /\ p = "server" => Done(p).pc = "idle"
           /\ p = "scheduler" => Done(p).pc = "next"
<1>1. CASE p = "server"
  BY <1>1, IdleTyped DEF Done
<1>2. CASE p = "scheduler"
  BY <1>2, NextRowStage DEF Done
<1> QED
  BY <1>1, <1>2 DEF Process

LEMMA RacedStage ==
    ASSUME NEW x \in Activity, NEW v \in {"no", "lost", "mixed"}, NEW b,
           b = [x EXCEPT !.raced = v]
    PROVE  b \in Activity /\ Alike(x, b) /\ b.raced = v /\ b.miscount = x.miscount
<1>1. b = [pc |-> x.pc, op |-> x.op, row |-> x.row, tier |-> x.tier, who |-> x.who,
           where |-> x.where, made |-> x.made, doc |-> x.doc, raced |-> v,
           count |-> x.count, on |-> x.on, miscount |-> x.miscount]
  BY DEF Activity
<1> QED
  BY <1>1 DEF Activity, Alike

LEMMA MiscountStage ==
    ASSUME NEW x \in Activity, NEW v \in BOOLEAN, NEW b, b = [x EXCEPT !.miscount = v]
    PROVE  b \in Activity /\ Alike(x, b) /\ b.raced = x.raced /\ b.miscount = v
<1>1. b = [pc |-> x.pc, op |-> x.op, row |-> x.row, tier |-> x.tier, who |-> x.who,
           where |-> x.where, made |-> x.made, doc |-> x.doc, raced |-> x.raced,
           count |-> x.count, on |-> x.on, miscount |-> v]
  BY DEF Activity
<1>2. b \in Activity
  BY <1>1 DEF Activity
<1> QED
  BY <1>1, <1>2 DEF Alike

LEMMA MailStage ==
    ASSUME NEW x \in Activity, NEW a,
           a = [x EXCEPT !.pc = "mail", !.doc = NoRows, !.raced = "no"]
    PROVE  /\ a \in Activity /\ a.pc = "mail" /\ a.op = x.op /\ a.row = x.row
           /\ a.who = x.who /\ a.made = x.made /\ a.on = x.on /\ a.doc = NoRows
<1>1. a = [pc |-> "mail", op |-> x.op, row |-> x.row, tier |-> x.tier, who |-> x.who,
           where |-> x.where, made |-> x.made, doc |-> NoRows, raced |-> "no",
           count |-> x.count, on |-> x.on, miscount |-> x.miscount]
  BY DEF Activity
<1>2. a \in Activity
  <2>1. NoRows \in Document
    BY IdleTyped
  <2> QED
    BY <1>1, <2>1 DEF Activity
<1> QED
  BY <1>1, <1>2

\* The writer's copy is the file, unless the other one cut it short; the other
\* one's copy, if it has one, is out of date.
LEMMA WriteDoes ==
    ASSUME TypeOK, NEW p \in Process, Write(p)
    PROVE  /\ At(p, "write")
           /\ file' \in [ok : BOOLEAN, rows : Document]
           /\ file'.ok => file'.rows = proc[p].doc
           /\ ~file'.ok => file'.rows = NoRows /\ proc[p].raced = "mixed"
           /\ spoilt' \in [rows : BOOLEAN, count : BOOLEAN, mark : BOOLEAN]
           /\ spoilt'.rows <=> (spoilt.rows \/ proc[p].raced # "no")
           /\ spoilt'.count = spoilt.count /\ spoilt'.mark = spoilt.mark
           /\ proc' \in [Process -> Activity]
           /\ Alike(proc[Other(p)], proc'[Other(p)])
           /\ proc'[Other(p)].miscount = proc[Other(p)].miscount
           /\ Saving(Other(p)) => proc'[Other(p)].raced # "no"
           /\ LET me == proc[p]
                  a == proc'[p]
              IN  \/ /\ p = "server" /\ a.pc = "mail" /\ a.op = me.op /\ a.row = me.row
                     /\ a.who = me.who /\ a.made = me.made /\ a.on = me.on
                     /\ a.doc = NoRows
                  \/ p = "server" /\ a = Idle
                  \/ /\ p = "scheduler" /\ a.pc = "next" /\ a.op = "none" /\ a.on = 0
                     /\ a.doc = NoRows
           /\ Told(proc[p])
           /\ UNCHANGED <<day, requests, issued, breaker, pass, consent, reminded, asked, posted>>
<1> DEFINE q == Other(p)
           me == proc[p]
           mailing == p = "server" /\ Answers(me.op, me.doc[me.row])
           a == IF mailing THEN [me EXCEPT !.pc = "mail", !.doc = NoRows, !.raced = "no"]
                ELSE IF p = "server" THEN Idle
                ELSE [Idle EXCEPT !.pc = "next"]
           b == [proc[q] EXCEPT !.raced = Raced(p)]
<1>1. me \in Activity /\ proc[q] \in Activity /\ q \in Process /\ q # p
  BY DEF TypeOK, Process, Other
<1>2. Raced(p) \in {"no", "lost", "mixed"} /\ (Saving(q) => Raced(p) # "no")
  <2>1. proc[q].raced \in {"no", "lost", "mixed"}
    BY <1>1 DEF Activity
  <2> QED
    BY <2>1 DEF Raced, Saving, At
<1>3. b \in Activity /\ Alike(proc[q], b) /\ b.raced = Raced(p) /\ b.miscount = proc[q].miscount
  <2>1. b = [proc[q] EXCEPT !.raced = Raced(p)]
    OBVIOUS
  <2> HIDE DEF b, q
  <2> QED
    BY <1>1, <1>2, <2>1, RacedStage
<1>4. /\ a \in Activity
      /\ \/ /\ p = "server" /\ a.pc = "mail" /\ a.op = me.op /\ a.row = me.row
            /\ a.who = me.who /\ a.made = me.made /\ a.on = me.on /\ a.doc = NoRows
         \/ p = "server" /\ a = Idle
         \/ /\ p = "scheduler" /\ a.pc = "next" /\ a.op = "none" /\ a.on = 0
            /\ a.doc = NoRows
  <2>1. CASE mailing
    <3>1. a = [me EXCEPT !.pc = "mail", !.doc = NoRows, !.raced = "no"]
      BY <2>1
    <3> HIDE DEF a
    <3> QED
      BY <1>1, <2>1, <3>1, MailStage
  <2>2. CASE ~mailing /\ p = "server"
    BY <2>2, IdleTyped
  <2>3. CASE ~mailing /\ p # "server"
    <3>1. a = [Idle EXCEPT !.pc = "next"] /\ p = "scheduler"
      BY <2>3 DEF Process
    <3> HIDE DEF a
    <3> QED
      BY <3>1, NextRowStage
  <2> QED
    BY <2>1, <2>2, <2>3
<1>5. proc' = [[proc EXCEPT ![p] = a] EXCEPT ![q] = b]
  <2>1. proc' = [proc EXCEPT ![p] = a, ![q].raced = Raced(p)]
    BY DEF Write
  <2>2. [proc EXCEPT ![p] = a][q] = proc[q]
    BY <1>1 DEF TypeOK
  <2> QED
    BY <2>1, <2>2, Zenon
<1> HIDE DEF a, b
<1>6. proc' \in [Process -> Activity] /\ proc'[p] = a /\ proc'[q] = b
  BY <1>1, <1>3, <1>4, <1>5 DEF TypeOK
<1>7. /\ file' \in [ok : BOOLEAN, rows : Document]
      /\ file'.ok => file'.rows = me.doc
      /\ ~file'.ok => file'.rows = NoRows /\ me.raced = "mixed"
  <2>1. PICK ok \in IF me.raced = "mixed" THEN BOOLEAN ELSE {TRUE} :
             file' = [ok |-> ok, rows |-> IF ok THEN me.doc ELSE NoRows]
    BY DEF Write
  <2>2. me.doc \in Document
    BY <1>1 DEF Activity
  <2>3. ok \in BOOLEAN
    BY <2>1
  <2>4. CASE ok
    BY <2>1, <2>2, <2>4
  <2>5. CASE ~ok
    BY <2>1, <2>5, IdleTyped
  <2> QED
    BY <2>3, <2>4, <2>5
<1>8. /\ spoilt' \in [rows : BOOLEAN, count : BOOLEAN, mark : BOOLEAN]
      /\ spoilt'.rows <=> (spoilt.rows \/ me.raced # "no")
      /\ spoilt'.count = spoilt.count /\ spoilt'.mark = spoilt.mark
  BY DEF Write, TypeOK
<1> QED
  BY <1>2, <1>3, <1>4, <1>6, <1>7, <1>8 DEF Write

LEMMA ToldTyped ==
    ASSUME TypeOK, NEW p \in Process, At(p, "write"), Told(proc[p])
    PROVE  /\ optedOut' \subseteq Row /\ renewed' \subseteq Row
           /\ p = "scheduler" => UNCHANGED <<optedOut, renewed>>
<1>1. proc[p].row \in Row
  BY DEF TypeOK, ServerStage, SchedulerStage, At, Process
<1>2. p = "scheduler" => proc[p].op = "remind"
  BY DEF TypeOK, SchedulerStage, At
<1> QED
  BY <1>1, <1>2 DEF Told, TypeOK, Confirms

LEMMA WriteTyped ==
    ASSUME TypeOK, NEW p \in Process, Write(p)
    PROVE  TypeOK'
<1>1. optedOut' \subseteq Row /\ renewed' \subseteq Row
  BY WriteDoes, ToldTyped
<1>2. ServerStage(proc["server"])' /\ SchedulerStage(proc["scheduler"])'
  <2>1. CASE p = "server"
    <3>1. Other(p) = "scheduler"
      BY <2>1 DEF Other
    <3> QED
      BY <2>1, <3>1, WriteDoes, IdleTyped DEF TypeOK, ServerStage, SchedulerStage, At, Alike
  <2>2. CASE p = "scheduler"
    <3>1. Other(p) = "server"
      BY <2>2 DEF Other
    <3> QED
      BY <2>2, <3>1, WriteDoes DEF TypeOK, ServerStage, SchedulerStage, At, Alike
  <2> QED
    BY <2>1, <2>2 DEF Process
<1> QED
  BY <1>1, <1>2, WriteDoes DEF TypeOK

\* The breaker lets the mail go, or not.
LEMMA CheckDoes ==
    ASSUME TypeOK, NEW p \in Process, Check(p)
    PROVE  /\ At(p, "mail") /\ SentToday \in Nat
           /\ proc' \in [Process -> Activity] /\ proc'[Other(p)] = proc[Other(p)]
           /\ \/ proc'[p] = Done(p)
              \/ LET a == proc'[p]
                 IN  /\ SentToday < Cap /\ a.pc = "post" /\ a.op = proc[p].op
                     /\ a.row = proc[p].row /\ a.tier = proc[p].tier /\ a.who = proc[p].who
                     /\ a.made = proc[p].made /\ a.doc = proc[p].doc /\ a.raced = proc[p].raced
                     /\ a.count = SentToday /\ a.on = day /\ ~a.miscount
           /\ UNCHANGED <<day, requests, file, issued, breaker, pass, consent, optedOut,
                          renewed, reminded, asked, posted, spoilt>>
<1> DEFINE me == proc[p]
           n == SentToday
           b == [me EXCEPT !.pc = "post", !.count = n, !.on = day, !.miscount = FALSE]
<1>1. me \in Activity
  BY DEF TypeOK
<1>2. n \in Nat /\ day \in Nat
  BY DEF TypeOK, SentToday
<1>3. Done(p) \in Activity
  BY DoneStage
<1>4. proc' = [proc EXCEPT ![p] = IF Tripped(n) THEN Done(p) ELSE b]
  BY DEF Check, TypeOK
<1>5. ~Tripped(n) => n < Cap
  BY <1>2, ConstantAssumption DEF Tripped
<1> HIDE DEF n
<1>6. /\ b \in Activity /\ b.pc = "post" /\ b.op = me.op /\ b.row = me.row /\ b.tier = me.tier
      /\ b.who = me.who /\ b.made = me.made /\ b.doc = me.doc /\ b.raced = me.raced
      /\ b.count = n /\ b.on = day /\ ~b.miscount
  <2>1. b = [me EXCEPT !.pc = "post", !.count = n, !.on = day, !.miscount = FALSE]
    OBVIOUS
  <2> HIDE DEF b, me
  <2> QED
    <3>1. b = [pc |-> "post", op |-> me.op, row |-> me.row, tier |-> me.tier, who |-> me.who,
               where |-> me.where, made |-> me.made, doc |-> me.doc, raced |-> me.raced,
               count |-> n, on |-> day, miscount |-> FALSE]
      BY <1>1, <2>1 DEF Activity
    <3>2. b \in Activity
      BY <1>1, <1>2, <3>1 DEF Activity
    <3> QED
      BY <3>1, <3>2
<1> HIDE DEF b
<1>7. CASE Tripped(n)
  <2>1. proc' = [proc EXCEPT ![p] = Done(p)]
    BY <1>4, <1>7
  <2>2. /\ proc' \in [Process -> Activity] /\ proc'[Other(p)] = proc[Other(p)]
        /\ proc'[p] = Done(p)
    BY <1>3, <2>1, OneMoves
  <2> QED
    BY <1>2, <2>2 DEF Check, n, mails
<1>8. CASE ~Tripped(n)
  <2>1. proc' = [proc EXCEPT ![p] = b]
    BY <1>4, <1>8
  <2>2. /\ proc' \in [Process -> Activity] /\ proc'[Other(p)] = proc[Other(p)]
        /\ proc'[p] = b
    BY <1>6, <2>1, OneMoves
  <2> QED
    BY <1>2, <1>5, <1>6, <1>8, <2>2 DEF Check, n, mails
<1> QED
  BY <1>7, <1>8

LEMMA CheckTyped ==
    ASSUME TypeOK, NEW p \in Process, Check(p)
    PROVE  TypeOK'
<1>1. ServerStage(proc["server"])' /\ SchedulerStage(proc["scheduler"])'
  <2>1. CASE p = "server"
    <3>1. Other(p) = "scheduler"
      BY <2>1 DEF Other
    <3> QED
      BY <2>1, <3>1, CheckDoes, DoneStage DEF TypeOK, ServerStage, SchedulerStage, At
  <2>2. CASE p = "scheduler"
    <3>1. Other(p) = "server"
      BY <2>2 DEF Other
    <3> QED
      BY <2>2, <3>1, CheckDoes, DoneStage DEF TypeOK, ServerStage, SchedulerStage, At
  <2> QED
    BY <2>1, <2>2 DEF Process
<1> QED
  BY <1>1, CheckDoes DEF TypeOK

\* What a reminder of row r is remembered as.
Reminder(r, t) ==
    [cycle |-> pass.snap[r].cycle, due |-> Deadline(pass.snap[r].slug, pass.on), tier |-> t]

\* The mail is out and counted, over whatever the other one counted meanwhile.
LEMMA PostDoes ==
    ASSUME TypeOK, NEW p \in Process, Post(p)
    PROVE  /\ At(p, "post")
           /\ breaker'.on = proc[p].on /\ breaker'.count = proc[p].count + 1
           /\ breaker' \in [on : Nat, count : Nat] /\ posted' = posted + 1
           /\ spoilt' \in [rows : BOOLEAN, count : BOOLEAN, mark : BOOLEAN]
           /\ spoilt'.count <=> (spoilt.count \/ proc[p].miscount \/ proc[p].on # day)
           /\ spoilt'.rows = spoilt.rows /\ spoilt'.mark = spoilt.mark
           /\ proc' \in [Process -> Activity]
           /\ Alike(proc[Other(p)], proc'[Other(p)])
           /\ proc'[Other(p)].raced = proc[Other(p)].raced
           /\ At(Other(p), "post") => proc'[Other(p)].miscount
           /\ LET me == proc[p]
                  a == proc'[p]
              IN  \/ p = "server" /\ a = Idle
                  \/ /\ p = "scheduler" /\ a.pc = "mark" /\ a.op = me.op /\ a.row = me.row
                     /\ a.tier = me.tier /\ a.who = me.who /\ a.on = 0 /\ a.doc = me.doc
                     /\ a.raced = me.raced
           /\ asked' = IF proc[p].op = "subscribe"
                       THEN [asked EXCEPT ![proc[p].who] = proc[p].made] ELSE asked
           /\ reminded' = IF p = "scheduler"
                          THEN [reminded EXCEPT ![proc[p].row] =
                                  @ \cup {Reminder(proc[p].row, proc[p].tier)}]
                          ELSE reminded
           /\ UNCHANGED <<day, requests, file, issued, pass, consent, optedOut, renewed>>
<1> DEFINE q == Other(p)
           me == proc[p]
           a == IF p = "server" THEN Idle ELSE [me EXCEPT !.pc = "mark", !.count = 0, !.on = 0]
           other == proc[q]
           late == other.miscount \/ At(q, "post")
           b == [other EXCEPT !.miscount = late]
<1>1. me \in Activity /\ other \in Activity /\ q \in Process /\ q # p /\ late \in BOOLEAN
  <2>1. me \in Activity /\ other \in Activity /\ q \in Process /\ q # p
    BY DEF TypeOK, Process, Other
  <2>2. other.miscount \in BOOLEAN
    BY <2>1 DEF Activity
  <2> QED
    BY <2>1, <2>2 DEF At
<1>2. proc' = [[proc EXCEPT ![p] = a] EXCEPT ![q] = b]
  <2>1. proc' = [proc EXCEPT ![p] = a, ![q].miscount = @ \/ At(q, "post")]
    BY DEF Post
  <2>2. [proc EXCEPT ![p] = a][q] = proc[q]
    BY <1>1 DEF TypeOK
  <2> QED
    BY <2>1, <2>2, Zenon
<1>3. At(q, "post") => late
  OBVIOUS
<1>4. b \in Activity /\ Alike(other, b) /\ b.raced = other.raced /\ b.miscount = late
  <2>1. b = [other EXCEPT !.miscount = late]
    OBVIOUS
  <2> HIDE DEF late, other, b
  <2> QED
    BY <1>1, <2>1, MiscountStage
<1>5. /\ a \in Activity
      /\ \/ p = "server" /\ a = Idle
         \/ /\ p = "scheduler" /\ a.pc = "mark" /\ a.op = me.op /\ a.row = me.row
            /\ a.tier = me.tier /\ a.who = me.who /\ a.on = 0 /\ a.doc = me.doc
            /\ a.raced = me.raced
  <2>1. CASE p = "server"
    BY <2>1, IdleTyped
  <2>2. CASE p = "scheduler"
    <3>1. a = [me EXCEPT !.pc = "mark", !.count = 0, !.on = 0]
      BY <2>2
    <3> HIDE DEF a
    <3>2. a = [pc |-> "mark", op |-> me.op, row |-> me.row, tier |-> me.tier, who |-> me.who,
               where |-> me.where, made |-> me.made, doc |-> me.doc, raced |-> me.raced,
               count |-> 0, on |-> 0, miscount |-> me.miscount]
      BY <1>1, <3>1 DEF Activity
    <3> QED
      BY <1>1, <2>2, <3>2 DEF Activity
  <2> QED
    BY <2>1, <2>2 DEF Process
<1> HIDE DEF a, b
<1>6. proc' \in [Process -> Activity] /\ proc'[p] = a /\ proc'[q] = b
  BY <1>1, <1>2, <1>4, <1>5 DEF TypeOK
<1> HIDE DEF late
<1>7. /\ spoilt' \in [rows : BOOLEAN, count : BOOLEAN, mark : BOOLEAN]
      /\ spoilt'.count <=> (spoilt.count \/ me.miscount \/ me.on # day)
      /\ spoilt'.rows = spoilt.rows /\ spoilt'.mark = spoilt.mark
  BY DEF Post, TypeOK
<1>8. /\ breaker'.on = me.on /\ breaker'.count = me.count + 1
      /\ breaker' \in [on : Nat, count : Nat]
  <2>1. me.on \in Nat /\ me.count \in Nat
    BY <1>1 DEF Activity
  <2> QED
    BY <2>1 DEF Post
<1>9. reminded' = IF p = "scheduler"
                  THEN [reminded EXCEPT ![me.row] = @ \cup {Reminder(me.row, me.tier)}]
                  ELSE reminded
  BY DEF Post, Reminder
<1>10. /\ At(p, "post") /\ posted' = posted + 1
       /\ asked' = IF me.op = "subscribe" THEN [asked EXCEPT ![me.who] = me.made] ELSE asked
       /\ UNCHANGED <<day, requests, file, issued, pass, consent, optedOut, renewed>>
  BY DEF Post
<1> QED
  BY <1>3, <1>4, <1>5, <1>6, <1>7, <1>8, <1>9, <1>10

LEMMA PostTyped ==
    ASSUME TypeOK, NEW p \in Process, Post(p)
    PROVE  TypeOK'
<1>1. proc[p] \in Activity
  BY DEF TypeOK
<1>2. asked' \in [Email -> Int]
  <2>1. proc[p].made \in Nat
    BY <1>1 DEF Activity
  <2> QED
    BY <2>1, PostDoes DEF TypeOK
<1>3. reminded' \in [Row -> SUBSET [cycle : Nat, due : Int, tier : Thresholds]]
  <2>1. CASE p = "server"
    BY <2>1, PostDoes DEF TypeOK
  <2>2. CASE p = "scheduler"
    <3> DEFINE r == proc[p].row
               t == proc[p].tier
    <3>1. r \in Row /\ t \in Thresholds /\ pass.snap[r] \in Signup
      BY <2>2, PostDoes DEF TypeOK, SchedulerStage, At
    <3>2. pass.snap[r].cycle \in Nat /\ pass.snap[r].slug \in Slug /\ pass.on \in Nat
      BY <3>1 DEF Signup, TypeOK
    <3>3. Reminder(r, t) \in [cycle : Nat, due : Int, tier : Thresholds]
      BY <3>1, <3>2, DeadlineTyped DEF Reminder
    <3>4. reminded' = [reminded EXCEPT ![r] = @ \cup {Reminder(r, t)}]
      BY <2>2, PostDoes
    <3> HIDE DEF r, t
    <3> QED
      BY <3>1, <3>3, <3>4 DEF TypeOK
  <2> QED
    BY <2>1, <2>2 DEF Process
<1>4. ServerStage(proc["server"])' /\ SchedulerStage(proc["scheduler"])'
  <2>1. CASE p = "server"
    <3>1. Other(p) = "scheduler"
      BY <2>1 DEF Other
    <3> QED
      BY <2>1, <3>1, PostDoes, IdleTyped DEF TypeOK, ServerStage, SchedulerStage, At, Alike
  <2>2. CASE p = "scheduler"
    <3>1. Other(p) = "server"
      BY <2>2 DEF Other
    <3> QED
      BY <2>2, <3>1, PostDoes DEF TypeOK, ServerStage, SchedulerStage, At, Alike
  <2> QED
    BY <2>1, <2>2 DEF Process
<1> QED
  BY <1>2, <1>3, <1>4, PostDoes DEF TypeOK

\* The pass takes down the confirmed rows, or fails on an unreadable file.
LEMMA StartPassDoes ==
    ASSUME TypeOK, StartPass
    PROVE  /\ At("scheduler", "idle") /\ proc'["server"] = proc["server"]
           /\ proc' \in [Process -> Activity]
           /\ IF file.ok
              THEN /\ LET a == proc'["scheduler"]
                      IN  a.pc = "next" /\ a.op = "none" /\ a.on = 0 /\ a.doc = NoRows
                   /\ pass' \in [on : Nat, snap : Document, todo : SUBSET Row]
                   /\ pass'.todo = {r \in Row : file.rows[r].status = "confirmed"}
                   /\ \A r \in pass'.todo : /\ file.rows[r] \in Signup
                                            /\ pass'.snap[r] = file.rows[r]
                   /\ \A r \in Row \ pass'.todo : pass'.snap[r] = NoRow
              ELSE pass' = pass /\ proc' = proc
           /\ UNCHANGED <<day, requests, file, issued, breaker, consent, optedOut, renewed,
                          reminded, asked, posted, spoilt>>
<1> DEFINE a == [Idle EXCEPT !.pc = "next"]
           todo == {r \in Row : file.rows[r].status = "confirmed"}
           snap == [r \in Row |-> IF r \in todo THEN file.rows[r] ELSE NoRow]
<1>1. CASE file.ok
  <2>1. proc' = [proc EXCEPT !["scheduler"] = a] /\ pass' = [on |-> day, todo |-> todo, snap |-> snap]
    BY <1>1 DEF StartPass
  <2>2. /\ a \in Activity /\ a.pc = "next" /\ a.op = "none" /\ a.on = 0 /\ a.doc = NoRows
    BY NextRowStage
  <2> HIDE DEF a
  <2>3. /\ proc' \in [Process -> Activity] /\ proc'["server"] = proc["server"]
        /\ proc'["scheduler"] = a
    BY <2>1, <2>2, OneMoves DEF Process
  <2>4. file.rows \in Document
    BY DEF TypeOK
  <2>5. \A r \in todo : file.rows[r] \in Signup
    BY <2>4, IdleTyped DEF Document
  <2>6. snap \in Document
    BY <2>5 DEF Document
  <2>7. pass' \in [on : Nat, snap : Document, todo : SUBSET Row]
    <3>1. todo \in SUBSET Row /\ day \in Nat
      BY DEF TypeOK
    <3> HIDE DEF todo, snap
    <3> QED
      BY <2>1, <2>6, <3>1
  <2>8. pass'.todo = todo /\ pass'.snap = snap
    BY <2>1
  <2>9. /\ \A r \in todo : pass'.snap[r] = file.rows[r]
        /\ \A r \in Row \ todo : pass'.snap[r] = NoRow
    BY <2>8
  <2> HIDE DEF snap
  <2> QED
    BY <1>1, <2>2, <2>3, <2>5, <2>7, <2>8, <2>9 DEF StartPass, mails
<1>2. CASE ~file.ok
  BY <1>2 DEF StartPass, TypeOK, mails
<1> QED
  BY <1>1, <1>2

LEMMA StartPassTyped ==
    ASSUME TypeOK, StartPass
    PROVE  TypeOK'
<1>1. \A r \in pass'.todo : pass'.snap[r] \in Signup
  BY StartPassDoes DEF TypeOK
<1>2. pass' \in [on : Nat, snap : Document, todo : SUBSET Row]
  BY StartPassDoes DEF TypeOK
<1>3. ServerStage(proc["server"])' /\ SchedulerStage(proc["scheduler"])'
  BY StartPassDoes DEF TypeOK, ServerStage, SchedulerStage, At
<1>4. UNCHANGED <<day, requests, file, issued, breaker, consent, optedOut, renewed,
                  reminded, asked, posted, spoilt>>
      /\ proc' \in [Process -> Activity]
  BY StartPassDoes
<1> QED
  BY <1>1, <1>2, <1>3, <1>4 DEF TypeOK

\* The pass goes on to its next row and forgets the ones before it.
LEMMA TurnDoes ==
    ASSUME TypeOK, NEW r \in Row, Turn(r)
    PROVE  /\ At("scheduler", "next") /\ r \in pass.todo /\ pass.snap[r] \in Signup
           /\ pass' \in [on : Nat, snap : Document, todo : SUBSET Row]
           /\ pass'.on = pass.on /\ pass'.todo = pass.todo \ {r}
           /\ pass'.snap[r] = pass.snap[r]
           /\ \A k \in pass.todo : pass'.snap[k] = pass.snap[k]
           /\ \A k \in Row : pass'.snap[k] \in {NoRow, pass.snap[k]}
<1> DEFINE snap == [k \in Row |-> IF k < r THEN NoRow ELSE pass.snap[k]]
           todo == pass.todo \ {r}
<1>1. /\ pass \in [on : Nat, snap : Document, todo : SUBSET Row] /\ r \in pass.todo
      /\ pass.snap[r] \in Signup /\ Row \subseteq Nat
  BY DEF Turn, TypeOK, Row
<1>2. pass' = [pass EXCEPT !.todo = todo, !.snap = snap]
  BY DEF Turn
<1>3. snap \in Document
  BY <1>1 DEF Document
<1>4. /\ \A k \in Row : snap[k] \in {NoRow, pass.snap[k]}
      /\ \A k \in pass.todo : snap[k] = pass.snap[k]
  BY <1>1 DEF Turn
<1> HIDE DEF snap
<1>5. /\ pass' \in [on : Nat, snap : Document, todo : SUBSET Row]
      /\ pass'.on = pass.on /\ pass'.todo = todo /\ pass'.snap = snap
  BY <1>1, <1>2, <1>3
<1> QED
  BY <1>1, <1>4, <1>5 DEF Turn

LEMMA SkipRowTyped ==
    ASSUME TypeOK, NEW r \in Row, SkipRow(r)
    PROVE  TypeOK'
<1>1. /\ Turn(r)
      /\ UNCHANGED <<day, requests, file, issued, breaker, proc, consent, optedOut, renewed,
                     reminded, asked, posted, spoilt>>
  BY DEF SkipRow, mails
<1>2. ServerStage(proc["server"])' /\ SchedulerStage(proc["scheduler"])'
  BY <1>1, TurnDoes DEF TypeOK, ServerStage, SchedulerStage, At
<1>3. \A k \in pass'.todo : pass'.snap[k] \in Signup
  BY <1>1, TurnDoes DEF TypeOK
<1>4. pass' \in [on : Nat, snap : Document, todo : SUBSET Row]
  BY <1>1, TurnDoes
<1> QED
  BY <1>1, <1>2, <1>3, <1>4 DEF TypeOK

LEMMA DueRowDoes ==
    ASSUME TypeOK, NEW r \in Row, DueRow(r)
    PROVE  /\ Turn(r) /\ file.ok /\ ~Suppressed(file.rows, pass.snap[r].email)
           /\ proc' \in [Process -> Activity] /\ proc'["server"] = proc["server"]
           /\ LET a == proc'["scheduler"]
              IN  /\ a.pc = "mail" /\ a.op = "remind" /\ a.row = r /\ a.on = 0 /\ a.doc = NoRows
                  /\ a.tier \in Thresholds \ pass.snap[r].sent
           /\ UNCHANGED <<day, requests, file, issued, breaker, consent, optedOut, renewed,
                          reminded, asked, posted, spoilt>>
<1> DEFINE t == Tier(r)
           who == pass.snap[r].email
           a == [Idle EXCEPT !.pc = "mail", !.op = "remind", !.row = r, !.tier = t,
                             !.who = who]
<1>1. Turn(r) /\ pass.snap[r] \in Signup
  BY TurnDoes DEF DueRow
<1>2. t \in Thresholds \ pass.snap[r].sent
  BY <1>1, TierIsNew DEF DueRow, Tier
<1>3. who \in Email
  BY <1>1 DEF Signup
<1>4. proc' = [proc EXCEPT !["scheduler"] = a]
  BY DEF DueRow
<1> HIDE DEF t, who
<1>5. /\ a \in Activity /\ a.pc = "mail" /\ a.op = "remind" /\ a.row = r /\ a.on = 0
      /\ a.tier = t /\ a.doc = NoRows
  BY <1>2, <1>3, IdleTyped DEF Activity, Idle
<1> HIDE DEF a
<1>6. /\ proc' \in [Process -> Activity] /\ proc'["server"] = proc["server"]
      /\ proc'["scheduler"] = a
  BY <1>4, <1>5, OneMoves DEF Process
<1> QED
  BY <1>1, <1>2, <1>5, <1>6 DEF DueRow, mails

LEMMA DueRowTyped ==
    ASSUME TypeOK, NEW r \in Row, DueRow(r)
    PROVE  TypeOK'
<1>1. ServerStage(proc["server"])' /\ SchedulerStage(proc["scheduler"])'
  BY DueRowDoes, TurnDoes DEF TypeOK, ServerStage, SchedulerStage, At
<1>2. \A k \in pass'.todo : pass'.snap[k] \in Signup
  BY DueRowDoes, TurnDoes DEF TypeOK
<1>3. pass' \in [on : Nat, snap : Document, todo : SUBSET Row]
  BY DueRowDoes, TurnDoes
<1> QED
  BY <1>1, <1>2, <1>3, DueRowDoes DEF TypeOK

\* The mark is added to what the file holds by now.
LEMMA MarkDoes ==
    ASSUME TypeOK, Mark
    PROVE  /\ At("scheduler", "mark") /\ file.ok
           /\ proc' \in [Process -> Activity] /\ proc'["server"] = proc["server"]
           /\ LET me == proc["scheduler"]
                  a == proc'["scheduler"]
              IN  IF file.rows[me.row].status = "none" THEN a = Done("scheduler")
                  ELSE /\ a.pc = "truncate" /\ a.op = "remind" /\ a.row = me.row
                       /\ a.tier = me.tier /\ a.on = me.on /\ a.raced = me.raced
                       /\ file.rows[me.row] \in Signup
                       /\ a.doc \in Document
                       /\ \A k \in Row \ {me.row} : a.doc[k] = file.rows[k]
                       /\ a.doc[me.row] =
                            [file.rows[me.row] EXCEPT !.sent = @ \cup {me.tier}]
           /\ UNCHANGED <<day, requests, file, issued, breaker, pass, consent, optedOut,
                          renewed, reminded, asked, posted, spoilt>>
<1> DEFINE me == proc["scheduler"]
           x == file.rows[me.row]
           y == [x EXCEPT !.sent = @ \cup {me.tier}]
           doc == [file.rows EXCEPT ![me.row] = y]
           b == [me EXCEPT !.pc = "truncate", !.doc = doc]
<1>1. /\ me \in Activity /\ me.row \in Row /\ me.tier \in Thresholds /\ me.op = "remind"
      /\ file.rows \in Document /\ "scheduler" \in Process
  BY DEF TypeOK, Mark, At, SchedulerStage, Process
<1>2. CASE x.status = "none"
  <2>1. proc' = [proc EXCEPT !["scheduler"] = Done("scheduler")]
    BY <1>2 DEF Mark
  <2>2. /\ proc' \in [Process -> Activity] /\ proc'["server"] = proc["server"]
        /\ proc'["scheduler"] = Done("scheduler")
    BY <1>1, <2>1, DoneStage, OneMoves
  <2> QED
    BY <1>2, <2>2 DEF Mark, mails
<1>3. CASE x.status # "none"
  <2>1. x \in Signup
    BY <1>1, <1>3, IdleTyped DEF Document
  <2>2. y \in Signup
    BY <1>1, <2>1 DEF Signup
  <2>3. proc' = [proc EXCEPT !["scheduler"] = b]
    BY <1>1, <1>3 DEF Mark, TypeOK
  <2>4. b = [me EXCEPT !.pc = "truncate", !.doc = doc]
    OBVIOUS
  <2> HIDE DEF b, y
  <2>5. doc \in Document /\ doc[me.row] = y /\ \A k \in Row \ {me.row} : doc[k] = file.rows[k]
    BY <1>1, <2>2 DEF Document
  <2> HIDE DEF doc
  <2>6. /\ b \in Activity /\ b.pc = "truncate" /\ b.op = me.op /\ b.row = me.row
        /\ b.tier = me.tier /\ b.on = me.on /\ b.raced = me.raced /\ b.doc = doc
    BY <1>1, <2>4, <2>5 DEF Activity
  <2>7. /\ proc' \in [Process -> Activity] /\ proc'["server"] = proc["server"]
        /\ proc'["scheduler"] = b
    BY <1>1, <2>3, <2>6, OneMoves
  <2> QED
    BY <1>1, <1>3, <2>1, <2>5, <2>6, <2>7 DEF Mark, mails, y
<1> QED
  BY <1>2, <1>3

LEMMA MarkTyped ==
    ASSUME TypeOK, Mark
    PROVE  TypeOK'
<1>1. ServerStage(proc["server"])' /\ SchedulerStage(proc["scheduler"])'
  BY MarkDoes, DoneStage DEF TypeOK, ServerStage, SchedulerStage, At, Process
<1> QED
  BY <1>1, MarkDoes DEF TypeOK

\* A pass that ends, or dies, leaves a reminder unmarked if one went out.
LEMMA EndPassDoes ==
    ASSUME TypeOK, EndPass
    PROVE  /\ At("scheduler", "next") \/ At("scheduler", "mark")
           /\ proc' = [proc EXCEPT !["scheduler"] = Idle] /\ pass' = NoPass
           /\ spoilt' \in [rows : BOOLEAN, count : BOOLEAN, mark : BOOLEAN]
           /\ spoilt'.mark <=> (spoilt.mark \/ At("scheduler", "mark"))
           /\ spoilt'.rows = spoilt.rows /\ spoilt'.count = spoilt.count
           /\ UNCHANGED <<day, requests, file, issued, breaker, consent, optedOut, renewed,
                          reminded, asked, posted>>
<1>1. /\ spoilt' \in [rows : BOOLEAN, count : BOOLEAN, mark : BOOLEAN]
      /\ spoilt'.mark <=> (spoilt.mark \/ At("scheduler", "mark"))
      /\ spoilt'.rows = spoilt.rows /\ spoilt'.count = spoilt.count
  BY DEF EndPass, TypeOK, At
<1> QED
  BY <1>1 DEF EndPass, mails

LEMMA KillDoes ==
    ASSUME TypeOK, NEW p \in Process, Kill(p)
    PROVE  /\ proc' = [proc EXCEPT ![p] = Idle]
           /\ pass' = IF p = "scheduler" THEN NoPass ELSE pass
           /\ spoilt' \in [rows : BOOLEAN, count : BOOLEAN, mark : BOOLEAN]
           /\ spoilt.mark => spoilt'.mark
           /\ p = "scheduler" /\ proc[p].pc \in {"mark", "truncate", "write"} => spoilt'.mark
           /\ spoilt'.rows = spoilt.rows /\ spoilt'.count = spoilt.count
           /\ UNCHANGED <<day, requests, file, issued, breaker, consent, optedOut, renewed,
                          reminded, asked, posted>>
<1>1. /\ spoilt' \in [rows : BOOLEAN, count : BOOLEAN, mark : BOOLEAN]
      /\ spoilt.mark => spoilt'.mark
      /\ p = "scheduler" /\ proc[p].pc \in {"mark", "truncate", "write"} => spoilt'.mark
      /\ spoilt'.rows = spoilt.rows /\ spoilt'.count = spoilt.count
  BY DEF Kill, TypeOK
<1> QED
  BY <1>1 DEF Kill, mails

\* Whatever stops a process, the other one goes on.
LEMMA StoppedTyped ==
    ASSUME TypeOK, NEW p \in Process, proc' = [proc EXCEPT ![p] = Idle],
           pass' = IF p = "scheduler" THEN NoPass ELSE pass,
           spoilt' \in [rows : BOOLEAN, count : BOOLEAN, mark : BOOLEAN],
           UNCHANGED <<day, requests, file, issued, breaker, consent, optedOut, renewed,
                       reminded, asked, posted>>
    PROVE  TypeOK'
<1>1. /\ proc'[p] = Idle /\ proc'[Other(p)] = proc[Other(p)]
      /\ proc' \in [Process -> Activity]
  BY OneMoves, IdleTyped
<1>2. pass' \in [on : Nat, snap : Document, todo : SUBSET Row]
      /\ \A r \in pass'.todo : pass'.snap[r] \in Signup
  BY IdleTyped DEF TypeOK
<1>3. ServerStage(proc["server"])' /\ SchedulerStage(proc["scheduler"])'
  <2>1. CASE p = "server"
    BY <1>1, <2>1, IdleTyped DEF TypeOK, ServerStage, SchedulerStage, Other
  <2>2. CASE p = "scheduler"
    BY <1>1, <2>2, IdleTyped DEF TypeOK, ServerStage, SchedulerStage, Other
  <2> QED
    BY <2>1, <2>2 DEF Process
<1> QED
  BY <1>1, <1>2, <1>3 DEF TypeOK

LEMMA NextTyped == TypeOK /\ [Next]_vars => TypeOK'
<1> SUFFICES ASSUME TypeOK, [Next]_vars PROVE TypeOK'
  OBVIOUS
<1>1. CASE Server
  BY <1>1, SubscribeTyped, AddPendingTyped, FollowTyped DEF Server
<1>2. CASE Scheduler
  <2>1. CASE EndPass
    BY <2>1, EndPassDoes, StoppedTyped DEF Process
  <2> QED
    BY <1>2, <2>1, StartPassTyped, MarkTyped, SkipRowTyped, DueRowTyped DEF Scheduler
<1>3. CASE Shared
  BY <1>3, TruncateTyped, WriteTyped, CheckTyped, PostTyped DEF Shared
<1>4. ASSUME NEW p \in Process, Kill(p) PROVE TypeOK'
  BY <1>4, KillDoes, StoppedTyped
<1>5. CASE NextDay
  BY <1>5 DEF NextDay, TypeOK, ServerStage, SchedulerStage
<1>6. CASE UNCHANGED vars
  BY <1>6 DEF vars, TypeOK, ServerStage, SchedulerStage
<1> QED
  BY <1>1, <1>2, <1>3, <1>4, <1>5, <1>6 DEF Next

\* The files, what each process holds and the histories stay well typed.
THEOREM PrototypeTypeCorrect == Spec => []TypeOK
BY InitTyped, NextTyped, PTL DEF Spec

-----------------------------------------------------------------------------
(* The daily cap.                                                          *)

\* Until the two processes count at once, or a mail straddles midnight, the
\* breaker has counted what was posted today, and a process about to post has
\* the current count, below the cap.
CountInv ==
    ~spoilt.count =>
        /\ posted = SentToday /\ posted <= Cap
        /\ \A p \in Process : At(p, "post") /\ ~proc[p].miscount /\ proc[p].on = day =>
              proc[p].count = SentToday /\ SentToday < Cap

CapInv ==
    /\ breaker.on <= day /\ \A p \in Process : proc[p].on <= day
    /\ CountInv

LEMMA InitCap == Init => CapInv
<1> SUFFICES ASSUME Init PROVE CapInv
  OBVIOUS
<1>1. /\ posted = 0 /\ SentToday = 0 /\ 0 <= Cap /\ breaker.on = 0 /\ day = 0
  BY ConstantAssumption DEF Init, SentToday
<1>2. \A p \in Process : proc[p] = Idle
  BY DEF Init
<1> QED
  BY <1>1, <1>2, IdleTyped DEF CapInv, CountInv, At

\* A step that neither counts nor posts.
LEMMA QuietKeepsCap ==
    ASSUME TypeOK, CapInv, NEW p \in Process, proc'[p].pc # "post", proc'[p].on <= day,
           Alike(proc[Other(p)], proc'[Other(p)]),
           proc'[Other(p)].miscount = proc[Other(p)].miscount,
           UNCHANGED <<day, breaker, posted>>, spoilt'.count = spoilt.count
    PROVE  CapInv'
<1>1. \A q \in Process : q = p \/ q = Other(p)
  BY DEF Process, Other
<1>2. Other(p) \in Process
  BY DEF Process, Other
<1>3. UNCHANGED SentToday
  BY DEF SentToday
<1>4. \A q \in Process : proc'[q].on <= day'
  BY <1>1, <1>2 DEF CapInv, Alike
<1>5. CountInv'
  BY <1>1, <1>2, <1>3 DEF CapInv, CountInv, Alike, At
<1> QED
  BY <1>4, <1>5 DEF CapInv

\* A step of one process alone.
LEMMA SoleKeepsCap ==
    ASSUME TypeOK, CapInv, NEW p \in Process, proc'[p].pc # "post", proc'[p].on <= day,
           proc'[Other(p)] = proc[Other(p)],
           UNCHANGED <<day, breaker, posted>>, spoilt'.count = spoilt.count
    PROVE  CapInv'
BY QuietKeepsCap DEF Alike

LEMMA ServerKeepsCap == TypeOK /\ CapInv /\ Server => CapInv'
<1> SUFFICES ASSUME TypeOK, CapInv, Server PROVE CapInv'
  OBVIOUS
<1>1. /\ "server" \in Process /\ Other("server") = "scheduler" /\ 0 <= day
      /\ proc["server"].on <= day
  BY DEF Process, Other, TypeOK, CapInv
<1>2. ASSUME NEW e \in Email, NEW s \in Slug, Subscribe(e, s) PROVE CapInv'
  BY <1>1, <1>2, SubscribeDoes, SoleKeepsCap
<1>3. CASE AddPending
  <2>1. proc'["server"].pc # "post" /\ proc'["server"].on <= day
    BY <1>1, <1>3, AddPendingDoes, IdleTyped
  <2> QED
    BY <1>1, <1>3, <2>1, AddPendingDoes, SoleKeepsCap
<1>4. ASSUME NEW op \in {"confirm", "unsubscribe", "renewed", "rearm"}, NEW r \in Row,
             NEW c \in 1..MaxCycle, Follow(op, r, c)
      PROVE  CapInv'
  <2>1. /\ proc'["server"].pc # "post" /\ proc'["server"].on <= day
        /\ proc'["scheduler"] = proc["scheduler"]
        /\ UNCHANGED <<day, breaker, posted, spoilt>>
    BY <1>1, <1>4, FollowDoes
  <2> QED
    BY <1>1, <2>1, SoleKeepsCap
<1> QED
  BY <1>2, <1>3, <1>4 DEF Server

LEMMA SchedulerKeepsCap == TypeOK /\ CapInv /\ Scheduler => CapInv'
<1> SUFFICES ASSUME TypeOK, CapInv, Scheduler PROVE CapInv'
  OBVIOUS
<1>1. /\ "scheduler" \in Process /\ Other("scheduler") = "server" /\ 0 <= day
      /\ proc["scheduler"].on <= day
  BY DEF Process, Other, TypeOK, CapInv
<1> DEFINE Short == /\ proc'["scheduler"].pc # "post" /\ proc'["scheduler"].on <= day
                    /\ proc'["server"] = proc["server"]
                    /\ UNCHANGED <<day, breaker, posted>> /\ spoilt'.count = spoilt.count
<1>2. Short => CapInv'
  BY <1>1, SoleKeepsCap
<1>3. CASE StartPass
  <2>1. CASE file.ok
    BY <1>1, <1>2, <1>3, <2>1, StartPassDoes
  <2>2. CASE ~file.ok
    BY <1>1, <1>2, <1>3, <2>2, StartPassDoes DEF At
  <2> QED
    BY <2>1, <2>2
<1>4. CASE Mark
  BY <1>1, <1>2, <1>4, MarkDoes, DoneStage
<1>5. CASE EndPass
  <2>1. proc'["scheduler"] = Idle /\ proc'["server"] = proc["server"]
    BY <1>1, <1>5, EndPassDoes, OneMoves
  <2> QED
    BY <1>1, <1>2, <1>5, <2>1, EndPassDoes, IdleTyped
<1>6. ASSUME NEW r \in Row, SkipRow(r) PROVE CapInv'
  BY <1>1, <1>2, <1>6 DEF SkipRow, Turn, At, mails
<1>7. ASSUME NEW r \in Row, DueRow(r) PROVE CapInv'
  BY <1>1, <1>2, <1>7, DueRowDoes
<1> QED
  BY <1>3, <1>4, <1>5, <1>6, <1>7 DEF Scheduler

\* A check that lets the mail go has read the count.
LEMMA CheckKeepsCap ==
    ASSUME TypeOK, CapInv, NEW p \in Process, Check(p)
    PROVE  CapInv'
<1>1. \A q \in Process : q = p \/ q = Other(p)
  BY DEF Process, Other
<1>2. UNCHANGED SentToday /\ 0 <= day
  BY CheckDoes DEF SentToday, TypeOK
<1>3. Other(p) \in Process /\ proc'[Other(p)] = proc[Other(p)]
  BY CheckDoes DEF Process, Other
<1>4. CASE proc'[p] = Done(p)
  <2>1. proc'[p].pc # "post" /\ proc'[p].on <= day
    BY <1>2, <1>4, DoneStage DEF Process
  <2> QED
    BY <1>3, <2>1, CheckDoes, SoleKeepsCap
<1>5. CASE proc'[p] # Done(p)
  <2>1. proc'[p].count = SentToday /\ proc'[p].on = day /\ SentToday < Cap
    BY <1>5, CheckDoes
  <2>2. UNCHANGED <<day, breaker, posted, spoilt>> /\ day \in Nat
    BY CheckDoes DEF TypeOK
  <2> QED
    BY <1>1, <1>2, <1>3, <2>1, <2>2 DEF CapInv, CountInv, At
<1> QED
  BY <1>4, <1>5

\* A mail that is counted while the count is good leaves a good count.
LEMMA PostKeepsCap ==
    ASSUME TypeOK, CapInv, NEW p \in Process, Post(p)
    PROVE  CapInv'
<1> DEFINE me == proc[p]
           q == Other(p)
<1>1. /\ \A k \in Process : k = p \/ k = q
      /\ q \in Process /\ me.on \in Nat /\ me.count \in Nat /\ day \in Nat /\ Cap \in Nat
      /\ me.on <= day
  BY ConstantAssumption DEF Process, Other, TypeOK, Activity, CapInv
<1>2. /\ breaker'.on = me.on /\ breaker'.count = me.count + 1 /\ posted' = posted + 1
      /\ day' = day /\ Alike(proc[q], proc'[q]) /\ At(p, "post")
      /\ At(q, "post") => proc'[q].miscount
  BY PostDoes
<1>3. proc'[p].on = 0 /\ proc'[p].pc # "post"
  BY PostDoes, IdleTyped
<1>4. \A k \in Process : proc'[k].on <= day'
  BY <1>1, <1>2, <1>3 DEF CapInv, Alike
<1>5. ASSUME ~spoilt'.count
      PROVE  posted' = SentToday' /\ posted' <= Cap
  <2>1. ~spoilt.count /\ ~me.miscount /\ me.on = day
    BY <1>5, PostDoes
  <2>2. me.count = SentToday /\ SentToday < Cap /\ posted = SentToday
    BY <1>2, <2>1 DEF CapInv, CountInv
  <2>3. SentToday' = me.count + 1
    BY <1>2, <2>1 DEF SentToday
  <2> QED
    BY <1>1, <1>2, <2>2, <2>3
<1>6. \A k \in Process : ~ (At(k, "post") /\ ~proc[k].miscount)'
  BY <1>1, <1>2, <1>3 DEF At, Alike
<1>7. CountInv'
  BY <1>5, <1>6 DEF CountInv
<1> QED
  BY <1>1, <1>2, <1>4, <1>7 DEF CapInv

LEMMA SharedKeepsCap == TypeOK /\ CapInv /\ Shared => CapInv'
<1> SUFFICES ASSUME TypeOK, CapInv, Shared PROVE CapInv'
  OBVIOUS
<1>1. PICK p \in Process : Truncate(p) \/ Write(p) \/ Check(p) \/ Post(p)
  BY DEF Shared
<1>2. proc[p].on <= day /\ 0 <= day
  BY DEF CapInv, TypeOK
<1>3. CASE Truncate(p)
  <2>1. /\ proc'[p].pc # "post" /\ proc'[p].on <= day /\ proc'[Other(p)] = proc[Other(p)]
        /\ UNCHANGED <<day, breaker, posted, spoilt>>
    BY <1>2, <1>3, TruncateDoes
  <2> QED
    BY <2>1, SoleKeepsCap
<1>4. CASE Write(p)
  <2>1. proc'[p].pc # "post" /\ proc'[p].on <= day
    BY <1>2, <1>4, WriteDoes, IdleTyped
  <2> QED
    BY <1>4, <2>1, WriteDoes, QuietKeepsCap
<1> QED
  BY <1>1, <1>3, <1>4, CheckKeepsCap, PostKeepsCap

LEMMA NextCap == TypeOK /\ CapInv /\ [Next]_vars => CapInv'
<1> SUFFICES ASSUME TypeOK, CapInv, [Next]_vars PROVE CapInv'
  OBVIOUS
<1>1. ASSUME NEW p \in Process, Kill(p) PROVE CapInv'
  <2>1. proc'[p] = Idle /\ proc'[Other(p)] = proc[Other(p)]
    BY <1>1, KillDoes, OneMoves
  <2>2. proc'[p].pc # "post" /\ proc'[p].on <= day
    BY <2>1, IdleTyped DEF TypeOK
  <2> QED
    BY <1>1, <2>1, <2>2, KillDoes, SoleKeepsCap
<1>2. CASE NextDay
  <2>1. /\ day' = day + 1 /\ posted' = 0 /\ UNCHANGED <<breaker, proc, spoilt>>
        /\ day \in Nat /\ breaker.on \in Nat /\ Cap \in Nat
    BY <1>2, ConstantAssumption DEF NextDay, TypeOK
  <2>2. breaker.on # day' /\ breaker.on <= day'
    BY <2>1 DEF CapInv
  <2>3. \A p \in Process : proc[p].on \in Nat /\ proc[p].on # day' /\ proc[p].on <= day'
    <3>1. \A p \in Process : proc[p] \in Activity /\ proc[p].on <= day
      BY DEF CapInv, TypeOK
    <3>2. \A p \in Process : proc[p].on \in Nat
      BY <3>1 DEF Activity
    <3> QED
      BY <2>1, <3>1, <3>2
  <2>4. SentToday' = 0
    BY <2>1, <2>2 DEF SentToday
  <2> QED
    BY <2>1, <2>2, <2>3, <2>4 DEF CapInv, CountInv, At
<1>3. CASE UNCHANGED vars
  BY <1>3 DEF vars, CapInv, CountInv, SentToday, At
<1> QED
  BY <1>1, <1>2, <1>3, ServerKeepsCap, SchedulerKeepsCap, SharedKeepsCap DEF Next

\* The breaker keeps the daily cap as long as the two processes never count at
\* once and no send straddles midnight (sender.py:110-126).
THEOREM BreakerKeepsCap == Spec => []CapHolds
<1>1. CapInv => CapHolds
  BY DEF CapInv, CountInv, CapHolds
<1> QED
  BY <1>1, InitCap, NextCap, PrototypeTypeCorrect, PTL DEF Spec

-----------------------------------------------------------------------------
(* Double opt-in.                                                          *)

\* A row that is confirmed, or was once, had its own link followed.
OptedIn(doc) ==
    \A r \in Row : doc[r].status = "confirmed" \/ doc[r].confirmed # 0 => r \in consent

\* So it is in every copy of the file, lost updates or not.
OptInv ==
    /\ OptedIn(file.rows) /\ pass.todo \subseteq consent
    /\ \A p \in Process : OptedIn(proc[p].doc)
    /\ proc["scheduler"].pc \notin {"idle", "next"} => proc["scheduler"].row \in consent

LEMMA NoRowsOptedIn == OptedIn(NoRows) /\ OptedIn(NoRows)'
BY DEF OptedIn, NoRows, NoRow

LEMMA InitOpt == Init => OptInv
<1> SUFFICES ASSUME Init PROVE OptInv
  OBVIOUS
<1>1. file.rows = NoRows /\ pass.todo = {} /\ \A p \in Process : proc[p] = Idle
  BY IdleTyped DEF Init
<1>2. "scheduler" \in Process
  BY DEF Process
<1> QED
  BY <1>1, <1>2, NoRowsOptedIn, IdleTyped DEF OptInv

\* A step keeps it if it hands on copies that have it.
LEMMA CopiesOptedIn ==
    ASSUME TypeOK, OptInv, consent \subseteq consent', NEW p \in Process,
           OptedIn(file.rows)', pass'.todo \subseteq consent', OptedIn(proc[p].doc)',
           Alike(proc[Other(p)], proc'[Other(p)]),
           p = "scheduler" /\ proc'[p].pc \notin {"idle", "next"} => proc'[p].row \in consent'
    PROVE  OptInv'
<1>1. \A q \in Process : q = p \/ q = Other(p)
  BY DEF Process, Other
<1>2. \A q \in Process : OptedIn(proc[q].doc)'
  <2>1. ASSUME NEW q \in Process, q = Other(p) PROVE OptedIn(proc[q].doc)'
    <3>1. OptedIn(proc[q].doc) /\ proc'[q].doc = proc[q].doc
      BY <2>1 DEF OptInv, Alike
    <3> QED
      BY <3>1 DEF OptedIn
  <2> QED
    BY <1>1, <2>1
<1>3. p = "server" => (proc'["scheduler"].pc \notin {"idle", "next"}
                          => proc'["scheduler"].row \in consent')
  BY DEF Other, Alike, OptInv
<1> QED
  BY <1>2, <1>3 DEF OptInv, Process

LEMMA ServerKeepsOpt == TypeOK /\ OptInv /\ Server => OptInv'
<1> SUFFICES ASSUME TypeOK, OptInv, Server PROVE OptInv'
  OBVIOUS
<1>1. "server" \in Process /\ Other("server") = "scheduler" /\ "server" # "scheduler"
  BY DEF Process, Other
<1>2. OptedIn(file.rows) /\ pass.todo \subseteq consent
  BY DEF OptInv
<1>3. ASSUME consent \subseteq consent', file' = file, pass' = pass,
             OptedIn(proc["server"].doc)', proc'["scheduler"] = proc["scheduler"]
      PROVE  OptInv'
  <2>1. OptedIn(file.rows)' /\ pass'.todo \subseteq consent'
    BY <1>2, <1>3 DEF OptedIn
  <2> QED
    BY <1>1, <1>3, <2>1, CopiesOptedIn DEF Alike
<1>4. ASSUME NEW e \in Email, NEW s \in Slug, Subscribe(e, s) PROVE OptInv'
  BY <1>3, <1>4, SubscribeDoes, NoRowsOptedIn DEF OptedIn
<1>5. CASE AddPending
  <2>1. CASE file.ok
    <3> DEFINE x == Pending(proc["server"].who, proc["server"].where)
               doc == [file.rows EXCEPT ![issued + 1] = x]
    <3>1. x.status = "pending" /\ x.confirmed = 0
      BY DEF Pending
    <3> HIDE DEF x
    <3>2. \A r \in Row : doc[r] = x \/ doc[r] = file.rows[r]
      BY DEF TypeOK, Document
    <3> HIDE DEF doc
    <3>3. OptedIn(doc)
      BY <1>2, <3>1, <3>2 DEF OptedIn
    <3>4. proc'["server"].doc = doc /\ consent' = consent
      BY <1>5, <2>1, AddPendingDoes DEF doc, x
    <3>5. OptedIn(proc["server"].doc)'
      BY <3>3, <3>4 DEF OptedIn
    <3> QED
      BY <1>3, <1>5, <3>5, AddPendingDoes
  <2>2. CASE ~file.ok
    <3>1. proc'["server"] = Idle /\ consent' = consent
      BY <1>5, <2>2, AddPendingDoes
    <3>2. OptedIn(proc["server"].doc)'
      BY <3>1, IdleTyped, NoRowsOptedIn DEF OptedIn
    <3> QED
      BY <1>3, <1>5, <3>2, AddPendingDoes
  <2> QED
    BY <2>1, <2>2
<1>6. ASSUME NEW op \in {"confirm", "unsubscribe", "renewed", "rearm"}, NEW r \in Row,
             NEW c \in 1..MaxCycle, Follow(op, r, c)
      PROVE  OptInv'
  <2> DEFINE x == file.rows[r]
             y == Served(op, x, requests')
             doc == [file.rows EXCEPT ![r] = y]
  <2>1. x \in Signup /\ requests' \in Nat /\ Honoured(op, x, c)
    <3>1. x \in Signup /\ requests' = requests + 1 /\ Honoured(op, x, c)
      BY <1>6, FollowDoes
    <3> QED
      BY <3>1 DEF TypeOK
  <2>2. /\ consent' = IF op = "confirm" THEN consent \cup {r} ELSE consent
        /\ proc'["server"].doc = doc /\ file' = file /\ pass' = pass
        /\ proc'["scheduler"] = proc["scheduler"]
    BY <1>6, FollowDoes
  <2>3. op # "confirm" => y.confirmed = x.confirmed /\ (y.status = "confirmed" => op = "rearm")
    <3> HIDE DEF x
    <3> QED
      BY <2>1, ConfirmedBy
  <2>4. op = "rearm" => x.confirmed # 0
    BY <2>1 DEF Honoured, OnceConfirmed
  <2>5. \A k \in Row : doc[k] = IF k = r THEN y ELSE file.rows[k]
    BY DEF TypeOK, Document
  <2> HIDE DEF y, doc
  <2>6. r \in consent' \/ (y.status # "confirmed" /\ y.confirmed = 0)
    BY <1>2, <2>2, <2>3, <2>4 DEF OptedIn
  <2>7. OptedIn(proc["server"].doc)'
    BY <1>2, <2>2, <2>5, <2>6 DEF OptedIn
  <2> QED
    BY <1>3, <2>2, <2>7
<1> QED
  BY <1>4, <1>5, <1>6 DEF Server

LEMMA SchedulerKeepsOpt == TypeOK /\ OptInv /\ Scheduler => OptInv'
<1> SUFFICES ASSUME TypeOK, OptInv, Scheduler PROVE OptInv'
  OBVIOUS
<1>1. "scheduler" \in Process /\ Other("scheduler") = "server"
  BY DEF Process, Other
<1>2. OptedIn(file.rows) /\ pass.todo \subseteq consent /\ OptedIn(proc["scheduler"].doc)
  BY <1>1 DEF OptInv
<1>3. ASSUME consent' = consent, file' = file, pass'.todo \subseteq consent,
             OptedIn(proc["scheduler"].doc)', proc'["server"] = proc["server"],
             proc'["scheduler"].pc \notin {"idle", "next"} => proc'["scheduler"].row \in consent'
      PROVE  OptInv'
  <2>1. OptedIn(file.rows)'
    BY <1>2, <1>3 DEF OptedIn
  <2> QED
    BY <1>1, <1>3, <2>1, CopiesOptedIn DEF Alike
<1>4. CASE StartPass
  <2>1. CASE file.ok
    <3>2. pass'.todo \subseteq consent
      BY <1>2, <1>4, <2>1, StartPassDoes DEF OptedIn
    <3>3. OptedIn(proc["scheduler"].doc)'
      BY <1>4, <2>1, StartPassDoes, NoRowsOptedIn DEF OptedIn
    <3> QED
      BY <1>3, <1>4, <2>1, <3>2, <3>3, StartPassDoes
  <2>2. CASE ~file.ok
    <3>1. UNCHANGED <<pass, proc, consent, file>>
      BY <1>4, <2>2, StartPassDoes
    <3> QED
      BY <3>1 DEF OptInv, OptedIn
  <2> QED
    BY <2>1, <2>2
<1>5. CASE Mark
  <2>1. UNCHANGED <<pass, consent, file>> /\ proc'["server"] = proc["server"]
    BY <1>5, MarkDoes
  <2>2. pass'.todo \subseteq consent
    BY <1>2, <2>1
  <2>3. CASE file.rows[proc["scheduler"].row].status = "none"
    <3>1. proc'["scheduler"] = Done("scheduler")
      BY <1>5, <2>3, MarkDoes
    <3>2. proc'["scheduler"].doc = NoRows /\ proc'["scheduler"].pc = "next"
      BY <1>1, <3>1, DoneStage
    <3> QED
      BY <1>3, <2>1, <2>2, <3>2, NoRowsOptedIn DEF OptedIn
  <2>4. CASE file.rows[proc["scheduler"].row].status # "none"
    <3> DEFINE me == proc["scheduler"]
               a == proc'["scheduler"]
    <3>1. /\ a.row = me.row /\ file.rows[me.row] \in Signup /\ me.pc = "mark"
          /\ \A k \in Row \ {me.row} : a.doc[k] = file.rows[k]
          /\ a.doc[me.row] = [file.rows[me.row] EXCEPT !.sent = @ \cup {me.tier}]
      BY <1>5, <2>4, MarkDoes DEF At
    <3>2. /\ a.doc[me.row].status = file.rows[me.row].status
          /\ a.doc[me.row].confirmed = file.rows[me.row].confirmed
      BY <3>1 DEF Signup
    <3>3. \A k \in Row : /\ a.doc[k].status = file.rows[k].status
                         /\ a.doc[k].confirmed = file.rows[k].confirmed
      BY <3>1, <3>2
    <3>4. OptedIn(proc["scheduler"].doc)'
      BY <1>2, <2>1, <3>3 DEF OptedIn
    <3>5. me.row \in consent
      BY <3>1 DEF OptInv
    <3> QED
      BY <1>3, <2>1, <2>2, <3>1, <3>4, <3>5
  <2> QED
    BY <2>3, <2>4
<1>6. CASE EndPass
  <2>1. /\ proc'["scheduler"] = Idle /\ proc'["server"] = proc["server"] /\ pass' = NoPass
        /\ consent' = consent /\ file' = file
    BY <1>1, <1>6, EndPassDoes, OneMoves
  <2>2. pass'.todo = {} /\ proc'["scheduler"].doc = NoRows
        /\ proc'["scheduler"].pc = "idle"
    BY <2>1, IdleTyped
  <2> QED
    BY <1>3, <2>1, <2>2, NoRowsOptedIn DEF OptedIn
<1>7. ASSUME NEW r \in Row, Turn(r) PROVE pass'.todo \subseteq consent /\ r \in consent
  BY <1>2, <1>7, TurnDoes
<1>8. ASSUME NEW r \in Row, SkipRow(r) PROVE OptInv'
  <2>1. Turn(r) /\ UNCHANGED <<file, proc, consent>>
    BY <1>8 DEF SkipRow, mails
  <2>2. OptedIn(proc["scheduler"].doc)'
    BY <1>2, <2>1 DEF OptedIn
  <2>3. proc["scheduler"].pc = "next"
    BY <2>1 DEF Turn, At
  <2> QED
    BY <1>3, <1>7, <2>1, <2>2, <2>3
<1>9. ASSUME NEW r \in Row, DueRow(r) PROVE OptInv'
  <2>1. /\ Turn(r) /\ UNCHANGED <<file, consent>> /\ proc'["server"] = proc["server"]
        /\ proc'["scheduler"].row = r /\ proc'["scheduler"].doc = NoRows
    BY <1>9, DueRowDoes
  <2> QED
    BY <1>3, <1>7, <2>1, NoRowsOptedIn DEF OptedIn
<1> QED
  BY <1>4, <1>5, <1>6, <1>8, <1>9 DEF Scheduler

LEMMA SharedKeepsOpt == TypeOK /\ OptInv /\ Shared => OptInv'
<1> SUFFICES ASSUME TypeOK, OptInv, Shared PROVE OptInv'
  OBVIOUS
<1>1. PICK p \in Process : Truncate(p) \/ Write(p) \/ Check(p) \/ Post(p)
  BY DEF Shared
<1>2. OptedIn(file.rows) /\ pass.todo \subseteq consent /\ OptedIn(proc[p].doc)
  BY DEF OptInv
<1>3. p = "scheduler" /\ proc[p].pc \notin {"idle", "next"} => proc[p].row \in consent
  BY DEF OptInv
<1>4. CASE Truncate(p)
  <2>1. /\ UNCHANGED <<consent, pass>> /\ file'.rows = NoRows
        /\ proc'[Other(p)] = proc[Other(p)] /\ proc'[p].doc = proc[p].doc
        /\ proc'[p].row = proc[p].row /\ proc[p].pc = "truncate"
    BY <1>4, TruncateDoes DEF At
  <2>2. OptedIn(file.rows)' /\ OptedIn(proc[p].doc)'
    BY <1>2, <2>1, NoRowsOptedIn DEF OptedIn
  <2> QED
    BY <1>2, <1>3, <2>1, <2>2, CopiesOptedIn DEF Alike
<1>5. CASE Write(p)
  <2>1. /\ UNCHANGED <<consent, pass>> /\ file'.rows \in {NoRows, proc[p].doc}
        /\ Alike(proc[Other(p)], proc'[Other(p)])
        /\ p = "scheduler" => proc'[p].pc = "next"
    BY <1>5, WriteDoes
  <2>2. proc'[p].doc = NoRows
    BY <1>5, WriteDoes, IdleTyped
  <2>3. OptedIn(file.rows)' /\ OptedIn(proc[p].doc)'
    BY <1>2, <2>1, <2>2, NoRowsOptedIn DEF OptedIn
  <2> QED
    BY <1>2, <2>1, <2>3, CopiesOptedIn
<1>6. CASE Check(p)
  <2>1. /\ UNCHANGED <<consent, pass, file>> /\ proc'[Other(p)] = proc[Other(p)]
        /\ proc[p].pc = "mail"
    BY <1>6, CheckDoes DEF At
  <2>2. /\ proc'[p].doc \in {NoRows, proc[p].doc}
        /\ p = "scheduler" => proc'[p].pc = "next" \/ proc'[p].row = proc[p].row
    BY <1>6, CheckDoes, DoneStage
  <2>3. OptedIn(file.rows)' /\ OptedIn(proc[p].doc)'
    BY <1>2, <2>1, <2>2, NoRowsOptedIn DEF OptedIn
  <2> QED
    BY <1>2, <1>3, <2>1, <2>2, <2>3, CopiesOptedIn DEF Alike
<1>7. CASE Post(p)
  <2>1. /\ UNCHANGED <<consent, pass, file>> /\ Alike(proc[Other(p)], proc'[Other(p)])
        /\ proc[p].pc = "post"
    BY <1>7, PostDoes DEF At
  <2>2. /\ proc'[p].doc \in {NoRows, proc[p].doc}
        /\ p = "scheduler" => proc'[p].row = proc[p].row
    BY <1>7, PostDoes, IdleTyped
  <2>3. OptedIn(file.rows)' /\ OptedIn(proc[p].doc)'
    BY <1>2, <2>1, <2>2, NoRowsOptedIn DEF OptedIn
  <2> QED
    BY <1>2, <1>3, <2>1, <2>2, <2>3, CopiesOptedIn
<1> QED
  BY <1>1, <1>4, <1>5, <1>6, <1>7

LEMMA NextOpt == TypeOK /\ OptInv /\ [Next]_vars => OptInv'
<1> SUFFICES ASSUME TypeOK, OptInv, [Next]_vars PROVE OptInv'
  OBVIOUS
<1>1. ASSUME NEW p \in Process, Kill(p) PROVE OptInv'
  <2>1. proc'[p] = Idle /\ proc'[Other(p)] = proc[Other(p)]
    BY <1>1, KillDoes, OneMoves
  <2>2. UNCHANGED <<file, consent>> /\ pass'.todo \subseteq pass.todo
    BY <1>1, KillDoes, IdleTyped
  <2>3. OptedIn(file.rows)' /\ OptedIn(proc[p].doc)'
    BY <2>1, <2>2, IdleTyped, NoRowsOptedIn DEF OptInv, OptedIn
  <2>4. pass'.todo \subseteq consent /\ proc'[p].pc = "idle"
    BY <2>1, <2>2, IdleTyped DEF OptInv
  <2> QED
    BY <2>1, <2>2, <2>3, <2>4, CopiesOptedIn DEF Alike
<1>2. CASE NextDay
  BY <1>2 DEF NextDay, OptInv, OptedIn
<1>3. CASE UNCHANGED vars
  BY <1>3 DEF vars, OptInv, OptedIn
<1> QED
  BY <1>1, <1>2, <1>3, ServerKeepsOpt, SchedulerKeepsOpt, SharedKeepsOpt DEF Next

\* A reminder only ever goes to a row whose own confirm link was followed,
\* whatever links of it are followed before and whatever updates are lost
\* (store.py:260-288).
THEOREM OnlyOptedInIsReminded == Spec => DoubleOptIn
<1>1. OptInv /\ [Next]_vars => [\A r \in Row : Reminding(r) => r \in consent]_vars
  BY DEF OptInv, Reminding, At
<1> QED
  BY <1>1, InitOpt, NextOpt, PrototypeTypeCorrect, PTL DEF Spec, DoubleOptIn

-----------------------------------------------------------------------------
(* Rows, and the copies of them that processes work on.                    *)

\* Rows that were never issued are nowhere, and nothing was confirmed later
\* than the last request.
Numbered(doc) ==
    \A r \in Row : /\ r > issued => doc[r] = NoRow
                   /\ doc[r].confirmed <= requests

\* While the file can be read, a copy that nobody overtook has yet to be
\* written, and puts no record back to an earlier cycle.
Based(p) ==
    Sound(p) /\ file.ok => /\ At(p, "truncate")
                           /\ \A r \in Row : file.rows[r].cycle <= proc[p].doc[r].cycle

FileInv ==
    /\ Numbered(file.rows)
    /\ \A p \in Process : Numbered(proc[p].doc) /\ Based(p)

LEMMA NoRowIs ==
    /\ NoRow.status = "none" /\ NoRow.cycle = 0 /\ NoRow.confirmed = 0 /\ NoRow.made = 0
    /\ NoRow.reason = "none" /\ NoRow.email = "" /\ NoRow.sent = {}
BY DEF NoRow

LEMMA DocumentRows ==
    ASSUME NEW d \in Document, NEW r \in Row
    PROVE  /\ d[r].cycle \in Nat /\ d[r].confirmed \in Nat
           /\ d[r].status # "none" <=> d[r] \in Signup
           /\ d[r] \in Signup => 1 <= d[r].cycle
           /\ d[r] \notin Signup => d[r].cycle = 0
<1>1. CASE d[r] \in Signup
  BY <1>1 DEF Signup
<1>2. CASE d[r] \notin Signup
  <2>1. d[r] = NoRow
    BY <1>2 DEF Document
  <2>2. d[r].status = "none" /\ d[r].cycle = 0 /\ d[r].confirmed = 0
    BY <2>1, NoRowIs
  <2> QED
    BY <1>2, <2>2
<1> QED
  BY <1>1, <1>2

LEMMA NoRowsNumbered ==
    ASSUME TypeOK
    PROVE  Numbered(NoRows) /\ (requests' \in Nat => Numbered(NoRows)')
<1>1. \A r \in Row : NoRows[r] = NoRow /\ NoRow.confirmed = 0
  BY DEF NoRows, NoRow
<1>2. requests \in Nat
  BY DEF TypeOK
<1> QED
  BY <1>1, <1>2 DEF Numbered, NoRows

LEMMA InitFile == Init => FileInv
<1> SUFFICES ASSUME Init PROVE FileInv
  OBVIOUS
<1>1. Numbered(NoRows)
  BY InitTyped, NoRowsNumbered
<1>2. file.rows = NoRows /\ \A p \in Process : proc[p] = Idle
  BY DEF Init
<1> QED
  BY <1>1, <1>2, IdleTyped DEF FileInv, Based, Sound, Saving, At

\* A step of one process keeps it if its own copy and the file are right.
LEMMA CopiesNumbered ==
    ASSUME TypeOK, TypeOK', FileInv, issued <= issued', requests <= requests',
           NEW p \in Process, Numbered(file.rows)', Numbered(proc[p].doc)', Based(p)',
           Alike(proc[Other(p)], proc'[Other(p)]),
           Sound(Other(p))' => Sound(Other(p)) /\ (file' = file \/ ~file'.ok)
    PROVE  FileInv'
<1> DEFINE q == Other(p)
<1>1. (\A k \in Process : k = p \/ k = q) /\ q \in Process
  BY DEF Process, Other
<1>2. Numbered(proc[q].doc) /\ Based(q) /\ proc'[q].doc = proc[q].doc /\ proc'[q].pc = proc[q].pc
  BY <1>1 DEF FileInv, Alike
<1>3. Numbered(proc[q].doc)'
  <2>1. \A r \in Row : r \in Nat /\ proc[q].doc[r].confirmed \in Nat
    <3>1. proc[q].doc \in Document
      BY <1>1 DEF TypeOK, Activity
    <3> QED
      BY <3>1, DocumentRows DEF Row
  <2>2. issued \in Nat /\ issued' \in Nat /\ requests \in Nat /\ requests' \in Nat
    BY DEF TypeOK
  <2> QED
    BY <1>2, <2>1, <2>2 DEF Numbered
<1>4. Based(q)'
  BY <1>2 DEF Based, At
<1> QED
  BY <1>1, <1>3, <1>4 DEF FileInv

\* The file as it was is still right.
LEMMA FileStillNumbered ==
    ASSUME TypeOK, TypeOK', FileInv, issued <= issued', requests <= requests', file' = file
    PROVE  Numbered(file.rows)'
<1>1. \A r \in Row : r \in Nat /\ file.rows[r].confirmed \in Nat
  <2>1. file.rows \in Document
    BY DEF TypeOK
  <2> QED
    BY <2>1, DocumentRows DEF Row
<1>2. issued \in Nat /\ issued' \in Nat /\ requests \in Nat /\ requests' \in Nat
  BY DEF TypeOK
<1> QED
  BY <1>1, <1>2 DEF FileInv, Numbered

\* A step that ends with no copy of the file, or with the copy it had.
LEMMA SameCopyNumbered ==
    ASSUME TypeOK, TypeOK', FileInv, UNCHANGED <<issued, requests>>, NEW p \in Process,
           \/ ~Sound(p)' /\ proc'[p].doc \in {NoRows, proc[p].doc}
           \/ proc'[p].doc = proc[p].doc /\ ~file'.ok,
           file' = file \/ (~file'.ok /\ file'.rows = NoRows),
           Alike(proc[Other(p)], proc'[Other(p)]),
           Sound(Other(p))' => Sound(Other(p))
    PROVE  FileInv'
<1>1. Numbered(proc[p].doc) /\ requests' \in Nat
  BY DEF FileInv, TypeOK
<1>2. Numbered(proc[p].doc)'
  BY <1>1, NoRowsNumbered DEF Numbered
<1>3. Numbered(file.rows)'
  <2>1. CASE file' = file
    BY <2>1 DEF FileInv, Numbered
  <2>2. CASE file'.rows = NoRows
    BY <1>1, <2>2, NoRowsNumbered DEF Numbered
  <2> QED
    BY <2>1, <2>2
<1>4. Based(p)'
  BY DEF Based
<1>5. issued <= issued' /\ requests <= requests'
  BY DEF TypeOK
<1> QED
  BY <1>2, <1>3, <1>4, <1>5, CopiesNumbered

LEMMA ServerKeepsFile == TypeOK /\ TypeOK' /\ FileInv /\ Server => FileInv'
<1> SUFFICES ASSUME TypeOK, TypeOK', FileInv, Server PROVE FileInv'
  OBVIOUS
<1>1. "server" \in Process /\ Other("server") = "scheduler"
  BY DEF Process, Other
<1>2. requests \in Nat /\ issued \in Nat /\ file.rows \in Document /\ Numbered(file.rows)
  BY DEF TypeOK, FileInv
<1>3. ASSUME issued <= issued', requests <= requests', file' = file, Numbered(proc["server"].doc)',
             Based("server")', proc'["scheduler"] = proc["scheduler"]
      PROVE  FileInv'
  BY <1>1, <1>3, FileStillNumbered, CopiesNumbered DEF Alike, Sound, Saving, At
<1>4. ASSUME NEW e \in Email, NEW s \in Slug, Subscribe(e, s) PROVE FileInv'
  <2>1. /\ proc'["server"].doc = NoRows /\ proc'["server"].pc = "add" /\ file' = file
        /\ proc'["scheduler"] = proc["scheduler"] /\ requests' = requests + 1
        /\ issued' = issued
    BY <1>4, SubscribeDoes
  <2>2. Numbered(proc["server"].doc)'
    BY <1>2, <2>1, NoRowsNumbered DEF Numbered
  <2>3. Based("server")'
    BY <2>1 DEF Based, Sound, Saving, At
  <2> QED
    BY <1>2, <1>3, <2>1, <2>2, <2>3
<1>5. CASE AddPending
  <2>1. /\ UNCHANGED <<requests, file>> /\ proc'["scheduler"] = proc["scheduler"]
        /\ issued' = issued \/ issued' = issued + 1
    BY <1>5, AddPendingDoes
  <2>2. CASE file.ok
    <3> DEFINE x == Pending(proc["server"].who, proc["server"].where)
               n == issued + 1
               doc == [file.rows EXCEPT ![n] = x]
    <3>1. /\ x \in Signup /\ n \in Row /\ issued' = n /\ proc'["server"].doc = doc
          /\ proc'["server"].pc = "truncate"
      BY <1>5, <2>2, AddPendingDoes
    <3>2. x.cycle = 1 /\ x.confirmed = 0
      BY DEF Pending
    <3>3. \A r \in Row : doc[r] = IF r = n THEN x ELSE file.rows[r]
      BY <1>2 DEF Document
    <3>4. \A r \in Row : r \in Nat /\ file.rows[r].cycle \in Nat
      BY <1>2, DocumentRows DEF Row
    <3>5. n > issued /\ n \in Nat
      BY <1>2
    <3> HIDE DEF doc, x, n
    <3>6. file.rows[n] = NoRow /\ file.rows[n].cycle = 0
      BY <1>2, <3>1, <3>5, NoRowIs DEF Numbered
    <3>7. Numbered(proc["server"].doc)'
      BY <1>2, <2>1, <3>1, <3>2, <3>3, <3>4, <3>5 DEF Numbered
    <3>8. Based("server")'
      BY <2>1, <3>1, <3>2, <3>3, <3>4, <3>6 DEF Based, At
    <3>9. issued <= issued' /\ requests <= requests'
      BY <1>2, <2>1, <3>1, <3>5
    <3> QED
      BY <1>3, <2>1, <3>7, <3>8, <3>9
  <2>3. CASE ~file.ok
    <3>1. proc'["server"] = Idle /\ issued' = issued
      BY <1>5, <2>3, AddPendingDoes
    <3>2. Numbered(proc["server"].doc)'
      BY <1>2, <2>1, <3>1, IdleTyped, NoRowsNumbered DEF Numbered
    <3>3. Based("server")'
      BY <3>1, IdleTyped DEF Based, Sound, Saving, At
    <3> QED
      BY <1>2, <1>3, <2>1, <3>1, <3>2, <3>3
  <2> QED
    BY <2>2, <2>3
<1>6. ASSUME NEW op \in {"confirm", "unsubscribe", "renewed", "rearm"}, NEW r \in Row,
             NEW c \in 1..MaxCycle, Follow(op, r, c)
      PROVE  FileInv'
  <2> DEFINE x == file.rows[r]
             t == requests + 1
             y == Served(op, x, t)
             doc == [file.rows EXCEPT ![r] = y]
  <2>1. /\ x \in Signup /\ r <= issued /\ requests' = t /\ issued' = issued /\ file' = file
        /\ proc'["server"].doc = doc /\ proc'["server"].pc = "truncate"
        /\ proc'["scheduler"] = proc["scheduler"]
    BY <1>6, FollowDoes
  <2>2. t \in Nat /\ requests <= t
    BY <1>2
  <2>3. x.cycle \in Nat /\ x.confirmed \in Nat /\ x.confirmed <= requests
    BY <1>2, DocumentRows DEF FileInv, Numbered
  <2>4. \A k \in Row : doc[k] = IF k = r THEN y ELSE file.rows[k]
    BY <1>2 DEF Document
  <2>5. \A k \in Row : k \in Nat /\ file.rows[k].cycle \in Nat /\ file.rows[k].confirmed \in Nat
    BY <1>2, DocumentRows DEF Row
  <2> HIDE DEF t, x
  <2>6. x.cycle <= y.cycle
    <3>1. y.cycle = x.cycle \/ y.cycle = x.cycle + 1
      BY <2>1, <2>2, ServedTyped
    <3> QED
      BY <2>3, <3>1
  <2>7. y.confirmed = x.confirmed \/ y.confirmed = t
    <3>1. CASE op = "confirm"
      <4>1. y = Served("confirm", x, t)
        BY <3>1
      <4> HIDE DEF y
      <4> QED
        BY <2>1, <2>2, <4>1, ConfirmServed
    <3>2. CASE op # "confirm"
      BY <2>1, <2>2, <3>2, ConfirmedBy
    <3> QED
      BY <3>1, <3>2
  <2> HIDE DEF y, doc
  <2>8. Numbered(proc["server"].doc)'
    <3>1. \A k \in Row : k > issued => doc[k] = NoRow
      BY <1>2, <2>1, <2>4, <2>5 DEF FileInv, Numbered
    <3>2. \A k \in Row : doc[k].confirmed <= t
      BY <1>2, <2>2, <2>3, <2>4, <2>5, <2>7 DEF FileInv, Numbered, x
    <3> QED
      BY <2>1, <3>1, <3>2 DEF Numbered
  <2>9. Based("server")'
    BY <2>1, <2>4, <2>5, <2>6 DEF Based, At, x
  <2>10. issued <= issued' /\ requests <= requests'
    BY <1>2, <2>1, <2>2
  <2> QED
    BY <1>3, <2>1, <2>8, <2>9, <2>10
<1> QED
  BY <1>4, <1>5, <1>6 DEF Server

LEMMA MarkKeepsFile ==
    ASSUME TypeOK, TypeOK', FileInv, Mark
    PROVE  FileInv'
<1> DEFINE me == proc["scheduler"]
           a == proc'["scheduler"]
<1>1. /\ "scheduler" \in Process /\ Other("scheduler") = "server"
      /\ UNCHANGED <<issued, requests, file>> /\ proc'["server"] = proc["server"]
  BY MarkDoes DEF Process, Other
<1>2. CASE file.rows[me.row].status = "none"
  <2>1. a = Done("scheduler")
    BY <1>2, MarkDoes
  <2>2. ~Sound("scheduler")' /\ a.doc = NoRows
    BY <1>1, <2>1, DoneStage DEF Sound, Saving, At
  <2> QED
    BY <1>1, <2>2, SameCopyNumbered DEF Alike, Sound, Saving, At
<1>3. CASE file.rows[me.row].status # "none"
  <2>1. /\ a.pc = "truncate" /\ file.rows[me.row] \in Signup
        /\ \A k \in Row \ {me.row} : a.doc[k] = file.rows[k]
        /\ a.doc[me.row] = [file.rows[me.row] EXCEPT !.sent = @ \cup {me.tier}]
    BY <1>3, MarkDoes
  <2>2. /\ a.doc[me.row].cycle = file.rows[me.row].cycle
        /\ a.doc[me.row].confirmed = file.rows[me.row].confirmed
    BY <2>1 DEF Signup
  <2>3. Numbered(file.rows) /\ file.rows \in Document /\ requests \in Nat /\ issued \in Nat
    BY DEF FileInv, TypeOK
  <2>4. me.row \in Row => ~(me.row > issued)
    BY <1>3, <2>3, NoRowIs DEF Numbered
  <2>5. \A k \in Row : /\ file.rows[k].cycle \in Nat
                       /\ a.doc[k].cycle = file.rows[k].cycle
                       /\ a.doc[k].confirmed = file.rows[k].confirmed
                       /\ k > issued => a.doc[k] = file.rows[k]
    BY <2>1, <2>2, <2>3, <2>4, DocumentRows
  <2>6. Numbered(proc["scheduler"].doc)'
    BY <1>1, <2>3, <2>5 DEF Numbered
  <2>7. Based("scheduler")'
    BY <1>1, <2>1, <2>5 DEF Based, At
  <2>8. issued <= issued' /\ requests <= requests'
    BY <1>1, <2>3
  <2> QED
    BY <1>1, <2>6, <2>7, <2>8, FileStillNumbered, CopiesNumbered DEF Alike, Sound, Saving, At
<1> QED
  BY <1>2, <1>3

\* The other steps of a process hand on the copy it had, or none.
LEMMA SchedulerKeepsFile == TypeOK /\ TypeOK' /\ FileInv /\ Scheduler => FileInv'
<1> SUFFICES ASSUME TypeOK, TypeOK', FileInv, Scheduler PROVE FileInv'
  OBVIOUS
<1>1. "scheduler" \in Process /\ Other("scheduler") = "server"
  BY DEF Process, Other
<1>2. ASSUME UNCHANGED <<issued, requests, file>>, proc'["server"] = proc["server"],
             proc'["scheduler"].pc \in {"next", "idle", "mail"},
             proc'["scheduler"].doc \in {NoRows, proc["scheduler"].doc}
      PROVE  FileInv'
  <2>1. ~Sound("scheduler")'
    BY <1>2 DEF Sound, Saving, At
  <2> QED
    BY <1>1, <1>2, <2>1, SameCopyNumbered DEF Alike, Sound, Saving, At
<1>3. CASE StartPass
  BY <1>2, <1>3, StartPassDoes DEF At
<1>4. CASE EndPass
  <2>1. proc'["scheduler"] = Idle /\ proc'["server"] = proc["server"]
    BY <1>1, <1>4, EndPassDoes, OneMoves
  <2> QED
    BY <1>2, <1>4, <2>1, EndPassDoes, IdleTyped
<1>5. ASSUME NEW r \in Row, SkipRow(r) PROVE FileInv'
  BY <1>2, <1>5 DEF SkipRow, Turn, At
<1>6. ASSUME NEW r \in Row, DueRow(r) PROVE FileInv'
  BY <1>2, <1>6, DueRowDoes
<1> QED
  BY <1>3, <1>4, <1>5, <1>6, MarkKeepsFile DEF Scheduler

LEMMA SharedKeepsFile == TypeOK /\ TypeOK' /\ FileInv /\ Shared => FileInv'
<1> SUFFICES ASSUME TypeOK, TypeOK', FileInv, Shared PROVE FileInv'
  OBVIOUS
<1>1. PICK p \in Process : Truncate(p) \/ Write(p) \/ Check(p) \/ Post(p)
  BY DEF Shared
<1>2. Other(p) \in Process /\ Other(p) # p
  BY DEF Process, Other
<1>3. CASE Truncate(p)
  <2>1. Sound(Other(p))' => Sound(Other(p))
    BY <1>3, TruncateDoes DEF Sound, Saving, At
  <2> QED
    BY <1>3, <2>1, TruncateDoes, SameCopyNumbered DEF Alike
<1>4. CASE Write(p)
  <2>1. /\ Alike(proc[Other(p)], proc'[Other(p)]) /\ UNCHANGED <<issued, requests>>
        /\ file'.rows = proc[p].doc \/ file'.rows = NoRows
    BY <1>4, WriteDoes
  <2>2. proc'[p].doc = NoRows /\ proc'[p].pc \in {"mail", "idle", "next"}
    BY <1>4, WriteDoes, IdleTyped
  <2>3. ~Sound(Other(p))'
    BY <1>4, WriteDoes DEF Sound, Saving, At, Alike
  <2>4. Numbered(proc[p].doc) /\ Numbered(NoRows) /\ Numbered(NoRows)'
    BY NoRowsNumbered DEF FileInv, TypeOK
  <2>5. Numbered(file.rows)' /\ Numbered(proc[p].doc)'
    BY <2>1, <2>2, <2>4 DEF Numbered
  <2>6. Based(p)'
    BY <2>2 DEF Based, Sound, Saving, At
  <2>7. issued <= issued' /\ requests <= requests'
    BY <2>1 DEF TypeOK
  <2> QED
    BY <2>1, <2>3, <2>5, <2>6, <2>7, CopiesNumbered
<1>5. CASE Check(p)
  <2>1. /\ proc'[p].doc \in {NoRows, proc[p].doc} /\ proc'[p].pc \in {"idle", "next", "post"}
        /\ proc'[Other(p)] = proc[Other(p)] /\ UNCHANGED <<issued, requests, file>>
    BY <1>5, CheckDoes, DoneStage DEF Process
  <2>2. ~Sound(p)' /\ (Sound(Other(p))' => Sound(Other(p)))
    BY <2>1 DEF Sound, Saving, At
  <2> QED
    BY <2>1, <2>2, SameCopyNumbered DEF Alike
<1>6. CASE Post(p)
  <2>1. /\ proc'[p].doc \in {NoRows, proc[p].doc} /\ proc'[p].pc \in {"idle", "mark"}
        /\ Alike(proc[Other(p)], proc'[Other(p)]) /\ UNCHANGED <<issued, requests, file>>
    BY <1>6, PostDoes, IdleTyped
  <2>2. ~Sound(p)' /\ (Sound(Other(p))' => Sound(Other(p)))
    BY <1>6, <2>1, PostDoes DEF Sound, Saving, At, Alike
  <2> QED
    BY <2>1, <2>2, SameCopyNumbered
<1> QED
  BY <1>1, <1>3, <1>4, <1>5, <1>6

LEMMA NextFile == TypeOK /\ TypeOK' /\ FileInv /\ [Next]_vars => FileInv'
<1> SUFFICES ASSUME TypeOK, TypeOK', FileInv, [Next]_vars PROVE FileInv'
  OBVIOUS
<1>1. ASSUME NEW p \in Process, Kill(p) PROVE FileInv'
  <2>1. proc'[p] = Idle /\ proc'[Other(p)] = proc[Other(p)]
    BY <1>1, KillDoes, OneMoves
  <2>2. ~Sound(p)' /\ proc'[p].doc = NoRows /\ (Sound(Other(p))' => Sound(Other(p)))
    BY <2>1, IdleTyped DEF Sound, Saving, At
  <2> QED
    BY <1>1, <2>1, <2>2, KillDoes, SameCopyNumbered DEF Alike
<1>2. CASE NextDay
  BY <1>2 DEF NextDay, FileInv, Numbered, Based, Sound, Saving, At
<1>3. CASE UNCHANGED vars
  BY <1>3 DEF vars, FileInv, Numbered, Based, Sound, Saving, At
<1> QED
  BY <1>1, <1>2, <1>3, ServerKeepsFile, SchedulerKeepsFile, SharedKeepsFile DEF Next

-----------------------------------------------------------------------------
(* Each tier once.                                                         *)

Lost == spoilt.rows \/ spoilt.mark

\* The scheduler has a row in hand that it may still remind, and the rows the
\* pass may still remind.
Posting == At("scheduler", "mail") \/ At("scheduler", "post")
Ahead(r) == r \in pass.todo \/ (Posting /\ proc["scheduler"].row = r)

\* A reminder that is out and whose mark is being written.
Marking(r, t) ==
    /\ proc["scheduler"].pc \in {"mark", "truncate", "write"}
    /\ proc["scheduler"].row = r /\ proc["scheduler"].tier = t

\* What a copy of the file must say of the reminders sent: no record is behind
\* the cycle in which it was reminded, or may be, and in that cycle it has the
\* marks of them all but the one being written.
Books(doc) ==
    \A r \in Row :
        /\ Ahead(r) => pass.snap[r].cycle <= doc[r].cycle
        /\ \A m \in reminded[r] :
             /\ 1 <= m.cycle /\ m.cycle <= doc[r].cycle
             /\ m.cycle = doc[r].cycle => m.tier \in doc[r].sent \/ Marking(r, m.tier)

\* The pass's own copy has the marks of the reminders of its cycle too, and not
\* the tier it is about to send; the mark it writes is in the copy it writes.
MarksKept ==
    /\ file.ok => Books(file.rows)
    /\ \A p \in Process : Sound(p) => Books(proc[p].doc)
    /\ Sound("scheduler") =>
          proc["scheduler"].tier \in proc["scheduler"].doc[proc["scheduler"].row].sent
    /\ \A r \in Row : Ahead(r) =>
          \A m \in reminded[r] : m.cycle = pass.snap[r].cycle => m.tier \in pass.snap[r].sent
    /\ Posting => proc["scheduler"].tier \notin pass.snap[proc["scheduler"].row].sent

MarksInv == Lost \/ MarksKept

LEMMA InitMarks == Init => MarksInv
<1> SUFFICES ASSUME Init PROVE MarksKept
  BY DEF MarksInv
<1>1. /\ pass.todo = {} /\ \A r \in Row : reminded[r] = {}
      /\ \A p \in Process : proc[p] = Idle
  BY IdleTyped DEF Init
<1>2. ~Posting /\ (\A p \in Process : ~Sound(p)) /\ ~Sound("scheduler")
  BY <1>1, IdleTyped DEF Posting, Sound, Saving, At, Process
<1>3. Books(file.rows)
  BY <1>1, <1>2 DEF Books, Ahead
<1> QED
  BY <1>1, <1>2, <1>3 DEF MarksKept, Ahead

\* Steps that leave the pass and its reminders alone.
LEMMA ServerStepKeepsMarks ==
    ASSUME MarksKept, UNCHANGED <<pass, reminded>>,
           Alike(proc["scheduler"], proc'["scheduler"]),
           file'.ok => file' = file \/ Books(file.rows)',
           Sound("scheduler")' => Sound("scheduler"),
           Sound("server")' => Books(proc["server"].doc)'
    PROVE  MarksKept'
<1>1. /\ Posting' = Posting /\ \A r \in Row : Ahead(r)' = Ahead(r)
      /\ \A r, t : Marking(r, t)' = Marking(r, t)
      /\ proc'["scheduler"].tier = proc["scheduler"].tier
      /\ proc'["scheduler"].row = proc["scheduler"].row
      /\ proc'["scheduler"].doc = proc["scheduler"].doc
  BY DEF Alike, Posting, Ahead, Marking, At
<1>2. file'.ok => Books(file.rows)'
  BY <1>1 DEF MarksKept, Books
<1>3. "scheduler" \in Process
  BY DEF Process
<1>4. Sound("scheduler")' => Books(proc["scheduler"].doc)'
  BY <1>1, <1>3 DEF MarksKept, Books
<1> QED
  BY <1>1, <1>2, <1>4 DEF MarksKept, Process

\* What the server makes of the file keeps the books: a new row, or the row of
\* a link with the same marks or in a later cycle.
LEMMA ServerCopyKeepsBooks ==
    ASSUME TypeOK, TypeOK', Books(file.rows), UNCHANGED <<pass, reminded>>,
           proc'["scheduler"] = proc["scheduler"], NEW r \in Row, NEW y \in Signup,
           proc'["server"].doc = [file.rows EXCEPT ![r] = y],
           file.rows[r].cycle < y.cycle
             \/ (y.cycle = file.rows[r].cycle /\ y.sent = file.rows[r].sent)
    PROVE  Books(proc["server"].doc)'
<1> DEFINE doc == proc'["server"].doc
<1>1. \A k \in Row : doc[k] = IF k = r THEN y ELSE file.rows[k]
  BY DEF TypeOK, Document
<1>2. \A k \in Row : file.rows[k].cycle \in Nat
  <2>1. file.rows \in Document
    BY DEF TypeOK
  <2> QED
    BY <2>1, DocumentRows
<1>3. y.cycle \in Nat
  BY DEF Signup
<1>4. /\ \A k \in Row : Ahead(k)' = Ahead(k)
      /\ \A k, t : Marking(k, t)' = Marking(k, t)
  BY DEF Posting, Ahead, Marking, At
<1>5. \A k \in Row : pass.snap[k].cycle \in Nat
  <2>1. pass.snap \in Document
    BY DEF TypeOK
  <2> QED
    BY <2>1, DocumentRows
<1>6. \A k \in Row : \A m \in reminded[k] : m.cycle \in Nat
  BY DEF TypeOK
<1> HIDE DEF doc
<1>7. ASSUME NEW k \in Row
      PROVE  /\ Ahead(k) => pass.snap[k].cycle <= doc[k].cycle
             /\ \A m \in reminded[k] :
                  /\ 1 <= m.cycle /\ m.cycle <= doc[k].cycle
                  /\ m.cycle = doc[k].cycle => m.tier \in doc[k].sent \/ Marking(k, m.tier)
  <2>1. CASE k # r
    BY <1>1, <2>1 DEF Books
  <2>2. CASE k = r
    BY <1>1, <1>2, <1>3, <1>5, <1>6, <2>2 DEF Books
  <2> QED
    BY <2>1, <2>2
<1> QED
  BY <1>4, <1>7 DEF Books, doc

LEMMA ServerKeepsMarks ==
    TypeOK /\ TypeOK' /\ FileInv /\ MarksInv /\ Server => MarksInv'
<1> SUFFICES ASSUME TypeOK, TypeOK', FileInv, MarksInv, Server, ~Lost' PROVE MarksKept'
  BY DEF MarksInv
<1>1. UNCHANGED <<pass, reminded, file, spoilt>> /\ proc'["scheduler"] = proc["scheduler"]
  <2>1. CASE \E e \in Email, s \in Slug : Subscribe(e, s)
    BY <2>1, SubscribeDoes
  <2>2. CASE AddPending
    BY <2>2, AddPendingDoes
  <2>3. CASE \E op \in {"confirm", "unsubscribe", "renewed", "rearm"}, r \in Row, c \in 1..MaxCycle :
                Follow(op, r, c)
    BY <2>3, FollowDoes
  <2> QED
    BY <2>1, <2>2, <2>3 DEF Server
<1>2. MarksKept
  BY <1>1 DEF MarksInv, Lost
<1>3. ASSUME Sound("server")' => Books(proc["server"].doc)' PROVE MarksKept'
  BY <1>1, <1>2, <1>3, ServerStepKeepsMarks DEF Alike, Sound, Saving, At
<1>4. ASSUME NEW e \in Email, NEW s \in Slug, Subscribe(e, s) PROVE MarksKept'
  <2>1. ~Sound("server")'
    BY <1>4, SubscribeDoes DEF Sound, Saving, At
  <2> QED
    BY <1>3, <2>1
<1>5. CASE AddPending
  <2>1. CASE file.ok
    <3> DEFINE x == Pending(proc["server"].who, proc["server"].where)
               n == issued + 1
    <3>1. x \in Signup /\ n \in Row /\ proc'["server"].doc = [file.rows EXCEPT ![n] = x]
      BY <1>5, <2>1, AddPendingDoes
    <3>2. x.cycle = 1
      BY DEF Pending
    <3>3. n > issued
      BY DEF TypeOK
    <3> HIDE DEF x, n
    <3>4. file.rows[n].cycle = 0
      BY <3>1, <3>3, NoRowIs DEF FileInv, Numbered
    <3>5. Books(file.rows)
      BY <1>2, <2>1 DEF MarksKept
    <3>6. Books(proc["server"].doc)'
      BY <1>1, <3>1, <3>2, <3>4, <3>5, ServerCopyKeepsBooks
    <3> QED
      BY <1>3, <3>6
  <2>2. CASE ~file.ok
    <3>1. ~Sound("server")'
      BY <1>5, <2>2, AddPendingDoes, IdleTyped DEF Sound, Saving, At
    <3> QED
      BY <1>3, <3>1
  <2> QED
    BY <2>1, <2>2
<1>6. ASSUME NEW op \in {"confirm", "unsubscribe", "renewed", "rearm"}, NEW r \in Row,
             NEW c \in 1..MaxCycle, Follow(op, r, c)
      PROVE  MarksKept'
  <2> DEFINE x == file.rows[r]
             t == requests + 1
             y == Served(op, x, t)
  <2>1. /\ x \in Signup /\ requests' = t /\ file.ok
        /\ proc'["server"].doc = [file.rows EXCEPT ![r] = y]
    BY <1>6, FollowDoes
  <2>2. t \in Nat
    BY DEF TypeOK
  <2>3. x.cycle \in Nat
    BY <2>1 DEF Signup
  <2> HIDE DEF t, x
  <2>4. y \in Signup /\ (y.cycle = x.cycle + 1 \/ (y.cycle = x.cycle /\ y.sent = x.sent))
    BY <2>1, <2>2, ServedTyped
  <2> HIDE DEF y
  <2>5. x.cycle < y.cycle \/ (y.cycle = x.cycle /\ y.sent = x.sent)
    BY <2>3, <2>4
  <2>6. Books(file.rows)
    BY <1>2, <2>1 DEF MarksKept
  <2>7. Books(proc["server"].doc)'
    BY <1>1, <2>1, <2>4, <2>5, <2>6, ServerCopyKeepsBooks DEF x
  <2> QED
    BY <1>3, <2>7
<1> QED
  BY <1>4, <1>5, <1>6 DEF Server

\* Steps of the scheduler that send nothing: no row is ahead of it that was not
\* before, and what it saves was the file's.
LEMMA SchedulerStepKeepsMarks ==
    ASSUME MarksKept, reminded' = reminded, file'.ok => file' = file,
           Alike(proc["server"], proc'["server"]), Sound("server")' => Sound("server"),
           \A r \in Row : \A m \in reminded[r] : Marking(r, m.tier) => Marking(r, m.tier)',
           \A r \in Row : Ahead(r)' => Ahead(r) /\ pass'.snap[r] = pass.snap[r],
           Sound("scheduler")' =>
              \/ Sound("scheduler") /\ Alike(proc["scheduler"], proc'["scheduler"])
              \/ /\ Books(proc["scheduler"].doc)'
                 /\ (proc["scheduler"].tier \in proc["scheduler"].doc[proc["scheduler"].row].sent)',
           Posting' => (proc["scheduler"].tier \notin pass.snap[proc["scheduler"].row].sent)'
    PROVE  MarksKept'
<1>1. "server" \in Process /\ "scheduler" \in Process
  BY DEF Process
<1>2. file'.ok => Books(file.rows)'
  BY DEF MarksKept, Books
<1>3. Sound("server")' => Books(proc["server"].doc)'
  BY <1>1 DEF MarksKept, Books, Alike
<1>4. Sound("scheduler")' =>
         /\ Books(proc["scheduler"].doc)'
         /\ (proc["scheduler"].tier \in proc["scheduler"].doc[proc["scheduler"].row].sent)'
  <2> SUFFICES ASSUME Sound("scheduler"), Alike(proc["scheduler"], proc'["scheduler"])
               PROVE  /\ Books(proc["scheduler"].doc)'
                      /\ (proc["scheduler"].tier \in
                            proc["scheduler"].doc[proc["scheduler"].row].sent)'
    OBVIOUS
  <2>1. Books(proc["scheduler"].doc)'
    BY <1>1 DEF MarksKept, Books, Alike
  <2> QED
    BY <2>1 DEF MarksKept, Alike
<1>5. \A r \in Row : Ahead(r)' => \A m \in reminded'[r] :
         m.cycle = pass'.snap[r].cycle => m.tier \in pass'.snap[r].sent
  BY DEF MarksKept
<1> QED
  BY <1>2, <1>3, <1>4, <1>5 DEF MarksKept, Process

LEMMA MarkKeepsMarks ==
    ASSUME TypeOK, TypeOK', MarksKept, Mark
    PROVE  MarksKept'
<1> DEFINE me == proc["scheduler"]
           a == proc'["scheduler"]
           x == file.rows[me.row]
<1>1. /\ At("scheduler", "mark") /\ file.ok /\ UNCHANGED <<pass, reminded, file>>
      /\ proc'["server"] = proc["server"]
  BY MarkDoes
<1>2. Books(file.rows) /\ file.rows \in Document /\ me.row \in Row
  BY <1>1 DEF MarksKept, TypeOK, SchedulerStage, At
<1>3. Alike(proc["server"], proc'["server"]) /\ (Sound("server")' => Sound("server"))
  BY <1>1 DEF Alike, Sound, Saving, At
<1>4. \A r \in Row : \A m \in reminded[r] : m.cycle \in Nat
  BY DEF TypeOK
<1>5. CASE x.status = "none"
  <2>1. a.pc = "next"
    BY <1>5, MarkDoes, DoneStage DEF Process
  <2>2. ~Posting' /\ ~Sound("scheduler")'
    BY <2>1 DEF Posting, Sound, Saving, At
  <2>3. reminded[me.row] = {}
    <3>1. x.cycle = 0
      BY <1>2, <1>5, DocumentRows
    <3> QED
      BY <1>2, <1>4, <3>1 DEF Books
  <2>4. \A r \in Row : \A m \in reminded[r] : ~Marking(r, m.tier)
    BY <2>3 DEF Marking
  <2>5. \A r \in Row : Ahead(r)' => Ahead(r) /\ pass'.snap[r] = pass.snap[r]
    BY <1>1, <2>2 DEF Ahead
  <2> QED
    BY <1>1, <1>3, <2>2, <2>4, <2>5, SchedulerStepKeepsMarks
<1>6. CASE x.status # "none"
  <2>1. /\ a.pc = "truncate" /\ a.row = me.row /\ a.tier = me.tier /\ x \in Signup
        /\ \A k \in Row \ {me.row} : a.doc[k] = file.rows[k]
        /\ a.doc[me.row] = [x EXCEPT !.sent = @ \cup {me.tier}]
    BY <1>6, MarkDoes
  <2>2. a.doc[me.row].cycle = x.cycle /\ a.doc[me.row].sent = x.sent \cup {me.tier}
    BY <2>1 DEF Signup
  <2>3. \A k \in Row : /\ a.doc[k].cycle = file.rows[k].cycle
                       /\ file.rows[k].sent \subseteq a.doc[k].sent
    BY <2>1, <2>2
  <2>4. ~Posting' /\ ~Posting
    BY <1>1, <2>1 DEF Posting, At
  <2>5. \A r \in Row : \A m \in reminded[r] : Marking(r, m.tier) => Marking(r, m.tier)'
    BY <2>1 DEF Marking
  <2>6. \A r \in Row : Ahead(r)' => Ahead(r) /\ pass'.snap[r] = pass.snap[r]
    BY <1>1, <2>4 DEF Ahead
  <2>7. Books(proc["scheduler"].doc)'
    BY <1>1, <1>2, <2>3, <2>5, <2>6 DEF Books
  <2>8. a.tier \in a.doc[a.row].sent
    BY <2>1, <2>2
  <2> QED
    BY <1>1, <1>3, <2>4, <2>5, <2>6, <2>7, <2>8, SchedulerStepKeepsMarks
<1> QED
  BY <1>5, <1>6

\* A pass starts from what the file says, with nothing half marked.
LEMMA StartPassKeepsMarks ==
    ASSUME TypeOK, TypeOK', FileInv, MarksKept, StartPass
    PROVE  MarksKept'
<1>1. /\ At("scheduler", "idle") /\ proc'["server"] = proc["server"]
      /\ UNCHANGED <<reminded, file>>
  BY StartPassDoes
<1>2. CASE ~file.ok
  <2>1. UNCHANGED <<pass, proc>>
    BY <1>2, StartPassDoes
  <2> QED
    BY <1>1, <2>1, ServerStepKeepsMarks DEF Alike, Sound, Saving, At, MarksKept, Process,
       Books, Ahead, Posting, Marking
<1>3. CASE file.ok
  <2>1. /\ proc'["scheduler"].pc = "next"
        /\ \A r \in pass'.todo : pass'.snap[r] = file.rows[r]
    BY <1>3, StartPassDoes
  <2>2. ~Posting' /\ ~Sound("scheduler")' /\ \A r, t : ~Marking(r, t)
    BY <1>1, <2>1 DEF Posting, Sound, Saving, At, Marking
  <2>3. Books(file.rows) /\ (Sound("server")' => Sound("server"))
    BY <1>1, <1>3 DEF MarksKept, Sound, Saving, At
  <2>4. \A r \in Row : /\ file.rows[r].cycle \in Nat
                       /\ Ahead(r)' => pass'.snap[r] = file.rows[r]
    <3>1. file.rows \in Document
      BY DEF TypeOK
    <3> QED
      BY <2>1, <2>2, <3>1, DocumentRows DEF Ahead
  <2>5. Books(file.rows)'
    BY <1>1, <2>2, <2>3, <2>4 DEF Books
  <2>6. Sound("server")' => Books(proc["server"].doc)'
    <3> SUFFICES ASSUME Sound("server")' PROVE Books(proc["server"].doc)'
      OBVIOUS
    <3>1. Books(proc["server"].doc) /\ \A r \in Row : file.rows[r].cycle <= proc["server"].doc[r].cycle
      BY <1>3, <2>3 DEF MarksKept, FileInv, Based, Process
    <3> QED
      BY <1>1, <2>2, <2>4, <3>1 DEF Books
  <2>7. \A r \in Row : Ahead(r)' => \A m \in reminded'[r] :
           m.cycle = pass'.snap[r].cycle => m.tier \in pass'.snap[r].sent
    BY <1>1, <2>2, <2>3, <2>4 DEF Books
  <2> QED
    BY <2>2, <2>5, <2>6, <2>7 DEF MarksKept, Process
<1> QED
  BY <1>2, <1>3

\* A pass that is over has no row ahead of it.
LEMMA OverKeepsMarks ==
    ASSUME TypeOK, MarksKept, proc' = [proc EXCEPT !["scheduler"] = Idle], pass' = NoPass,
           UNCHANGED <<file, reminded>>,
           proc["scheduler"].pc \notin {"mark", "truncate", "write"}
    PROVE  MarksKept'
<1>1. proc'["scheduler"].pc = "idle" /\ proc'["server"] = proc["server"] /\ pass'.todo = {}
  BY OneMoves, IdleTyped DEF Process, Other
<1>2. ~Posting' /\ ~Sound("scheduler")' /\ (\A r \in Row : ~Ahead(r)')
      /\ \A r, t : ~Marking(r, t)
  BY <1>1 DEF Posting, Ahead, Sound, Saving, At, Marking
<1>3. Alike(proc["server"], proc'["server"]) /\ (Sound("server")' => Sound("server"))
  BY <1>1 DEF Alike, Sound, Saving, At
<1> QED
  BY <1>2, <1>3, SchedulerStepKeepsMarks

LEMMA SchedulerKeepsMarks ==
    TypeOK /\ TypeOK' /\ FileInv /\ MarksInv /\ Scheduler => MarksInv'
<1> SUFFICES ASSUME TypeOK, TypeOK', FileInv, MarksInv, Scheduler, ~Lost' PROVE MarksKept'
  BY DEF MarksInv
<1>1. CASE EndPass
  <2>1. ~Lost /\ proc["scheduler"].pc = "next"
    BY <1>1, EndPassDoes DEF Lost, At
  <2> QED
    BY <1>1, <2>1, EndPassDoes, OverKeepsMarks DEF MarksInv
<1>2. CASE StartPass
  BY <1>2, StartPassDoes, StartPassKeepsMarks DEF MarksInv, Lost
<1>3. CASE Mark
  BY <1>3, MarkDoes, MarkKeepsMarks DEF MarksInv, Lost
<1>4. ASSUME NEW r \in Row, SkipRow(r) PROVE MarksKept'
  <2>1. Turn(r) /\ UNCHANGED <<file, proc, reminded, spoilt>>
    BY <1>4 DEF SkipRow, mails
  <2>2. MarksKept
    BY <2>1 DEF MarksInv, Lost
  <2>3. /\ At("scheduler", "next") /\ pass'.todo = pass.todo \ {r}
        /\ \A k \in pass.todo : pass'.snap[k] = pass.snap[k]
    BY <2>1, TurnDoes
  <2>4. ~Posting' /\ ~Sound("scheduler")' /\ \A k, t : ~Marking(k, t)
    BY <2>1, <2>3 DEF Posting, Sound, Saving, At, Marking
  <2>5. \A k \in Row : Ahead(k)' => Ahead(k) /\ pass'.snap[k] = pass.snap[k]
    BY <2>3, <2>4 DEF Ahead
  <2>6. Alike(proc["server"], proc'["server"]) /\ (Sound("server")' => Sound("server"))
    BY <2>1 DEF Alike, Sound, Saving, At
  <2> QED
    BY <2>1, <2>2, <2>4, <2>5, <2>6, SchedulerStepKeepsMarks
<1>5. ASSUME NEW r \in Row, DueRow(r) PROVE MarksKept'
  <2>1. /\ Turn(r) /\ UNCHANGED <<file, reminded, spoilt>> /\ proc'["server"] = proc["server"]
        /\ proc'["scheduler"].pc = "mail" /\ proc'["scheduler"].row = r
        /\ proc'["scheduler"].tier \in Thresholds \ pass.snap[r].sent
    BY <1>5, DueRowDoes
  <2>2. MarksKept
    BY <2>1 DEF MarksInv, Lost
  <2>3. /\ At("scheduler", "next") /\ r \in pass.todo /\ pass'.todo = pass.todo \ {r}
        /\ \A k \in pass.todo : pass'.snap[k] = pass.snap[k]
    BY <2>1, TurnDoes
  <2>4. ~Sound("scheduler")' /\ \A k, t : ~Marking(k, t)
    BY <2>1, <2>3 DEF Sound, Saving, At, Marking
  <2>5. \A k \in Row : Ahead(k)' => Ahead(k) /\ pass'.snap[k] = pass.snap[k]
    BY <2>1, <2>3 DEF Ahead
  <2>6. Alike(proc["server"], proc'["server"]) /\ (Sound("server")' => Sound("server"))
    BY <2>1 DEF Alike, Sound, Saving, At
  <2>7. (proc["scheduler"].tier \notin pass.snap[proc["scheduler"].row].sent)'
    BY <2>1, <2>3
  <2> QED
    BY <2>1, <2>2, <2>4, <2>5, <2>6, <2>7, SchedulerStepKeepsMarks
<1> QED
  BY <1>1, <1>2, <1>3, <1>4, <1>5 DEF Scheduler

\* The server's own accesses to the file and to the breaker.
LEMMA ServerSharedKeepsMarks ==
    ASSUME TypeOK, MarksInv, ~Lost',
           Truncate("server") \/ Write("server") \/ Check("server") \/ Post("server")
    PROVE  MarksKept'
<1>1. "server" \in Process /\ Other("server") = "scheduler"
  BY DEF Process, Other
<1>2. CASE Truncate("server")
  <2>1. /\ ~file'.ok /\ UNCHANGED <<pass, reminded, spoilt>> /\ At("server", "truncate")
        /\ proc'["scheduler"] = proc["scheduler"]
        /\ proc'["server"].doc = proc["server"].doc /\ proc'["server"].raced = proc["server"].raced
    BY <1>1, <1>2, TruncateDoes
  <2>2. MarksKept /\ (Sound("server")' => Sound("server"))
    BY <2>1 DEF MarksInv, Lost, Sound, Saving, At
  <2>3. Sound("server")' => Books(proc["server"].doc)'
    BY <1>1, <2>1, <2>2 DEF MarksKept, Books, Ahead, Posting, Marking, At
  <2> QED
    BY <2>1, <2>2, <2>3, ServerStepKeepsMarks DEF Alike, Sound, Saving, At
<1>3. CASE Write("server")
  <2>1. /\ At("server", "write") /\ UNCHANGED <<pass, reminded>> /\ spoilt.mark = spoilt'.mark
        /\ file'.ok => file'.rows = proc["server"].doc
        /\ spoilt'.rows <=> (spoilt.rows \/ proc["server"].raced # "no")
        /\ Alike(proc["scheduler"], proc'["scheduler"])
        /\ Saving("scheduler") => proc'["scheduler"].raced # "no"
    BY <1>1, <1>3, WriteDoes
  <2>2. proc'["server"].pc \in {"mail", "idle"}
    BY <1>1, <1>3, WriteDoes, IdleTyped
  <2>3. MarksKept /\ Sound("server")
    BY <2>1 DEF MarksInv, Lost, Sound, Saving
  <2>4. ~Sound("scheduler")' /\ ~Sound("server")'
    BY <2>1, <2>2 DEF Sound, Saving, At, Alike
  <2>5. file'.ok => Books(file.rows)'
    BY <1>1, <2>1, <2>3 DEF MarksKept, Books, Ahead, Posting, Marking, At, Alike
  <2> QED
    BY <2>1, <2>3, <2>4, <2>5, ServerStepKeepsMarks
<1>4. ASSUME UNCHANGED <<pass, reminded, file>>, Lost' <=> Lost, proc'["server"].pc \in {"idle", "post"},
             Alike(proc["scheduler"], proc'["scheduler"]),
             proc'["scheduler"].raced = proc["scheduler"].raced
      PROVE  MarksKept'
  <2>1. ~Sound("server")' /\ MarksKept /\ (Sound("scheduler")' => Sound("scheduler"))
    BY <1>4 DEF Sound, Saving, At, Alike, MarksInv
  <2> QED
    BY <1>4, <2>1, ServerStepKeepsMarks
<1>5. CASE Check("server")
  <2>1. /\ UNCHANGED <<pass, reminded, file, spoilt>> /\ proc'["server"].pc \in {"idle", "post"}
        /\ proc'["scheduler"] = proc["scheduler"]
    BY <1>1, <1>5, CheckDoes, DoneStage
  <2> QED
    BY <1>4, <2>1 DEF Alike, Lost
<1>6. CASE Post("server")
  <2>1. /\ UNCHANGED <<pass, reminded, file>> /\ proc'["server"].pc = "idle"
        /\ spoilt'.rows = spoilt.rows /\ spoilt'.mark = spoilt.mark
        /\ Alike(proc["scheduler"], proc'["scheduler"])
        /\ proc'["scheduler"].raced = proc["scheduler"].raced
    BY <1>1, <1>6, PostDoes, IdleTyped
  <2> QED
    BY <1>4, <2>1 DEF Lost
<1> QED
  BY <1>2, <1>3, <1>5, <1>6

\* The mark that was being written is in what the file holds now.
LEMMA SchedulerWriteKeepsMarks ==
    ASSUME TypeOK, MarksInv, ~Lost', Write("scheduler")
    PROVE  MarksKept'
<1>1. "scheduler" \in Process /\ Other("scheduler") = "server"
  BY DEF Process, Other
<1> DEFINE me == proc["scheduler"]
<1>2. /\ At("scheduler", "write") /\ UNCHANGED <<pass, reminded>> /\ spoilt.mark = spoilt'.mark
      /\ file'.ok => file'.rows = me.doc
      /\ spoilt'.rows <=> (spoilt.rows \/ me.raced # "no")
      /\ Alike(proc["server"], proc'["server"])
      /\ Saving("server") => proc'["server"].raced # "no"
      /\ proc'["scheduler"].pc = "next"
  BY <1>1, WriteDoes
<1>3. MarksKept /\ Sound("scheduler")
  BY <1>2 DEF MarksInv, Lost, Sound, Saving
<1>4. ~Sound("server")' /\ ~Sound("scheduler")' /\ ~Posting' /\ ~Posting
  BY <1>2 DEF Sound, Saving, At, Alike, Posting
<1>5. Books(me.doc) /\ me.tier \in me.doc[me.row].sent
  BY <1>1, <1>3 DEF MarksKept
<1>6. ASSUME NEW r \in Row, NEW m \in reminded[r], m.cycle = me.doc[r].cycle
      PROVE  m.tier \in me.doc[r].sent
  BY <1>5, <1>6 DEF Books, Marking
<1>7. \A r \in Row : Ahead(r)' <=> Ahead(r)
  BY <1>2, <1>4 DEF Ahead
<1> HIDE DEF me
<1>8. file'.ok => Books(file.rows)'
  BY <1>2, <1>5, <1>6, <1>7 DEF Books
<1>9. \A r \in Row : Ahead(r)' => \A m \in reminded'[r] :
         m.cycle = pass'.snap[r].cycle => m.tier \in pass'.snap[r].sent
  BY <1>2, <1>3, <1>7 DEF MarksKept
<1> QED
  BY <1>4, <1>8, <1>9 DEF MarksKept, Process

\* A reminder is out: its row is ahead of no pass any more, and its mark is due.
LEMMA SchedulerPostKeepsMarks ==
    ASSUME TypeOK, MarksInv, ~Lost', Post("scheduler")
    PROVE  MarksKept'
<1>1. "scheduler" \in Process /\ Other("scheduler") = "server"
  BY DEF Process, Other
<1> DEFINE me == proc["scheduler"]
           new == Reminder(me.row, me.tier)
<1>2. /\ At("scheduler", "post") /\ UNCHANGED <<pass, file>>
      /\ spoilt'.rows = spoilt.rows /\ spoilt'.mark = spoilt.mark
      /\ Alike(proc["server"], proc'["server"]) /\ proc'["server"].raced = proc["server"].raced
      /\ proc'["scheduler"].pc = "mark" /\ proc'["scheduler"].row = me.row
      /\ proc'["scheduler"].tier = me.tier
      /\ reminded' = [reminded EXCEPT ![me.row] = @ \cup {new}]
  BY <1>1, PostDoes
<1>3. MarksKept
  BY <1>2 DEF MarksInv, Lost
<1>4. /\ me.row \in Row \ pass.todo /\ pass.snap[me.row] \in Signup
      /\ new.cycle = pass.snap[me.row].cycle /\ new.tier = me.tier /\ 1 <= new.cycle
  <2>1. me.row \in Row \ pass.todo /\ pass.snap[me.row] \in Signup
    BY <1>2 DEF TypeOK, SchedulerStage, At
  <2>2. 1 <= pass.snap[me.row].cycle
    BY <2>1 DEF Signup
  <2> QED
    BY <2>1, <2>2 DEF Reminder
<1> HIDE DEF new
<1>5. ~Posting' /\ ~Sound("scheduler")' /\ ~Sound("scheduler") /\ Ahead(me.row)
  BY <1>2 DEF Posting, Ahead, Sound, Saving, At
<1>6. \A r, t : ~Marking(r, t) /\ (r = me.row /\ t = me.tier => Marking(r, t)')
  BY <1>2 DEF Marking, At
<1>7. \A r \in Row : Ahead(r)' => Ahead(r) /\ r # me.row
  BY <1>2, <1>4, <1>5 DEF Ahead
<1>8. \A r \in Row : reminded'[r] = IF r = me.row THEN reminded[r] \cup {new} ELSE reminded[r]
  BY <1>2, <1>4 DEF TypeOK
<1> HIDE DEF me
<1>9. file'.ok => Books(file.rows)'
  <2> SUFFICES ASSUME file.ok PROVE Books(file.rows)'
    BY <1>2
  <2>1. Books(file.rows)
    BY <1>3 DEF MarksKept
  <2>2. \A r \in Row : Ahead(r)' => pass'.snap[r].cycle <= file.rows[r].cycle
    BY <1>2, <1>7, <2>1 DEF Books
  <2>3. ASSUME NEW r \in Row, NEW m \in reminded'[r]
        PROVE  /\ 1 <= m.cycle /\ m.cycle <= file.rows[r].cycle
               /\ m.cycle = file.rows[r].cycle => m.tier \in file.rows[r].sent \/ Marking(r, m.tier)'
    <3>1. CASE m \in reminded[r]
      BY <1>6, <2>1, <3>1 DEF Books
    <3>2. CASE m \notin reminded[r]
      <4>1. m = new /\ r = me.row
        BY <1>8, <2>3, <3>2
      <4> QED
        BY <1>4, <1>5, <1>6, <2>1, <4>1 DEF Books
    <3> QED
      BY <3>1, <3>2
  <2> QED
    BY <1>2, <2>1, <2>2, <2>3 DEF Books
<1>10. Sound("server")' => Books(proc["server"].doc)'
  <2> SUFFICES ASSUME Sound("server")' PROVE Books(proc["server"].doc)'
    OBVIOUS
  <2>1. Books(proc["server"].doc) /\ proc'["server"].doc = proc["server"].doc
    BY <1>2, <1>3 DEF MarksKept, Sound, Saving, At, Alike, Process
  <2>2. \A r \in Row : Ahead(r)' => pass'.snap[r].cycle <= proc["server"].doc[r].cycle
    BY <1>2, <1>7, <2>1 DEF Books
  <2>3. ASSUME NEW r \in Row, NEW m \in reminded'[r]
        PROVE  /\ 1 <= m.cycle /\ m.cycle <= proc["server"].doc[r].cycle
               /\ m.cycle = proc["server"].doc[r].cycle => m.tier \in proc["server"].doc[r].sent \/ Marking(r, m.tier)'
    <3>1. CASE m \in reminded[r]
      BY <1>6, <2>1, <3>1 DEF Books
    <3>2. CASE m \notin reminded[r]
      <4>1. m = new /\ r = me.row
        BY <1>8, <2>3, <3>2
      <4> QED
        BY <1>4, <1>5, <1>6, <2>1, <4>1 DEF Books
    <3> QED
      BY <3>1, <3>2
  <2> QED
    BY <1>2, <2>1, <2>2, <2>3 DEF Books
<1>11. \A r \in Row : Ahead(r)' => \A m \in reminded'[r] :
          m.cycle = pass'.snap[r].cycle => m.tier \in pass'.snap[r].sent
  BY <1>2, <1>3, <1>7, <1>8 DEF MarksKept
<1> QED
  BY <1>5, <1>9, <1>10, <1>11 DEF MarksKept, Process

LEMMA SchedulerSharedKeepsMarks ==
    ASSUME TypeOK, MarksInv, ~Lost', Truncate("scheduler") \/ Check("scheduler")
    PROVE  MarksKept'
<1>1. "scheduler" \in Process /\ Other("scheduler") = "server"
  BY DEF Process, Other
<1>2. CASE Truncate("scheduler")
  <2>1. /\ At("scheduler", "truncate") /\ ~file'.ok /\ UNCHANGED <<pass, reminded, spoilt>>
        /\ proc'["server"] = proc["server"]
        /\ LET a == proc'["scheduler"]
               me == proc["scheduler"]
           IN  /\ a.pc = "write" /\ a.row = me.row /\ a.tier = me.tier /\ a.doc = me.doc
               /\ a.raced = me.raced
    BY <1>1, <1>2, TruncateDoes
  <2>2. MarksKept
    BY <2>1 DEF MarksInv, Lost
  <2>3. /\ ~Posting' /\ ~Posting /\ (Sound("scheduler")' => Sound("scheduler"))
        /\ Sound("server")' => Sound("server")
    BY <2>1 DEF Posting, Sound, Saving, At
  <2>4. \A r \in Row : Ahead(r)' <=> Ahead(r)
    BY <2>1, <2>3 DEF Ahead
  <2>5. \A r \in Row : \A m \in reminded[r] : Marking(r, m.tier) => Marking(r, m.tier)'
    BY <2>1 DEF Marking
  <2>6. Sound("scheduler")' =>
          /\ Books(proc["scheduler"].doc)'
          /\ (proc["scheduler"].tier \in proc["scheduler"].doc[proc["scheduler"].row].sent)'
    BY <1>1, <2>1, <2>2, <2>3, <2>4, <2>5 DEF MarksKept, Books
  <2> QED
    BY <2>1, <2>2, <2>3, <2>4, <2>5, <2>6, SchedulerStepKeepsMarks DEF Alike
<1>3. CASE Check("scheduler")
  <2>1. /\ At("scheduler", "mail") /\ UNCHANGED <<pass, reminded, file, spoilt>>
        /\ proc'["server"] = proc["server"] /\ proc'["scheduler"].pc \in {"next", "post"}
        /\ proc'["scheduler"].pc = "post" =>
              /\ proc'["scheduler"].row = proc["scheduler"].row
              /\ proc'["scheduler"].tier = proc["scheduler"].tier
    BY <1>1, <1>3, CheckDoes, DoneStage
  <2>2. MarksKept
    BY <2>1 DEF MarksInv, Lost
  <2>3. /\ ~Sound("scheduler")' /\ Posting /\ (Sound("server")' => Sound("server"))
        /\ \A r, t : ~Marking(r, t)
    BY <2>1 DEF Posting, Sound, Saving, At, Marking
  <2>4. \A r \in Row : Ahead(r)' => Ahead(r)
    BY <2>1, <2>3 DEF Ahead, Posting, At
  <2>5. Posting' => (proc["scheduler"].tier \notin pass.snap[proc["scheduler"].row].sent)'
    BY <2>1, <2>2, <2>3 DEF MarksKept, Posting, At
  <2> QED
    BY <2>1, <2>2, <2>3, <2>4, <2>5, SchedulerStepKeepsMarks DEF Alike
<1> QED
  BY <1>2, <1>3

LEMMA NextMarks == TypeOK /\ TypeOK' /\ FileInv /\ MarksInv /\ [Next]_vars => MarksInv'
<1> SUFFICES ASSUME TypeOK, TypeOK', FileInv, MarksInv, [Next]_vars, ~Lost' PROVE MarksKept'
  BY DEF MarksInv
<1>1. CASE Server
  BY <1>1, ServerKeepsMarks DEF MarksInv
<1>2. CASE Scheduler
  BY <1>2, SchedulerKeepsMarks DEF MarksInv
<1>3. CASE Shared
  BY <1>3, ServerSharedKeepsMarks, SchedulerWriteKeepsMarks, SchedulerPostKeepsMarks,
     SchedulerSharedKeepsMarks DEF Shared, Process
<1>4. ASSUME NEW p \in Process, Kill(p) PROVE MarksKept'
  <2>1. /\ proc'[p] = Idle /\ proc'[Other(p)] = proc[Other(p)]
        /\ UNCHANGED <<file, reminded>>
    BY <1>4, KillDoes, OneMoves
  <2>2. MarksKept
    BY <1>4, KillDoes DEF MarksInv, Lost
  <2>3. CASE p = "server"
    <3>1. Other(p) = "scheduler" /\ pass' = pass /\ ~Sound("server")'
      BY <1>4, <2>1, <2>3, KillDoes, IdleTyped DEF Other, Sound, Saving, At
    <3> QED
      BY <2>1, <2>2, <2>3, <3>1, ServerStepKeepsMarks DEF Alike, Sound, Saving, At
  <2>4. CASE p = "scheduler"
    <3>1. proc["scheduler"].pc \notin {"mark", "truncate", "write"}
      BY <1>4, <2>4, KillDoes DEF Lost
    <3>2. proc' = [proc EXCEPT !["scheduler"] = Idle] /\ pass' = NoPass
      BY <1>4, <2>4, KillDoes
    <3> QED
      BY <2>1, <2>2, <3>1, <3>2, OverKeepsMarks
  <2> QED
    BY <2>3, <2>4 DEF Process
<1>5. ASSUME UNCHANGED <<pass, reminded, proc, file, spoilt>> PROVE MarksKept'
  <2>1. MarksKept
    BY <1>5 DEF MarksInv, Lost
  <2>2. Sound("server")' => Books(proc["server"].doc)'
    BY <1>5, <2>1 DEF MarksKept, Books, Ahead, Posting, Marking, At, Sound, Saving, Process
  <2> QED
    BY <1>5, <2>1, <2>2, ServerStepKeepsMarks DEF Alike, Sound, Saving, At
<1>6. CASE NextDay
  BY <1>5, <1>6 DEF NextDay
<1>7. CASE UNCHANGED vars
  BY <1>5, <1>7 DEF vars
<1> QED
  BY <1>1, <1>2, <1>3, <1>4, <1>6, <1>7 DEF Next

LEMMA AllFacts == Spec => [](TypeOK /\ FileInv)
BY InitTyped, NextTyped, InitFile, NextFile, PTL DEF Spec

\* In one cycle of a record a tier is sent once, however the passes, the server
\* and the kills interleave, unless an update of the file or a mark was lost.
THEOREM EachTierOnce == Spec => TierOnce
<1>1. TypeOK /\ MarksInv /\ [Next]_vars =>
        [\A r \in Row : Reminding(r) =>
           \/ spoilt.rows \/ spoilt.mark
           \/ \A m \in reminded[r] : m.cycle = pass.snap[r].cycle => proc["scheduler"].tier # m.tier]_vars
  BY DEF MarksInv, Lost, MarksKept, Reminding, Ahead, Posting
<1>2. Spec => []MarksInv
  <2>1. TypeOK /\ FileInv /\ MarksInv /\ [Next]_vars /\ TypeOK' => MarksInv'
    BY NextMarks
  <2> QED
    BY <2>1, AllFacts, InitMarks, PTL DEF Spec
<1> QED
  BY <1>1, <1>2, AllFacts, PTL DEF Spec, TierOnce


-----------------------------------------------------------------------------
(* Opting out.                                                             *)

\* A record that says "unsubscribed", and no confirmation of its address since.
Gone(doc, r) ==
    /\ doc[r].status # "none" /\ doc[r].reason = "unsubscribed"
    /\ \A k \in RowsOf(doc, doc[r].email) : doc[k].confirmed <= doc[r].stopped

\* Who has read "unsubscribed" is gone in this copy of the file.
Out == optedOut \ renewed
OutKept(doc, but) == \A r \in Out \ but : Gone(doc, r)

\* The rows that the server's request under way is about to let back in.
Leaving(me) ==
    IF Confirms(me) THEN RowsOf(me.doc, me.who)
    ELSE IF me.op = "renewed" THEN {me.row} ELSE {}

OutHeld ==
    /\ file.ok => OutKept(file.rows, {})
    /\ Sound("scheduler") => OutKept(proc["scheduler"].doc, {})
    /\ Sound("server") => OutKept(proc["server"].doc, Leaving(proc["server"]))

\* The copy a stop request is about to write says so, as of this request.
StopInv ==
    Saving("server") /\ proc["server"].op = "unsubscribe" =>
        LET x == proc["server"].doc[proc["server"].row]
        IN  x.status = "stopped" /\ x.reason = "unsubscribed" /\ x.stopped = requests

OutInv == StopInv /\ (spoilt.rows \/ OutHeld)

LEMMA InitOut == Init => OutInv
BY IdleTyped DEF Init, OutInv, StopInv, OutHeld, OutKept, Out, Sound, Saving, At, Process

\* Changing one record keeps another one gone, unless it is a confirmation of
\* the same address.
LEMMA GoneStays ==
    ASSUME NEW d \in Document, NEW r \in Row, NEW y \in Signup, NEW k \in Row, Gone(d, k),
           k # r \/ (y.reason = d[r].reason /\ y.stopped = d[r].stopped),
           d[r] \in Signup => y.email = d[r].email,
           \/ y.confirmed = 0
           \/ d[r] \in Signup /\ y.confirmed = d[r].confirmed
           \/ y.email # d[k].email
    PROVE  Gone([d EXCEPT ![r] = y], k)
<1> DEFINE e == [d EXCEPT ![r] = y]
<1>1. \A j \in Row : e[j] = IF j = r THEN y ELSE d[j]
  BY DEF Document
<1> HIDE DEF e
<1>2. d[k] \in Signup /\ d[k].stopped \in Nat /\ y.status # "none"
  <2>1. d[k] \in Signup
    BY DocumentRows DEF Gone
  <2> QED
    BY <2>1 DEF Signup
<1>3. /\ e[k].status # "none" /\ e[k].reason = "unsubscribed"
      /\ e[k].email = d[k].email /\ e[k].stopped = d[k].stopped
  BY <1>1, <1>2 DEF Gone
<1>4. ASSUME NEW j \in RowsOf(e, d[k].email) PROVE e[j].confirmed <= d[k].stopped
  <2>1. j \in Row /\ e[j].status # "none" /\ e[j].email = d[k].email
    BY <1>4 DEF RowsOf
  <2>2. CASE j # r
    <3>1. j \in RowsOf(d, d[k].email) /\ e[j] = d[j]
      BY <1>1, <2>1, <2>2 DEF RowsOf
    <3> QED
      BY <3>1 DEF Gone
  <2>3. CASE j = r /\ y.confirmed = 0
    BY <1>1, <1>2, <2>3
  <2>4. CASE j = r /\ d[r] \in Signup /\ y.confirmed = d[r].confirmed
    <3>1. d[r].status # "none" /\ d[r].email = d[k].email /\ e[r] = y
      BY <1>1, <2>1, <2>4, DocumentRows
    <3>2. r \in RowsOf(d, d[k].email)
      BY <3>1 DEF RowsOf
    <3> QED
      BY <2>4, <3>1, <3>2 DEF Gone
  <2> QED
    BY <1>1, <2>1, <2>2, <2>3, <2>4
<1> QED
  BY <1>3, <1>4 DEF Gone, e

\* Steps that tell nobody anything.
LEMMA QuietStepKeepsOut ==
    ASSUME OutHeld, UNCHANGED <<optedOut, renewed>>,
           file'.ok => file' = file \/ OutKept(file.rows, {})',
           Sound("scheduler")' =>
              \/ Sound("scheduler") /\ proc'["scheduler"].doc = proc["scheduler"].doc
              \/ OutKept(proc["scheduler"].doc, {})',
           Sound("server")' =>
              \/ /\ Sound("server") /\ requests' = requests
                 /\ LET a == proc'["server"]
                        me == proc["server"]
                    IN  a.doc = me.doc /\ a.op = me.op /\ a.row = me.row /\ a.who = me.who
              \/ OutKept(proc["server"].doc, Leaving(proc["server"]))'
    PROVE  OutHeld'
<1>1. file'.ok => OutKept(file.rows, {})'
  BY DEF OutHeld, OutKept, Out
<1>2. Sound("scheduler")' => OutKept(proc["scheduler"].doc, {})'
  BY DEF OutHeld, OutKept, Out
<1>3. Sound("server")' => OutKept(proc["server"].doc, Leaving(proc["server"]))'
  BY DEF OutHeld, OutKept, Out, Leaving, Confirms
<1> QED
  BY <1>1, <1>2, <1>3 DEF OutHeld

\* What a followed link makes of the file lets nobody back in but whom it says.
LEMMA FollowKeepsOut ==
    ASSUME TypeOK, FileInv, OutKept(file.rows, {}),
           NEW op \in {"confirm", "unsubscribe", "renewed", "rearm"}, NEW r \in Row,
           NEW c \in 1..MaxCycle, Follow(op, r, c)
    PROVE  OutKept(proc["server"].doc, Leaving(proc["server"]))'
<1> DEFINE x == file.rows[r]
           t == requests + 1
           y == Served(op, x, t)
           doc == [file.rows EXCEPT ![r] = y]
<1>1. /\ x \in Signup /\ Honoured(op, x, c) /\ requests' = t /\ t \in Nat
      /\ proc'["server"].doc = doc /\ proc'["server"].op = op /\ proc'["server"].row = r
      /\ proc'["server"].who = x.email /\ UNCHANGED <<optedOut, renewed>>
      /\ file.rows \in Document
  <2>1. requests' = t /\ t \in Nat /\ file.rows \in Document
    <3>1. requests' = t
      BY FollowDoes
    <3>2. t \in Nat /\ file.rows \in Document
      BY DEF TypeOK
    <3> QED
      BY <3>1, <3>2
  <2>2. /\ x \in Signup /\ Honoured(op, x, c)
        /\ proc'["server"].doc = [file.rows EXCEPT ![r] = Served(op, x, requests')]
        /\ proc'["server"].op = op /\ proc'["server"].row = r
        /\ proc'["server"].who = x.email /\ UNCHANGED <<optedOut, renewed>>
    BY FollowDoes
  <2> QED
    BY <2>1, <2>2
<1>2. Out' = Out /\ Out \subseteq Row
  BY <1>1 DEF Out, TypeOK
<1>3. y \in Signup /\ y.email = x.email
  <2>1. x \in Signup /\ t \in Nat
    BY <1>1
  <2> HIDE DEF t, x
  <2> QED
    BY <2>1, ServedTyped
<1>4. doc[r] = y /\ doc \in Document
  BY <1>1, <1>3 DEF Document
<1>5. r \in RowsOf(doc, x.email)
  <2>1. y.status # "none"
    BY <1>3 DEF Signup
  <2> QED
    BY <1>3, <1>4, <2>1 DEF RowsOf
<1>6. \A k \in Out : Gone(file.rows, k)
  BY DEF OutKept
<1>7. \A k \in RowsOf(doc, x.email) : x.email = doc[k].email
  BY DEF RowsOf
<1> SUFFICES ASSUME NEW k \in Out, k \notin Leaving(proc["server"])' PROVE Gone(doc, k)
  BY <1>1, <1>2 DEF OutKept
<1>8. Gone(file.rows, k) /\ k \in Row
  BY <1>2, <1>6
<1>9. CASE op = "confirm" /\ x.status = "pending"
  <2>1. y.confirmed = t
    <3>1. y = Served("confirm", x, t)
      BY <1>9
    <3> HIDE DEF y, x, t
    <3> QED
      BY <1>1, <1>9, <3>1, ConfirmServed
  <2>2. k \notin RowsOf(doc, x.email)
    BY <1>1, <1>4, <1>9, <2>1 DEF Leaving, Confirms
  <2>3. k # r /\ y.email # file.rows[k].email
    <3>1. k # r
      BY <1>5, <2>2
    <3>2. doc[k] = file.rows[k] /\ file.rows[k].status # "none"
      BY <1>1, <1>8, <3>1 DEF Document, Gone
    <3> QED
      BY <1>3, <1>8, <2>2, <3>1, <3>2 DEF RowsOf
  <2> HIDE DEF y, x
  <2> QED
    BY <1>1, <1>3, <1>8, <2>3, GoneStays DEF x
<1>10. CASE op = "confirm" /\ x.status # "pending"
  <2>1. y = x
    BY <1>10 DEF Served
  <2> HIDE DEF y
  <2> QED
    BY <1>1, <1>3, <1>8, <2>1, GoneStays
<1>11. CASE op = "unsubscribe"
  <2>1. /\ y.status = "stopped" /\ y.reason = "unsubscribed" /\ y.stopped = t
        /\ y.confirmed = x.confirmed
    <3>1. x \in Signup /\ t \in Nat /\ op \in {"unsubscribe", "renewed", "rearm"}
      BY <1>1, <1>11
    <3> HIDE DEF x, t
    <3> QED
      BY <1>11, <3>1, ConfirmedBy
  <2>2. CASE k # r
    <3> HIDE DEF y
    <3> QED
      BY <1>1, <1>3, <1>8, <2>1, <2>2, GoneStays
  <2>3. CASE k = r
    <3>1. \A j \in Row : doc[j].confirmed <= t
      <4>1. \A j \in Row : file.rows[j].confirmed \in Nat /\ file.rows[j].confirmed <= requests
        BY <1>1, DocumentRows DEF FileInv, Numbered
      <4>2. \A j \in Row : doc[j].confirmed = file.rows[j].confirmed
        BY <1>1, <1>4, <2>1 DEF Document
      <4>3. requests \in Nat
        BY DEF TypeOK
      <4> HIDE DEF doc
      <4> QED
        BY <4>1, <4>2, <4>3
    <3> HIDE DEF doc, y
    <3> QED
      BY <1>4, <2>1, <2>3, <3>1 DEF Gone, RowsOf
  <2> QED
    BY <2>2, <2>3
<1>12. CASE op = "renewed"
  <2>1. y.confirmed = x.confirmed
    <3> HIDE DEF x, t
    <3> QED
      BY <1>1, <1>12, ConfirmedBy
  <2>2. k # r
    BY <1>1, <1>12 DEF Leaving, Confirms
  <2> HIDE DEF y
  <2> QED
    BY <1>1, <1>3, <1>8, <2>1, <2>2, GoneStays
<1>13. CASE op = "rearm"
  <2>1. y.confirmed = x.confirmed
    <3> HIDE DEF x, t
    <3> QED
      BY <1>1, <1>13, ConfirmedBy
  <2>2. k # r
    BY <1>1, <1>8, <1>13 DEF Honoured, Gone
  <2> HIDE DEF y
  <2> QED
    BY <1>1, <1>3, <1>8, <2>1, <2>2, GoneStays
<1> QED
  BY <1>9, <1>10, <1>11, <1>12, <1>13

LEMMA ServerKeepsOut ==
    TypeOK /\ TypeOK' /\ FileInv /\ OutInv /\ Server => OutInv'
<1> SUFFICES ASSUME TypeOK, TypeOK', FileInv, OutInv, Server PROVE OutInv'
  OBVIOUS
<1>1. /\ UNCHANGED <<file, spoilt, optedOut, renewed>> /\ proc'["scheduler"] = proc["scheduler"]
  <2>1. CASE \E e \in Email, s \in Slug : Subscribe(e, s)
    BY <2>1, SubscribeDoes
  <2>2. CASE AddPending
    BY <2>2, AddPendingDoes
  <2>3. CASE \E op \in {"confirm", "unsubscribe", "renewed", "rearm"}, r \in Row, c \in 1..MaxCycle :
                Follow(op, r, c)
    BY <2>3, FollowDoes
  <2> QED
    BY <2>1, <2>2, <2>3 DEF Server
<1>2. Sound("scheduler")' => /\ Sound("scheduler")
                             /\ proc'["scheduler"].doc = proc["scheduler"].doc
  BY <1>1 DEF Sound, Saving, At
<1>3. ASSUME StopInv',
             OutHeld => (Sound("server")' =>
                           OutKept(proc["server"].doc, Leaving(proc["server"]))')
      PROVE  OutInv'
  BY <1>1, <1>2, <1>3, QuietStepKeepsOut DEF OutInv
<1>4. ASSUME NEW e \in Email, NEW s \in Slug, Subscribe(e, s) PROVE OutInv'
  <2>1. ~Saving("server")'
    BY <1>4, SubscribeDoes DEF Saving, At
  <2> QED
    BY <1>3, <2>1 DEF StopInv, Sound
<1>5. CASE AddPending
  <2>1. CASE file.ok
    <3> DEFINE x == Pending(proc["server"].who, proc["server"].where)
               n == issued + 1
    <3>1. /\ x \in Signup /\ n \in Row /\ proc'["server"].doc = [file.rows EXCEPT ![n] = x]
          /\ proc'["server"].op = "subscribe"
      BY <1>5, <2>1, AddPendingDoes
    <3>2. x.confirmed = 0 /\ n > issued /\ file.rows \in Document
      BY DEF Pending, TypeOK
    <3> HIDE DEF x, n
    <3>3. file.rows[n] = NoRow /\ file.rows[n] \notin Signup
      <4>1. file.rows[n] = NoRow
        BY <3>1, <3>2 DEF FileInv, Numbered
      <4> QED
        BY <3>1, <3>2, <4>1, DocumentRows, NoRowIs
    <3>4. StopInv'
      BY <3>1 DEF StopInv
    <3>5. ASSUME OutHeld PROVE OutKept(proc["server"].doc, Leaving(proc["server"]))'
      <4>1. \A k \in Out : Gone(file.rows, k) /\ k \in Row
        BY <2>1, <3>5 DEF OutHeld, OutKept, Out, TypeOK
      <4>2. ASSUME NEW k \in Out PROVE Gone([file.rows EXCEPT ![n] = x], k)
        <5>1. k # n
          BY <3>3, <4>1, NoRowIs DEF Gone
        <5> QED
          BY <3>1, <3>2, <3>3, <4>1, <5>1, GoneStays
      <4> QED
        BY <1>1, <3>1, <4>2 DEF OutKept, Out
    <3> QED
      BY <1>3, <3>4, <3>5
  <2>2. CASE ~file.ok
    <3>1. ~Saving("server")'
      BY <1>5, <2>2, AddPendingDoes, IdleTyped DEF Saving, At
    <3> QED
      BY <1>3, <3>1 DEF StopInv, Sound
  <2> QED
    BY <2>1, <2>2
<1>6. ASSUME NEW op \in {"confirm", "unsubscribe", "renewed", "rearm"}, NEW r \in Row,
             NEW c \in 1..MaxCycle, Follow(op, r, c)
      PROVE  OutInv'
  <2>1. OutHeld => OutKept(proc["server"].doc, Leaving(proc["server"]))'
    BY <1>6, FollowDoes, FollowKeepsOut DEF OutHeld
  <2>2. StopInv'
    <3> SUFFICES ASSUME proc'["server"].op = "unsubscribe"
                 PROVE  LET x == proc'["server"].doc[proc'["server"].row]
                        IN  x.status = "stopped" /\ x.reason = "unsubscribed" /\ x.stopped = requests'
      BY DEF StopInv
    <3> DEFINE x == file.rows[r]
               t == requests'
               y == Served(op, x, t)
    <3>1. /\ x \in Signup /\ op = "unsubscribe" /\ proc'["server"].row = r
          /\ proc'["server"].doc = [file.rows EXCEPT ![r] = y]
      BY <1>6, FollowDoes
    <3>2. t \in Nat /\ file.rows \in Document /\ op \in {"unsubscribe", "renewed", "rearm"}
      BY <3>1 DEF TypeOK
    <3>3. proc'["server"].doc[proc'["server"].row] = y
      BY <3>1, <3>2 DEF Document
    <3> HIDE DEF x, t
    <3>4. y.status = "stopped" /\ y.reason = "unsubscribed" /\ y.stopped = t
      BY <3>1, <3>2, ConfirmedBy
    <3> QED
      BY <3>3, <3>4 DEF t
  <2> QED
    BY <1>3, <2>1, <2>2
<1> QED
  BY <1>4, <1>5, <1>6 DEF Server

\* A mark changes nothing that says who is gone.
LEMMA MarkKeepsOut ==
    ASSUME TypeOK, OutHeld, Mark
    PROVE  OutHeld'
<1> DEFINE me == proc["scheduler"]
           a == proc'["scheduler"]
           x == file.rows[me.row]
<1>1. /\ file.ok /\ UNCHANGED <<file, optedOut, renewed, requests>>
      /\ proc'["server"] = proc["server"] /\ file.rows \in Document
  BY MarkDoes DEF TypeOK
<1>2. Sound("server")' => Sound("server")
  BY <1>1 DEF Sound, Saving, At
<1>3. CASE x.status = "none"
  <2>1. ~Sound("scheduler")'
    BY <1>3, MarkDoes, DoneStage DEF Sound, Saving, At, Process
  <2> QED
    BY <1>1, <1>2, <2>1, QuietStepKeepsOut
<1>4. CASE x.status # "none"
  <2>1. /\ x \in Signup /\ \A k \in Row \ {me.row} : a.doc[k] = file.rows[k]
        /\ a.doc[me.row] = [x EXCEPT !.sent = @ \cup {me.tier}]
    BY <1>4, MarkDoes
  <2>2. /\ a.doc[me.row].status = x.status /\ a.doc[me.row].reason = x.reason
        /\ a.doc[me.row].email = x.email /\ a.doc[me.row].confirmed = x.confirmed
        /\ a.doc[me.row].stopped = x.stopped
    BY <2>1 DEF Signup
  <2>3. \A k \in Row :
           /\ a.doc[k].status = file.rows[k].status /\ a.doc[k].reason = file.rows[k].reason
           /\ a.doc[k].email = file.rows[k].email /\ a.doc[k].stopped = file.rows[k].stopped
           /\ a.doc[k].confirmed = file.rows[k].confirmed
    BY <2>1, <2>2
  <2>4. \A k \in Out : Gone(file.rows, k) /\ k \in Row
    BY <1>1 DEF OutHeld, OutKept, Out, TypeOK
  <2> HIDE DEF a
  <2>5. \A k \in Out : Gone(a.doc, k)
    BY <2>3, <2>4 DEF Gone, RowsOf
  <2>6. OutKept(proc["scheduler"].doc, {})'
    BY <1>1, <2>5 DEF OutKept, Out, a
  <2> QED
    BY <1>1, <1>2, <2>6, QuietStepKeepsOut
<1> QED
  BY <1>3, <1>4

\* The page "you are unsubscribed", or "confirmed", is shown when the file says so.
LEMMA ServerWriteKeepsOut ==
    ASSUME TypeOK, FileInv, OutInv, Write("server"), ~spoilt'.rows
    PROVE  OutHeld'
<1> DEFINE me == proc["server"]
<1>1. "server" \in Process /\ Other("server") = "scheduler"
  BY DEF Process, Other
<1>2. /\ At("server", "write")
      /\ file'.ok => file'.rows = me.doc
      /\ spoilt'.rows <=> (spoilt.rows \/ me.raced # "no")
      /\ Alike(proc["scheduler"], proc'["scheduler"])
      /\ Saving("scheduler") => proc'["scheduler"].raced # "no"
      /\ Told(me) /\ requests' = requests
  BY <1>1, WriteDoes
<1>3. proc'["server"].pc \in {"mail", "idle"}
  BY <1>1, WriteDoes, IdleTyped
<1>4. ~Sound("scheduler")' /\ ~Sound("server")'
  BY <1>2, <1>3 DEF Sound, Saving, At, Alike
<1>5. Sound("server") /\ OutHeld
  BY <1>2 DEF OutInv, Sound, Saving
<1>6. \A k \in Out \ Leaving(me) : Gone(me.doc, k)
  BY <1>5 DEF OutHeld, OutKept
<1>7. \A k \in Out' : Gone(me.doc, k)
  <2>1. CASE me.op = "unsubscribe"
    <3>1. Out' \subseteq Out \cup {me.row} /\ Leaving(me) = {}
      BY <1>2, <2>1 DEF Told, Out, Leaving, Confirms
    <3>2. Gone(me.doc, me.row)
      <4>1. /\ me.doc[me.row].status = "stopped" /\ me.doc[me.row].reason = "unsubscribed"
            /\ me.doc[me.row].stopped = requests
        BY <1>2, <2>1 DEF OutInv, StopInv, Saving
      <4>2. \A k \in Row : me.doc[k].confirmed <= requests
        BY <1>1 DEF FileInv, Numbered
      <4> HIDE DEF me
      <4> QED
        BY <4>1, <4>2 DEF Gone, RowsOf
    <3> QED
      BY <1>6, <3>1, <3>2
  <2>2. CASE me.op = "renewed"
    <3>1. Out' \subseteq Out \ {me.row} /\ Leaving(me) = {me.row}
      BY <1>2, <2>2 DEF Told, Out, Leaving, Confirms
    <3> QED
      BY <1>6, <3>1
  <2>3. CASE Confirms(me)
    <3>1. me.op = "confirm"
      BY <2>3 DEF Confirms
    <3>2. Leaving(me) = RowsOf(me.doc, me.who)
      BY <2>3 DEF Leaving
    <3>3. Out' \subseteq Out \ RowsOf(me.doc, me.who)
      BY <1>2, <2>3, <3>1 DEF Told, Out
    <3> QED
      BY <1>6, <3>2, <3>3
  <2>4. CASE me.op \notin {"unsubscribe", "renewed"} /\ ~Confirms(me)
    <3>1. Out' = Out /\ Leaving(me) = {}
      BY <1>2, <2>4 DEF Told, Out, Leaving
    <3> QED
      BY <1>6, <3>1
  <2> QED
    BY <2>1, <2>2, <2>3, <2>4
<1>8. file'.ok => OutKept(file.rows, {})'
  BY <1>2, <1>7 DEF OutKept
<1> QED
  BY <1>4, <1>8 DEF OutHeld

LEMMA SchedulerWriteKeepsOut ==
    ASSUME TypeOK, OutInv, Write("scheduler"), ~spoilt'.rows
    PROVE  OutHeld'
<1>1. "scheduler" \in Process /\ Other("scheduler") = "server"
  BY DEF Process, Other
<1>2. /\ At("scheduler", "write")
      /\ file'.ok => file'.rows = proc["scheduler"].doc
      /\ spoilt'.rows <=> (spoilt.rows \/ proc["scheduler"].raced # "no")
      /\ Alike(proc["server"], proc'["server"])
      /\ Saving("server") => proc'["server"].raced # "no"
      /\ proc'["scheduler"].pc = "next"
  BY <1>1, WriteDoes
<1>3. ~Sound("scheduler")' /\ ~Sound("server")'
  BY <1>2 DEF Sound, Saving, At, Alike
<1>4. UNCHANGED <<optedOut, renewed>>
  BY <1>1, WriteDoes, ToldTyped
<1>5. Sound("scheduler") /\ OutHeld
  BY <1>2 DEF OutInv, Sound, Saving
<1>6. file'.ok => OutKept(file.rows, {})'
  BY <1>2, <1>4, <1>5 DEF OutHeld, OutKept, Out
<1> QED
  BY <1>3, <1>6 DEF OutHeld

LEMMA NextOut == TypeOK /\ TypeOK' /\ FileInv /\ OutInv /\ [Next]_vars => OutInv'
<1> SUFFICES ASSUME TypeOK, TypeOK', FileInv, OutInv, [Next]_vars PROVE OutInv'
  OBVIOUS
<1> USE DEF OutInv
\* Steps that touch neither what anybody was told nor a copy of the file.
<1>1. ASSUME UNCHANGED <<optedOut, renewed, requests>>, spoilt'.rows = spoilt.rows,
             file' = file \/ ~file'.ok,
             \A p \in Process : Saving(p)' =>
                /\ Saving(p) /\ proc'[p].raced = proc[p].raced
                /\ proc'[p].doc = proc[p].doc /\ proc'[p].op = proc[p].op
                /\ proc'[p].row = proc[p].row /\ proc'[p].who = proc[p].who
      PROVE  OutInv'
  <2>1. "server" \in Process /\ "scheduler" \in Process
    BY DEF Process
  <2>2. StopInv'
    BY <1>1, <2>1 DEF StopInv
  <2> QED
    BY <1>1, <2>1, <2>2, QuietStepKeepsOut DEF Sound
<1>2. CASE Scheduler
  <2>1. StopInv' /\ (spoilt'.rows \/ OutHeld') => OutInv'
    OBVIOUS
  <2>2. CASE Mark
    <3>1. proc'["server"] = proc["server"] /\ UNCHANGED <<requests, spoilt>>
      BY <2>2, MarkDoes
    <3>2. StopInv'
      BY <3>1 DEF StopInv, Saving, At
    <3> QED
      BY <2>1, <2>2, <3>1, <3>2, MarkKeepsOut
  <2>3. ASSUME UNCHANGED <<optedOut, renewed, requests, file>>, spoilt'.rows = spoilt.rows,
               proc'["server"] = proc["server"],
               \/ proc'["scheduler"] = proc["scheduler"]
               \/ proc'["scheduler"].pc \in {"next", "mail", "idle"}
        PROVE  OutInv'
    BY <1>1, <2>3 DEF Process, Saving, At
  <2>4. CASE StartPass
    <3>1. proc'["scheduler"] = proc["scheduler"] \/ proc'["scheduler"].pc = "next"
      BY <2>4, StartPassDoes
    <3> QED
      BY <2>3, <2>4, <3>1, StartPassDoes
  <2>5. CASE EndPass
    <3>1. proc'["scheduler"].pc = "idle" /\ proc'["server"] = proc["server"]
      BY <2>5, EndPassDoes, OneMoves, IdleTyped DEF Process, Other
    <3> QED
      BY <2>3, <2>5, <3>1, EndPassDoes
  <2>6. ASSUME NEW r \in Row, SkipRow(r) PROVE OutInv'
    BY <2>3, <2>6 DEF SkipRow, mails
  <2>7. ASSUME NEW r \in Row, DueRow(r) PROVE OutInv'
    BY <2>3, <2>7, DueRowDoes
  <2> QED
    BY <1>2, <2>2, <2>4, <2>5, <2>6, <2>7 DEF Scheduler
<1>3. CASE Shared
  <2>1. PICK p \in Process : Truncate(p) \/ Write(p) \/ Check(p) \/ Post(p)
    BY <1>3 DEF Shared
  <2>2. \A k \in Process : k = p \/ k = Other(p)
    BY DEF Process, Other
  <2>3. CASE Truncate(p)
    BY <1>1, <2>2, <2>3, TruncateDoes DEF Saving, At
  <2>4. CASE Check(p)
    <3>1. ~Saving(p)'
      BY <2>4, CheckDoes, DoneStage DEF Saving, At, Process
    <3> QED
      BY <1>1, <2>2, <2>4, <3>1, CheckDoes DEF Saving, At
  <2>5. CASE Post(p)
    <3>1. ~Saving(p)'
      BY <2>5, PostDoes, IdleTyped DEF Saving, At, Process
    <3> QED
      BY <1>1, <2>2, <2>5, <3>1, PostDoes DEF Saving, At, Alike
  <2>6. CASE Write(p)
    <3>1. StopInv'
      <4>1. CASE p = "server"
        <5>1. ~Saving("server")'
          BY <2>6, <4>1, WriteDoes, IdleTyped DEF Saving, At
        <5> QED
          BY <5>1 DEF StopInv
      <4>2. CASE p = "scheduler"
        <5>1. Alike(proc["server"], proc'["server"]) /\ requests' = requests
          BY <2>6, <4>2, WriteDoes DEF Other
        <5> QED
          BY <5>1 DEF StopInv, Saving, At, Alike
      <4> QED
        BY <4>1, <4>2 DEF Process
    <3> QED
      BY <2>6, <3>1, ServerWriteKeepsOut, SchedulerWriteKeepsOut DEF Process
  <2> QED
    BY <2>1, <2>3, <2>4, <2>5, <2>6
<1>4. ASSUME NEW p \in Process, Kill(p) PROVE OutInv'
  <2>1. proc'[p] = Idle /\ proc'[Other(p)] = proc[Other(p)]
    BY <1>4, KillDoes, OneMoves
  <2>2. ~Saving(p)' /\ \A k \in Process : k = p \/ k = Other(p)
    BY <2>1, IdleTyped DEF Saving, At, Process, Other
  <2> QED
    BY <1>1, <1>4, <2>1, <2>2, KillDoes DEF Saving, At
<1>5. CASE NextDay
  BY <1>1, <1>5 DEF NextDay, Saving, At
<1>6. CASE UNCHANGED vars
  BY <1>1, <1>6 DEF vars, Saving, At
<1> QED
  BY <1>2, <1>3, <1>4, <1>5, <1>6, ServerKeepsOut DEF Next

\* Once a person has read "unsubscribed", no pass picks a row of the address
\* again, unless an update of the file was lost or they renewed afterwards.
THEOREM OptOutIsKept == Spec => OptOutHolds
<1>1. ASSUME TypeOK, OutInv, NEW r \in Row, DueRow(r)
      PROVE  \/ spoilt.rows
             \/ RowsOf(file.rows, pass.snap[r].email) \cap (optedOut \ renewed) = {}
  <2> DEFINE e == pass.snap[r].email
  <2>1. file.ok /\ ~Suppressed(file.rows, e)
    BY <1>1, DueRowDoes
  <2> HIDE DEF e
  <2> SUFFICES ASSUME ~spoilt.rows, NEW g \in RowsOf(file.rows, e), g \in Out PROVE FALSE
    BY DEF Out, e
  <2>2. Gone(file.rows, g)
    BY <1>1, <2>1 DEF OutInv, OutHeld, OutKept
  <2>3. file.rows[g].email = e /\ file.rows[g].reason = "unsubscribed"
    BY <2>2 DEF RowsOf, Gone
  <2> QED
    BY <2>1, <2>2, <2>3 DEF Suppressed, Gone
<1>2. TypeOK /\ OutInv /\ [Next]_vars =>
        [\A r \in Row : DueRow(r) =>
           \/ spoilt.rows
           \/ RowsOf(file.rows, pass.snap[r].email) \cap (optedOut \ renewed) = {}]_vars
  BY <1>1
<1>3. Spec => []OutInv
  <2>1. TypeOK /\ FileInv /\ OutInv /\ [Next]_vars /\ TypeOK' => OutInv'
    BY NextOut
  <2> QED
    BY <2>1, AllFacts, InitOut, PTL DEF Spec
<1> QED
  BY <1>2, <1>3, AllFacts, PTL DEF Spec, OptOutHolds


-----------------------------------------------------------------------------
(* One confirmation mail a day.                                            *)

\* Every copy has a signup at least as late as the last one that got its mail.
AskedKept(doc) ==
    \A e \in Email : asked[e] # -1 => \E r \in RowsOf(doc, e) : doc[r].made >= asked[e]

\* The signup under way is in this copy of the file.
Stored(doc, me) == me.row \in RowsOf(doc, me.who) /\ doc[me.row].made = me.made

\* The signup under way is a later one than the last that got its mail, and no
\* copy that may become the file is without it.
Newer(me) ==
    me.op = "subscribe" =>
      /\ me.pc = "add" => asked[me.who] < day
      /\ me.pc \in {"truncate", "write", "mail", "post"} => asked[me.who] < me.made
      /\ me.pc \in {"truncate", "write"} => Stored(me.doc, me)
      /\ me.pc \in {"mail", "post"} =>
           /\ file.ok => Stored(file.rows, me)
           /\ Sound("scheduler") => Stored(proc["scheduler"].doc, me)

AskedHeld ==
    /\ file.ok => AskedKept(file.rows)
    /\ \A p \in Process : Sound(p) => AskedKept(proc[p].doc)
    /\ Newer(proc["server"])

AskedInv == spoilt.rows \/ AskedHeld

LEMMA InitAsked == Init => AskedInv
<1> SUFFICES ASSUME Init PROVE AskedHeld
  BY DEF AskedInv
<1>1. /\ \A e \in Email : asked[e] = -1
      /\ \A p \in Process : proc[p] = Idle
  BY DEF Init
<1>2. /\ \A p \in Process : ~Sound(p)
      /\ proc["server"].op = "none"
  BY <1>1, IdleTyped DEF Sound, Saving, At, Process
<1> QED
  BY <1>1, <1>2 DEF AskedHeld, AskedKept, Newer

\* A copy that has every signup of another one.
Extends(d, b) ==
    \A k \in Row : d[k].status # "none" =>
        b[k].status # "none" /\ b[k].email = d[k].email /\ b[k].made = d[k].made

LEMMA RowsExtended ==
    ASSUME NEW d, NEW b, Extends(d, b)
    PROVE  /\ AskedKept(d) => AskedKept(b)
           /\ \A me : Stored(d, me) => Stored(b, me)
<1>1. \A e : \A k \in RowsOf(d, e) : k \in RowsOf(b, e) /\ b[k].made = d[k].made
  BY DEF Extends, RowsOf
<1> QED
  BY <1>1 DEF AskedKept, Stored

\* One record changed, or added, by a request.
LEMMA OneRowExtends ==
    ASSUME NEW d \in Document, NEW r \in Row, NEW y \in Signup,
           d[r].status # "none" => y.email = d[r].email /\ y.made = d[r].made
    PROVE  Extends(d, [d EXCEPT ![r] = y])
<1> DEFINE b == [d EXCEPT ![r] = y]
<1>1. \A k \in Row : b[k] = IF k = r THEN y ELSE d[k]
  BY DEF Document
<1>2. y.status # "none"
  BY DEF Signup
<1> HIDE DEF b
<1>3. Extends(d, b)
  BY <1>1, <1>2 DEF Extends
<1> QED
  BY <1>3 DEF b

\* Steps that post no confirmation and make no new copy of the file.
LEMMA QuietStepKeepsAsked ==
    ASSUME TypeOK, TypeOK', AskedHeld, UNCHANGED asked, file'.ok => file' = file, day <= day',
           \A p \in Process : Sound(p)' => Sound(p) /\ proc'[p].doc = proc[p].doc,
           LET a == proc'["server"]
               me == proc["server"]
           IN  a.op = "subscribe" =>
                 /\ me.op = "subscribe" /\ a.who = me.who /\ a.made = me.made
                 /\ a.row = me.row /\ a.doc = me.doc
                 /\ a.pc = "add" => me.pc = "add"
                 /\ a.pc \in {"truncate", "write"} => me.pc \in {"truncate", "write"}
                 /\ a.pc \in {"mail", "post"} => me.pc \in {"mail", "post"}
    PROVE  AskedHeld'
<1>1. file'.ok => AskedKept(file.rows)'
  BY DEF AskedHeld, AskedKept
<1>2. \A p \in Process : Sound(p)' => AskedKept(proc[p].doc)'
  BY DEF AskedHeld, AskedKept
<1>3. Newer(proc["server"])'
  <2> DEFINE me == proc["server"]
  <2>1. "server" \in Process /\ "scheduler" \in Process
    BY DEF Process
  <2>2. proc'["server"].op = "subscribe" /\ proc'["server"].pc = "add" => asked'[me.who] < day'
    <3>1. me.op = "subscribe" /\ me.pc = "add" => me.who \in Email
      BY DEF TypeOK, ServerStage
    <3>2. me.op = "subscribe" /\ me.pc = "add" => asked[me.who] \in Int /\ day \in Nat /\ day' \in Nat
      BY <3>1 DEF TypeOK
    <3>3. me.op = "subscribe" /\ me.pc = "add" => asked[me.who] < day
      BY DEF AskedHeld, Newer
    <3> QED
      BY <3>2, <3>3
  <2>3. Newer(me)
    BY DEF AskedHeld
  <2> QED
    BY <2>1, <2>2, <2>3 DEF Newer, Stored
<1> QED
  BY <1>1, <1>2, <1>3 DEF AskedHeld

LEMMA ServerKeepsAsked ==
    TypeOK /\ TypeOK' /\ FileInv /\ AskedInv /\ Server => AskedInv'
<1> SUFFICES ASSUME TypeOK, TypeOK', FileInv, AskedInv, Server, ~spoilt'.rows PROVE AskedHeld'
  BY DEF AskedInv
<1>1. UNCHANGED <<file, spoilt, asked, day>> /\ proc'["scheduler"] = proc["scheduler"]
  <2>1. CASE \E e \in Email, s \in Slug : Subscribe(e, s)
    BY <2>1, SubscribeDoes
  <2>2. CASE AddPending
    BY <2>2, AddPendingDoes
  <2>3. CASE \E op \in {"confirm", "unsubscribe", "renewed", "rearm"}, r \in Row, c \in 1..MaxCycle :
                Follow(op, r, c)
    BY <2>3, FollowDoes
  <2> QED
    BY <2>1, <2>2, <2>3 DEF Server
<1>2. AskedHeld /\ file.rows \in Document
  BY <1>1 DEF AskedInv, TypeOK
<1>3. ASSUME Newer(proc["server"])', Sound("server")' => AskedKept(proc["server"].doc)'
      PROVE  AskedHeld'
  <2>1. file'.ok => AskedKept(file.rows)'
    BY <1>1, <1>2 DEF AskedHeld, AskedKept
  <2>2. Sound("scheduler")' => AskedKept(proc["scheduler"].doc)'
    BY <1>1, <1>2 DEF AskedHeld, AskedKept, Sound, Saving, At, Process
  <2> QED
    BY <1>3, <2>1, <2>2 DEF AskedHeld, Process
<1>4. ASSUME NEW e \in Email, NEW s \in Slug, Subscribe(e, s) PROVE AskedHeld'
  <2>1. /\ proc'["server"].pc = "add" /\ proc'["server"].who = e /\ file.ok
        /\ \E since \in WindowStart : ~Recent(file.rows, e, s, since)
    BY <1>4, SubscribeDoes
  <2>2. PICK since \in {day, day - 1} : \A r \in RowsOf(file.rows, e) : ~(file.rows[r].made >= since)
    BY <2>1 DEF WindowStart, Recent
  <2>3. asked[e] \in Int /\ day \in Nat /\ \A r \in RowsOf(file.rows, e) : file.rows[r].made \in Nat
    <3>1. \A r \in Row : file.rows[r].made \in Nat
      <4>1. \A r \in Row : file.rows[r] \in Signup \/ file.rows[r] = NoRow
        BY <1>2 DEF Document
      <4>2. \A z \in Signup : z.made \in Nat
        BY DEF Signup
      <4>3. NoRow.made \in Nat
        BY DEF NoRow
      <4> QED
        BY <4>1, <4>2, <4>3
    <3> QED
      BY <3>1 DEF TypeOK, RowsOf
  <2>4. asked[e] < day
    <3>1. AskedKept(file.rows)
      BY <1>2, <2>1 DEF AskedHeld
    <3>2. CASE asked[e] = -1
      BY <2>3, <3>2
    <3>3. CASE asked[e] # -1
      <4>1. PICK r \in RowsOf(file.rows, e) : file.rows[r].made >= asked[e]
        BY <3>1, <3>3 DEF AskedKept
      <4> QED
        BY <2>2, <2>3, <4>1
    <3> QED
      BY <3>2, <3>3
  <2>5. Newer(proc["server"])' /\ ~Sound("server")'
    BY <1>1, <2>1, <2>4 DEF Newer, Sound, Saving, At
  <2> QED
    BY <1>3, <2>5
<1>5. CASE AddPending
  <2>1. CASE file.ok
    <3> DEFINE me == proc["server"]
               a == proc'["server"]
               x == Pending(me.who, me.where)
               n == issued + 1
    <3>1. /\ x \in Signup /\ n \in Row /\ a.doc = [file.rows EXCEPT ![n] = x]
          /\ a.row = n /\ a.who = me.who /\ a.made = day /\ a.pc = "truncate"
          /\ At("server", "add") /\ n > issued
      BY <1>5, <2>1, AddPendingDoes DEF TypeOK
    <3>2. x.email = me.who /\ x.made = day
      BY DEF Pending
    <3> HIDE DEF x, n, a
    <3>3. file.rows[n].status = "none"
      BY <3>1, NoRowIs DEF FileInv, Numbered
    <3>4. Extends(file.rows, a.doc)
      BY <1>2, <3>1, <3>3, OneRowExtends
    <3>5. AskedKept(a.doc)
      BY <1>2, <2>1, <3>4, RowsExtended DEF AskedHeld
    <3>6. a.doc[n] = x /\ x.status # "none"
      <4>1. a.doc[n] = x
        BY <1>2, <3>1 DEF Document
      <4> QED
        BY <3>1, <4>1 DEF Signup
    <3>7. Stored(a.doc, a)
      BY <3>1, <3>2, <3>6 DEF Stored, RowsOf
    <3>8. asked[me.who] < day
      BY <1>2, <3>1 DEF AskedHeld, Newer, TypeOK, ServerStage, At
    <3>9. Newer(proc["server"])'
      BY <1>1, <3>1, <3>7, <3>8 DEF Newer, Stored, a
    <3>10. AskedKept(proc["server"].doc)'
      BY <1>1, <3>5 DEF AskedKept, a
    <3> QED
      BY <1>3, <3>9, <3>10
  <2>2. CASE ~file.ok
    <3>1. proc'["server"].op = "none" /\ ~Sound("server")'
      BY <1>5, <2>2, AddPendingDoes, IdleTyped DEF Sound, Saving, At
    <3> QED
      BY <1>3, <3>1 DEF Newer
  <2> QED
    BY <2>1, <2>2
<1>6. ASSUME NEW op \in {"confirm", "unsubscribe", "renewed", "rearm"}, NEW r \in Row,
             NEW c \in 1..MaxCycle, Follow(op, r, c)
      PROVE  AskedHeld'
  <2> DEFINE x == file.rows[r]
             t == requests'
             y == Served(op, x, t)
             a == proc'["server"]
  <2>1. x \in Signup /\ file.ok /\ a.op = op /\ a.doc = [file.rows EXCEPT ![r] = y]
    BY <1>6, FollowDoes
  <2>2. t \in Nat
    BY DEF TypeOK
  <2>3. y \in Signup /\ y.email = x.email /\ y.made = x.made
    <3> HIDE DEF x, t
    <3> QED
      BY <2>1, <2>2, ServedTyped
  <2> HIDE DEF y, a
  <2>4. Extends(file.rows, a.doc)
    BY <1>2, <2>1, <2>3, OneRowExtends
  <2>5. AskedKept(a.doc)
    BY <1>2, <2>1, <2>4, RowsExtended DEF AskedHeld
  <2>6. AskedKept(proc["server"].doc)' /\ Newer(proc["server"])'
    BY <1>1, <2>1, <2>5 DEF AskedKept, Newer, a
  <2> QED
    BY <1>3, <2>6
<1> QED
  BY <1>4, <1>5, <1>6 DEF Server

LEMMA MarkKeepsAsked ==
    ASSUME TypeOK, TypeOK', AskedHeld, Mark
    PROVE  AskedHeld'
<1> DEFINE me == proc["scheduler"]
           a == proc'["scheduler"]
           x == file.rows[me.row]
<1>1. /\ file.ok /\ UNCHANGED <<file, asked, day>> /\ proc'["server"] = proc["server"]
  BY MarkDoes
<1>2. CASE x.status = "none"
  <2>1. ~Sound("scheduler")'
    BY <1>2, MarkDoes, DoneStage DEF Sound, Saving, At, Process
  <2>2. \A p \in Process : Sound(p)' => Sound(p) /\ proc'[p].doc = proc[p].doc
    BY <1>1, <2>1 DEF Sound, Saving, At, Process
  <2>3. day <= day'
    BY <1>1 DEF TypeOK
  <2> QED
    BY <1>1, <2>2, <2>3, QuietStepKeepsAsked
<1>3. CASE x.status # "none"
  <2>1. /\ x \in Signup /\ \A k \in Row \ {me.row} : a.doc[k] = file.rows[k]
        /\ a.doc[me.row] = [x EXCEPT !.sent = @ \cup {me.tier}]
    BY <1>3, MarkDoes
  <2>2. /\ a.doc[me.row].status = x.status /\ a.doc[me.row].email = x.email
        /\ a.doc[me.row].made = x.made
    BY <2>1 DEF Signup
  <2> HIDE DEF a
  <2>3. Extends(file.rows, a.doc)
    BY <2>1, <2>2 DEF Extends
  <2>4. AskedKept(a.doc) /\ AskedKept(file.rows)
    BY <1>1, <2>3, RowsExtended DEF AskedHeld
  <2>5. \A z : Stored(file.rows, z) => Stored(a.doc, z)
    BY <2>3, RowsExtended
  <2>6. Newer(proc["server"]) /\ (file.ok => AskedKept(file.rows))
    BY DEF AskedHeld
  <2>7. Newer(proc["server"])'
    BY <1>1, <2>5, <2>6 DEF Newer, Stored, a
  <2>8. AskedKept(proc["scheduler"].doc)' /\ (file'.ok => AskedKept(file.rows)')
    BY <1>1, <2>4 DEF AskedKept, a
  <2>9. Sound("server")' => AskedKept(proc["server"].doc)'
    BY <1>1 DEF AskedHeld, AskedKept, Sound, Saving, At, Process
  <2> QED
    BY <2>7, <2>8, <2>9 DEF AskedHeld, Process
<1> QED
  BY <1>2, <1>3

\* The signup is in the file before its mail goes out.
LEMMA ServerWriteKeepsAsked ==
    ASSUME TypeOK, AskedInv, Write("server"), ~spoilt'.rows
    PROVE  AskedHeld'
<1> DEFINE me == proc["server"]
           a == proc'["server"]
<1>1. "server" \in Process /\ Other("server") = "scheduler"
  BY DEF Process, Other
<1>2. /\ At("server", "write")
      /\ file'.ok => file'.rows = me.doc
      /\ spoilt'.rows <=> (spoilt.rows \/ me.raced # "no")
      /\ Alike(proc["scheduler"], proc'["scheduler"])
      /\ Saving("scheduler") => proc'["scheduler"].raced # "no"
      /\ UNCHANGED <<asked, day>>
      /\ \/ a.pc = "mail" /\ a.op = me.op /\ a.row = me.row /\ a.who = me.who /\ a.made = me.made
         \/ a = Idle
  BY <1>1, WriteDoes
<1>3. ~Sound("scheduler")' /\ ~Sound("server")'
  BY <1>2, IdleTyped DEF Sound, Saving, At, Alike
<1>4. Sound("server") /\ AskedHeld
  BY <1>2 DEF AskedInv, Sound, Saving
<1>5. file'.ok => AskedKept(file.rows)'
  BY <1>1, <1>2, <1>4 DEF AskedHeld, AskedKept
<1>6. Newer(proc["server"])'
  <2>1. CASE a = Idle
    BY <2>1, IdleTyped DEF Newer
  <2>2. CASE a.pc = "mail" /\ a.op = me.op /\ a.row = me.row /\ a.who = me.who /\ a.made = me.made
    <3> SUFFICES ASSUME me.op = "subscribe" PROVE Newer(proc["server"])'
      BY <2>2 DEF Newer
    <3>1. asked[me.who] < me.made /\ Stored(me.doc, me)
      BY <1>2, <1>4 DEF AskedHeld, Newer, At
    <3> QED
      BY <1>2, <1>3, <2>2, <3>1 DEF Newer, Stored
  <2> QED
    BY <1>2, <2>1, <2>2
<1> QED
  BY <1>3, <1>5, <1>6 DEF AskedHeld, Process

LEMMA SchedulerWriteKeepsAsked ==
    ASSUME TypeOK, AskedInv, Write("scheduler"), ~spoilt'.rows
    PROVE  AskedHeld'
<1> DEFINE me == proc["server"]
           a == proc'["server"]
<1>1. "scheduler" \in Process /\ Other("scheduler") = "server"
  BY DEF Process, Other
<1>2. /\ At("scheduler", "write")
      /\ file'.ok => file'.rows = proc["scheduler"].doc
      /\ spoilt'.rows <=> (spoilt.rows \/ proc["scheduler"].raced # "no")
      /\ Alike(me, a)
      /\ Saving("server") => a.raced # "no"
      /\ proc'["scheduler"].pc = "next"
      /\ UNCHANGED <<asked, day>>
  BY <1>1, WriteDoes
<1>3. ~Sound("scheduler")' /\ ~Sound("server")'
  BY <1>2 DEF Sound, Saving, At, Alike
<1>4. Sound("scheduler") /\ AskedHeld
  BY <1>2 DEF AskedInv, Sound, Saving
<1>5. file'.ok => AskedKept(file.rows)'
  BY <1>1, <1>2, <1>4 DEF AskedHeld, AskedKept
<1>6. Newer(proc["server"])'
  <2>1. Newer(me)
    BY <1>4 DEF AskedHeld
  <2> QED
    BY <1>2, <1>3, <1>4, <2>1 DEF Newer, Stored, Alike
<1> QED
  BY <1>3, <1>5, <1>6 DEF AskedHeld, Process

\* The mail of a signup is out: every copy left has that signup.
LEMMA ServerPostKeepsAsked ==
    ASSUME TypeOK, TypeOK', AskedHeld, Post("server")
    PROVE  AskedHeld'
<1> DEFINE me == proc["server"]
           s == proc["scheduler"]
<1>1. "server" \in Process /\ Other("server") = "scheduler"
  BY DEF Process, Other
<1>2. /\ At("server", "post") /\ proc'["server"] = Idle /\ file' = file
      /\ Alike(s, proc'["scheduler"]) /\ proc'["scheduler"].raced = s.raced
      /\ asked' = IF me.op = "subscribe" THEN [asked EXCEPT ![me.who] = me.made] ELSE asked
  BY <1>1, PostDoes
<1>3. ~Sound("server")' /\ Newer(proc["server"])'
  BY <1>2, IdleTyped DEF Sound, Saving, At, Newer
<1>4. Sound("scheduler")' => Sound("scheduler")
  BY <1>2 DEF Sound, Saving, At, Alike
<1>5. /\ file.ok => AskedKept(file.rows)
      /\ Sound("scheduler") => AskedKept(s.doc)
  BY DEF AskedHeld, Process
<1>6. CASE me.op = "subscribe"
  <2>1. /\ file.ok => Stored(file.rows, me)
        /\ Sound("scheduler") => Stored(s.doc, me)
    BY <1>2, <1>6 DEF AskedHeld, Newer, At
  <2>2. me.made \in Nat /\ \A e \in Email : asked'[e] = IF e = me.who THEN me.made ELSE asked[e]
    <3>1. me \in Activity
      BY <1>1 DEF TypeOK
    <3> QED
      BY <1>2, <1>6, <3>1 DEF TypeOK, Activity
  <2>3. ASSUME NEW d, AskedKept(d), Stored(d, me)
        PROVE  \A e \in Email : asked'[e] # -1 => \E r \in RowsOf(d, e) : d[r].made >= asked'[e]
    <3> SUFFICES ASSUME NEW e \in Email, asked'[e] # -1
                 PROVE  \E r \in RowsOf(d, e) : d[r].made >= asked'[e]
      OBVIOUS
    <3>1. CASE e = me.who
      <4>1. me.row \in RowsOf(d, e) /\ d[me.row].made = me.made
        BY <2>3, <3>1 DEF Stored
      <4>2. d[me.row].made >= asked'[e]
        BY <2>2, <3>1, <4>1
      <4> QED
        BY <4>1, <4>2
    <3>2. CASE e # me.who
      BY <2>2, <2>3, <3>2 DEF AskedKept
    <3> QED
      BY <3>1, <3>2
  <2>4. file'.ok => AskedKept(file.rows)'
    BY <1>2, <1>5, <2>1, <2>3 DEF AskedKept
  <2>5. Sound("scheduler")' => AskedKept(proc["scheduler"].doc)'
    BY <1>2, <1>4, <1>5, <2>1, <2>3 DEF AskedKept, Alike
  <2> QED
    BY <1>3, <2>4, <2>5 DEF AskedHeld, Process
<1>7. CASE me.op # "subscribe"
  BY <1>2, <1>3, <1>4, <1>5, <1>7 DEF AskedHeld, AskedKept, Alike, Process
<1> QED
  BY <1>6, <1>7

LEMMA NextAsked == TypeOK /\ TypeOK' /\ FileInv /\ AskedInv /\ [Next]_vars => AskedInv'
<1> SUFFICES ASSUME TypeOK, TypeOK', FileInv, AskedInv, [Next]_vars, ~spoilt'.rows
             PROVE  AskedHeld'
  BY DEF AskedInv
<1>1. CASE Server
  BY <1>1, ServerKeepsAsked DEF AskedInv
<1>3. day \in Nat
  BY DEF TypeOK
\* A step that leaves one process alone, and the other without a copy of the
\* file or with the one it had.
<1>4. ASSUME UNCHANGED <<asked, file, spoilt>>, day <= day', NEW p \in Process,
             ~Saving(p)', p = "server" => proc'[p].op = "none",
             Alike(proc[Other(p)], proc'[Other(p)]), proc'[Other(p)].raced = proc[Other(p)].raced
      PROVE  AskedHeld'
  <2>1. (\A k \in Process : k = p \/ k = Other(p)) /\ "server" \in Process
    BY DEF Process, Other
  <2>2. \A k \in Process : Sound(k)' => Sound(k) /\ proc'[k].doc = proc[k].doc
    BY <1>4, <2>1 DEF Sound, Saving, At, Alike
  <2>3. AskedHeld
    BY <1>4 DEF AskedInv
  <2>4. p # "server" => Alike(proc["server"], proc'["server"])
    BY <1>4, <2>1
  <2> QED
    BY <1>4, <2>2, <2>3, <2>4, QuietStepKeepsAsked DEF Alike
<1>5. CASE Scheduler
  <2>1. "scheduler" \in Process /\ Other("scheduler") = "server"
    BY DEF Process, Other
  <2>2. CASE Mark
    BY <2>2, MarkDoes, MarkKeepsAsked DEF AskedInv
  <2>3. ASSUME UNCHANGED <<asked, file, day>>, spoilt'.rows = spoilt.rows,
               proc'["server"] = proc["server"], ~Saving("scheduler")'
        PROVE  AskedHeld'
    <3>1. \A k \in Process : Sound(k)' => Sound(k) /\ proc'[k].doc = proc[k].doc
      BY <2>3 DEF Sound, Saving, At, Process
    <3> QED
      BY <1>3, <2>3, <3>1, QuietStepKeepsAsked DEF AskedInv
  <2>4. CASE StartPass
    <3>1. ~Saving("scheduler")'
      BY <2>4, StartPassDoes DEF Saving, At
    <3> QED
      BY <2>3, <2>4, <3>1, StartPassDoes
  <2>5. CASE EndPass
    <3>1. proc'["scheduler"] = Idle /\ proc'["server"] = proc["server"]
      BY <2>1, <2>5, EndPassDoes, OneMoves
    <3> QED
      BY <2>3, <2>5, <3>1, EndPassDoes, IdleTyped DEF Saving, At
  <2>6. ASSUME NEW r \in Row, SkipRow(r) PROVE AskedHeld'
    BY <2>3, <2>6 DEF SkipRow, Turn, mails, Saving, At
  <2>7. ASSUME NEW r \in Row, DueRow(r) PROVE AskedHeld'
    <3>1. ~Saving("scheduler")'
      BY <2>7, DueRowDoes DEF Saving, At
    <3> QED
      BY <2>3, <2>7, <3>1, DueRowDoes
  <2> QED
    BY <1>5, <2>2, <2>4, <2>5, <2>6, <2>7 DEF Scheduler
<1>6. CASE Shared
  <2>1. PICK p \in Process : Truncate(p) \/ Write(p) \/ Check(p) \/ Post(p)
    BY <1>6 DEF Shared
  <2>2. (\A k \in Process : k = p \/ k = Other(p)) /\ "server" \in Process
    BY DEF Process, Other
  <2>3. CASE Truncate(p)
    <3>1. /\ ~file'.ok /\ UNCHANGED <<asked, day, spoilt>> /\ At(p, "truncate")
          /\ proc'[Other(p)] = proc[Other(p)]
          /\ LET a == proc'[p]
                 me == proc[p]
             IN  /\ a.pc = "write" /\ a.op = me.op /\ a.row = me.row /\ a.who = me.who
                 /\ a.made = me.made /\ a.doc = me.doc /\ a.raced = me.raced
      BY <2>3, TruncateDoes
    <3>2. \A k \in Process : Sound(k)' => Sound(k) /\ proc'[k].doc = proc[k].doc
      BY <2>2, <3>1 DEF Sound, Saving, At
    <3>3. LET a == proc'["server"]
              me == proc["server"]
          IN  /\ a.op = me.op /\ a.who = me.who /\ a.made = me.made
              /\ a.row = me.row /\ a.doc = me.doc
              /\ a.pc = me.pc \/ (a.pc = "write" /\ me.pc = "truncate")
      BY <2>2, <3>1 DEF At
    <3> QED
      BY <1>3, <3>1, <3>2, <3>3, QuietStepKeepsAsked DEF AskedInv
  <2>4. CASE Check(p)
    <3>1. /\ UNCHANGED <<asked, day, file, spoilt>> /\ At(p, "mail")
          /\ proc'[Other(p)] = proc[Other(p)]
      BY <2>4, CheckDoes
    <3>2. CASE proc'[p] = Done(p)
      BY <1>3, <1>4, <3>1, <3>2, DoneStage DEF Alike, Saving, At, Process
    <3>3. CASE LET a == proc'[p]
                   me == proc[p]
               IN  /\ a.pc = "post" /\ a.op = me.op /\ a.row = me.row /\ a.who = me.who
                   /\ a.made = me.made /\ a.doc = me.doc
      <4>1. \A k \in Process : Sound(k)' => Sound(k) /\ proc'[k].doc = proc[k].doc
        BY <2>2, <3>1, <3>3 DEF Sound, Saving, At
      <4>2. LET a == proc'["server"]
                me == proc["server"]
            IN  /\ a.op = me.op /\ a.who = me.who /\ a.made = me.made
                /\ a.row = me.row /\ a.doc = me.doc
                /\ a.pc = me.pc \/ (a.pc = "post" /\ me.pc = "mail")
        BY <2>2, <3>1, <3>3 DEF At
      <4> QED
        BY <1>3, <3>1, <4>1, <4>2, QuietStepKeepsAsked DEF AskedInv
    <3> QED
      BY <2>4, <3>2, <3>3, CheckDoes
  <2>5. CASE Post(p) /\ p = "server"
    BY <2>5, PostDoes, ServerPostKeepsAsked DEF AskedInv
  <2>6. CASE Post(p) /\ p = "scheduler"
    <3>1. /\ UNCHANGED <<day, file>> /\ spoilt'.rows = spoilt.rows /\ Other(p) = "server"
          /\ Alike(proc["server"], proc'["server"]) /\ proc'["server"].raced = proc["server"].raced
          /\ proc'["scheduler"].pc = "mark"
      BY <2>6, PostDoes DEF Other
    <3>2. asked' = asked
      <4>1. proc[p].op = "remind"
        BY <2>6, PostDoes DEF TypeOK, SchedulerStage, At
      <4> QED
        BY <2>6, <4>1, PostDoes
    <3>3. \A k \in Process : Sound(k)' => Sound(k) /\ proc'[k].doc = proc[k].doc
      BY <3>1 DEF Sound, Saving, At, Alike, Process
    <3> QED
      BY <1>3, <3>1, <3>2, <3>3, QuietStepKeepsAsked DEF AskedInv, Alike
  <2>7. CASE Write(p)
    BY <2>7, ServerWriteKeepsAsked, SchedulerWriteKeepsAsked DEF Process
  <2> QED
    BY <2>1, <2>3, <2>4, <2>5, <2>6, <2>7 DEF Process
<1>7. ASSUME NEW p \in Process, Kill(p) PROVE AskedHeld'
  <2>1. /\ proc'[p] = Idle /\ proc'[Other(p)] = proc[Other(p)] /\ UNCHANGED <<asked, day, file>>
        /\ spoilt'.rows = spoilt.rows
    BY <1>7, KillDoes, OneMoves
  <2>2. \A k \in Process : k = p \/ k = Other(p)
    BY DEF Process, Other
  <2>3. \A k \in Process : Sound(k)' => Sound(k) /\ proc'[k].doc = proc[k].doc
    BY <2>1, <2>2, IdleTyped DEF Sound, Saving, At
  <2>4. proc'["server"].op = "subscribe" => proc'["server"] = proc["server"]
    BY <2>1, <2>2, IdleTyped DEF Process
  <2> QED
    BY <1>3, <2>1, <2>3, <2>4, QuietStepKeepsAsked DEF AskedInv
<1>8. ASSUME UNCHANGED <<asked, file, spoilt, proc>>, day <= day' PROVE AskedHeld'
  BY <1>8, QuietStepKeepsAsked DEF AskedInv, Sound, Saving, At
<1>9. CASE NextDay
  <2>1. UNCHANGED <<asked, file, spoilt, proc>> /\ day' = day + 1
    BY <1>9 DEF NextDay
  <2> QED
    BY <1>3, <1>8, <2>1
<1>10. CASE UNCHANGED vars
  <2>1. UNCHANGED <<asked, file, spoilt, proc, day>>
    BY <1>10 DEF vars
  <2> QED
    BY <1>3, <1>8, <2>1
<1> QED
  BY <1>1, <1>5, <1>6, <1>7, <1>9, <1>10 DEF Next

\* An address gets one confirmation mail for the signups of one day, in
\* whatever order the two processes save, unless an update of the file was lost.
THEOREM OneMailPerDay == Spec => OneConfirmationADay
<1>1. ASSUME TypeOK, AskedInv, [Next]_vars, NEW e \in Email, At("server", "post"),
             proc'["server"].pc = "idle", posted' > posted, proc["server"].op = "subscribe",
             proc["server"].who = e, ~spoilt.rows
      PROVE  asked'[e] # asked[e]
  <2> DEFINE me == proc["server"]
  <2>1. asked[e] < me.made
    BY <1>1 DEF AskedInv, AskedHeld, Newer, At
  <2>2. me.made \in Nat /\ asked \in [Email -> Int] /\ posted \in Nat
    <3>1. me \in Activity
      BY <1>1 DEF TypeOK, Process
    <3> QED
      BY <1>1, <3>1 DEF TypeOK, Activity
  <2>3. Post("server")
    <3>1. posted' # posted
      BY <1>1, <2>2
    <3>2. \E p \in Process : Post(p)
      BY <1>1, <3>1 DEF Next, Server, Scheduler, Shared, Subscribe, AddPending, Follow, StartPass,
         Mark, EndPass, SkipRow, DueRow, Truncate, Write, Check, Kill, NextDay, vars, mails, At
    <3>3. ~Post("scheduler")
      <4>1. "scheduler" \in Process /\ Other("scheduler") = "server"
        BY DEF Process, Other
      <4> QED
        BY <1>1, <4>1, PostDoes DEF Alike, At
    <3> QED
      BY <3>2, <3>3 DEF Process
  <2>4. asked' = [asked EXCEPT ![e] = me.made]
    BY <1>1, <2>3, PostDoes DEF Process
  <2> QED
    BY <2>1, <2>2, <2>4
<1>2. TypeOK /\ AskedInv /\ [Next]_vars =>
        [\A e \in Email :
           /\ At("server", "post") /\ proc'["server"].pc = "idle" /\ posted' > posted
           /\ proc["server"].op = "subscribe" /\ proc["server"].who = e
           => spoilt.rows \/ asked'[e] # asked[e]]_vars
  BY <1>1
<1>3. Spec => []AskedInv
  <2>1. TypeOK /\ FileInv /\ AskedInv /\ [Next]_vars /\ TypeOK' => AskedInv'
    BY NextAsked
  <2> QED
    BY <2>1, AllFacts, InitAsked, PTL DEF Spec
<1> QED
  BY <1>2, <1>3, AllFacts, PTL DEF Spec, OneConfirmationADay
=============================================================================
