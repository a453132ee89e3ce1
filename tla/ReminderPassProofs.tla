-------------------------- MODULE ReminderPassProofs --------------------------
(***************************************************************************)
(* Proofs about ReminderPass, for every set of rows, passes and tiers and  *)
(* for every bound, and, in its last part, about the deadlines it reminds  *)
(* of (Deadlines), for every set of rules and every walk.                  *)
(***************************************************************************)
EXTENDS ReminderPass, Deadlines, FiniteSetTheorems, TLAPS, WellFoundedInduction

-----------------------------------------------------------------------------
(* The tiers.                                                              *)

\* Smallest picks a member below all the others.
LEMMA SmallestIsLeast ==
    ASSUME NEW S, S \subseteq Nat, S # {}
    PROVE  Smallest(S) \in S /\ \A u \in S : Smallest(S) <= u
<1> DEFINE Less == {ss \in Nat \X Nat : ss[1] < ss[2]}
<1>1. IsWellFoundedOn(Less, Nat)
  BY NatLessThanWellFounded, Zenon DEF OpToRel
<1> HIDE DEF Less
<1>2. PICK t \in S : \A u \in S : ~ (<<u, t>> \in Less)
  BY <1>1, WFMin, Zenon
<1>3. ASSUME NEW u \in S PROVE t <= u
  <2>1. <<u, t>> \notin Less
    BY <1>2, Zenon
  <2>2. u \in Nat /\ t \in Nat
    OBVIOUS
  <2>3. ~ (u < t)
    BY <2>1, <2>2 DEF Less
  <2> QED
    BY <2>2, <2>3
<1> QED
  BY <1>3 DEF Smallest

\* The thresholds of a row are default tiers, and there is at least one.
LEMMA ThresholdsAreTiers ==
    ASSUME NEW r \in Row
    PROVE  ThresholdsOf(r) \subseteq Tiers /\ ThresholdsOf(r) # {}
BY TierAssumption DEF ThresholdsOf

\* Day arithmetic stays in the integers.
LEMMA DeadlineType ==
    ASSUME NEW r \in Row, NEW d \in Nat
    PROVE  Deadline(r, d) \in Int /\ DaysRemaining(r, d) \in Int
BY BoundAssumption DEF Deadline, DaysRemaining

\* What nextDueThreshold returns is due and is the smallest such tier.
LEMMA NextDueIsLeast ==
    ASSUME NEW days \in Int, NEW sent \in SUBSET Tiers,
           NEW tiers \in SUBSET Tiers, NextDue(days, sent, tiers) # 0
    PROVE  /\ NextDue(days, sent, tiers) \in DueTiers(days, sent, tiers)
           /\ \A u \in DueTiers(days, sent, tiers) :
                  NextDue(days, sent, tiers) <= u
<1>1. DueTiers(days, sent, tiers) # {}
  BY DEF NextDue
<1>2. DueTiers(days, sent, tiers) \subseteq Nat
  BY TierAssumption DEF DueTiers
<1> QED
  BY <1>1, <1>2, SmallestIsLeast DEF NextDue

\* A pass is given a tier of the row's schedule, or none.
LEMMA TierForType ==
    ASSUME NEW r \in Row, NEW d \in Nat, NEW sent \in SUBSET Tiers
    PROVE  TierFor(r, d, sent) \in Tiers \cup {0}
<1>1. CASE DaysRemaining(r, d) >= -Grace
  <2>1. TierFor(r, d, sent) = NextDue(DaysRemaining(r, d), sent, ThresholdsOf(r))
    BY <1>1 DEF TierFor
  <2>2. TierFor(r, d, sent) # 0 =>
            TierFor(r, d, sent) \in
                DueTiers(DaysRemaining(r, d), sent, ThresholdsOf(r))
    BY <2>1, NextDueIsLeast, DeadlineType, ThresholdsAreTiers
  <2> QED
    BY <2>2, ThresholdsAreTiers DEF DueTiers
<1>2. CASE ~ (DaysRemaining(r, d) >= -Grace)
  <2>1. Smallest(ThresholdsOf(r)) \in Tiers
    BY SmallestIsLeast, ThresholdsAreTiers, TierAssumption
  <2> QED
    BY <1>2, <2>1 DEF TierFor
<1> QED
  BY <1>1, <1>2

\* Once the tier a pass was given is recorded, the row has none left that day.
LEMMA OneTierADay ==
    ASSUME NEW r \in Row, NEW d \in Nat, NEW sent \in SUBSET Tiers,
           TierFor(r, d, sent) # 0
    PROVE  /\ TierFor(r, d, sent) \notin sent
           /\ TierFor(r, d, sent \cup {TierFor(r, d, sent)}) = 0
<1> DEFINE t == TierFor(r, d, sent)
           days == DaysRemaining(r, d)
           tiers == ThresholdsOf(r)
<1>1. CASE days >= -Grace
  <2>1. t = NextDue(days, sent, tiers)
    BY <1>1 DEF TierFor
  <2>2. t \in DueTiers(days, sent, tiers)
        /\ \A u \in DueTiers(days, sent, tiers) : t <= u
    BY <2>1, NextDueIsLeast, DeadlineType, ThresholdsAreTiers
  <2>3. t \notin sent
    BY <2>2 DEF DueTiers
  <2>4. ASSUME NEW u \in DueTiers(days, sent \cup {t}, tiers) PROVE FALSE
    <3>1. u \in DueTiers(days, sent, tiers) /\ u < t
      BY <2>4 DEF DueTiers
    <3>2. u \in Nat /\ t \in Nat
      BY <2>2, <3>1, ThresholdsAreTiers, TierAssumption DEF DueTiers
    <3> QED
      BY <2>2, <3>1, <3>2
  <2>5. TierFor(r, d, sent \cup {t}) = 0
    BY <1>1, <2>4 DEF TierFor, NextDue
  <2> QED
    BY <2>3, <2>5
<1>2. CASE ~ (days >= -Grace)
  <2>1. sent = {}
    BY <1>2 DEF TierFor
  <2>2. sent \cup {t} # {}
    OBVIOUS
  <2>3. TierFor(r, d, sent \cup {t}) = 0
    BY <1>2, <2>2 DEF TierFor
  <2> QED
    BY <2>1, <2>3
<1> QED
  BY <1>1, <1>2

-----------------------------------------------------------------------------
(* Type correctness.                                                       *)

LEMMA InitTyped == Init => TypeOK
BY RowAssumption DEF Init, TypeOK, PassTypeOK, IdlePass, NewRow, RowRecord,
                     PassRecord

\* A pass that changes its own locals to a well-formed record stays typed.
LEMMA BecomeTyped ==
    ASSUME PassTypeOK, NEW p \in Pass, NEW local \in PassRecord,
           local.pc \notin {"idle", "loop"} =>
               local.cur \in Row /\ local.tier \in Tiers,
           Become(p, local)
    PROVE  PassTypeOK'
BY DEF Become, PassTypeOK

LEMMA MovesTyped ==
    ASSUME PassTypeOK, NEW p \in Pass
    PROVE  /\ Continue(p) => PassTypeOK'
           /\ Finish(p) => PassTypeOK'
           /\ pass[p].pc \notin {"idle", "loop"} /\ Catch(p) => PassTypeOK'
           /\ \A pc \in {"claim", "send", "unread"} :
                  pass[p].pc \notin {"idle", "loop"} /\ Goto(p, pc)
                  => PassTypeOK'
<1>0. pass[p] \in PassRecord
  BY DEF PassTypeOK
<1>1. ASSUME Continue(p) PROVE PassTypeOK'
  <2> DEFINE local == [pass[p] EXCEPT !.pc = "loop", !.cur = NoRow, !.tier = 0,
                              !.epoch = 0, !.had = {}, !.caught = FALSE,
                              !.undone = FALSE, !.halt = FALSE]
  <2>1. local \in PassRecord /\ local.pc = "loop"
    BY <1>0 DEF PassRecord
  <2>2. Become(p, local)
    BY <1>1 DEF Continue
  <2> HIDE DEF local
  <2> QED
    BY <2>1, <2>2, BecomeTyped
<1>2. ASSUME Finish(p) PROVE PassTypeOK'
  <2>1. IdlePass \in PassRecord /\ IdlePass.pc = "idle"
    BY DEF IdlePass, NewRow, PassRecord, RowRecord
  <2> QED
    BY <1>2, <2>1, BecomeTyped DEF Finish
<1>3. ASSUME Catch(p), pass[p].pc \notin {"idle", "loop"} PROVE PassTypeOK'
  <2> DEFINE local == [pass[p] EXCEPT !.pc = "unread", !.had = {},
                                      !.caught = TRUE, !.halt = FALSE]
  <2>1. local \in PassRecord /\ local.cur = pass[p].cur
        /\ local.tier = pass[p].tier
    BY <1>0 DEF PassRecord
  <2>2. Become(p, local)
    BY <1>3 DEF Catch
  <2>3. pass[p].cur \in Row /\ pass[p].tier \in Tiers
    BY <1>3 DEF PassTypeOK
  <2> HIDE DEF local
  <2> QED
    BY <2>1, <2>2, <2>3, BecomeTyped
<1>4. ASSUME NEW pc \in {"claim", "send", "unread"}, Goto(p, pc),
             pass[p].pc \notin {"idle", "loop"}
      PROVE  PassTypeOK'
  <2> DEFINE local == [pass[p] EXCEPT !.pc = pc]
  <2>1. local \in PassRecord /\ local.cur = pass[p].cur
        /\ local.tier = pass[p].tier
    BY <1>0 DEF PassRecord
  <2>2. Become(p, local)
    BY <1>4 DEF Goto
  <2>3. pass[p].cur \in Row /\ pass[p].tier \in Tiers
    BY <1>4 DEF PassTypeOK
  <2> HIDE DEF local
  <2> QED
    BY <2>1, <2>2, <2>3, BecomeTyped
<1> QED
  BY <1>1, <1>2, <1>3, <1>4

\* The steps of the subscribers and of the dashboard keep the types.
LEMMA RowStepTyped ==
    ASSUME TypeOK, NEW r \in Row, Subscriber(r) \/ Dashboard(r)
    PROVE  TypeOK'
<1> USE DEF TypeOK
<1>0. row[r] \in RowRecord
  OBVIOUS
<1>1. Deadline(r, day) \in Int
  BY DeadlineType
<1>2. ASSUME Reset(r) PROVE TypeOK'
  <2>1. PassTypeOK'
    BY <1>2 DEF Reset, PassTypeOK
  <2>2. row' \in [Row -> RowRecord]
    BY <1>0, <1>2 DEF Reset, RowRecord
  <2> QED
    BY <1>2, <2>1, <2>2 DEF Reset, Touch
<1>3. CASE RenewAndRearm(r)
  BY <1>1, <1>2, <1>3 DEF RenewAndRearm
<1>4. CASE Rearm(r)
  BY <1>2, <1>4 DEF Rearm
<1>5. ASSUME NEW reason \in {"unsubscribed", "renewed"}, Stop(r, reason)
      PROVE  TypeOK'
  <2>1. PassTypeOK'
    BY <1>5 DEF Stop, PassTypeOK
  <2>2. row' \in [Row -> RowRecord]
    <3>1. [row[r] EXCEPT !.status = "stopped", !.reason = reason] \in RowRecord
      BY <1>0 DEF RowRecord
    <3> QED
      BY <1>5, <3>1 DEF Stop
  <2> QED
    BY <1>5, <2>1, <2>2 DEF Stop, history
<1>6. ASSUME Snooze(r) PROVE TypeOK'
  <2>1. PassTypeOK'
    BY <1>6 DEF Snooze, PassTypeOK
  <2> DEFINE due == Deadline(r, day)
             wanted == day + SnoozeDays
             until == IF wanted > due - 1 THEN due - 1 ELSE wanted
  <2>2. until \in Int /\ row' = [row EXCEPT ![r].snoozed = until]
    BY <1>1, <1>6, BoundAssumption DEF Snooze
  <2> HIDE DEF until
  <2>3. row' \in [Row -> RowRecord]
    BY <1>0, <2>2 DEF RowRecord
  <2> QED
    BY <1>6, <2>1, <2>3 DEF Snooze, history
<1>7. CASE EditRead(r)
  BY <1>0, <1>7 DEF EditRead, history, PassTypeOK
<1>8. ASSUME EditWrite(r) PROVE TypeOK'
  <2>1. PassTypeOK'
    BY <1>8 DEF EditWrite, PassTypeOK
  <2>2. PICK old \in draft[r] :
            /\ row' = [row EXCEPT ![r] = [@ EXCEPT !.status = old.status,
                                             !.reason = old.reason,
                                             !.sent = old.sent]]
            /\ draft' = [draft EXCEPT ![r] = {}]
            /\ Touch(r)
            /\ UNCHANGED <<day, pass, budget, handed, okSent, dup, lost>>
    BY <1>8, Zenon DEF EditWrite
  <2>3. old \in RowRecord
    OBVIOUS
  <2>4. [row[r] EXCEPT !.status = old.status, !.reason = old.reason,
                       !.sent = old.sent] \in RowRecord
    BY <1>0, <2>3 DEF RowRecord
  <2>5. row' \in [Row -> RowRecord]
    BY <2>2, <2>4
  <2>6. disturbed' \subseteq Row
    BY <1>8 DEF EditWrite
  <2> QED
    BY <2>1, <2>2, <2>5, <2>6 DEF Touch
<1> QED
  BY <1>3, <1>4, <1>5, <1>6, <1>7, <1>8 DEF Subscriber, Dashboard

\* A claim or an unclaim writes a set of tiers into one row.
LEMMA SetSentTyped ==
    ASSUME row \in [Row -> RowRecord], NEW r \in Row, NEW S \in SUBSET Tiers,
           row' = [row EXCEPT ![r].sent = S]
    PROVE  row' \in [Row -> RowRecord]
<1>1. [row[r] EXCEPT !.sent = S] \in RowRecord
  BY DEF RowRecord
<1> QED
  BY <1>1

\* The steps of a pass up to the claim keep the types.
LEMMA EarlyStepTyped ==
    ASSUME TypeOK, NEW p \in Pass,
           \/ StartPass(p) \/ Visit(p) \/ EndPass(p) \/ CheckSuppressed(p)
           \/ Skip(p) \/ Claim(p) \/ ClaimUnheard(p)
    PROVE  TypeOK'
<1> USE DEF TypeOK
<1> DEFINE r == pass[p].cur
           t == pass[p].tier
<1>0. pass[p] \in PassRecord
  BY DEF PassTypeOK
<1>a. pass[p].pc \notin {"idle", "loop"} => r \in Row /\ t \in Tiers
  BY DEF PassTypeOK
<1>1. ASSUME StartPass(p) PROVE TypeOK'
  <2> DEFINE local == [IdlePass EXCEPT
                         !.pc = "loop", !.asOf = day, !.snap = row,
                         !.todo = {q \in Row : row[q].status = "confirmed"}]
  <2>1. local \in PassRecord /\ local.pc = "loop"
    BY DEF IdlePass, PassRecord
  <2>2. Become(p, local)
    BY <1>1 DEF StartPass
  <2> HIDE DEF local
  <2>3. PassTypeOK'
    BY <2>1, <2>2, BecomeTyped
  <2> QED
    BY <1>1, <2>3 DEF StartPass, history
<1>2. ASSUME Visit(p) PROVE TypeOK'
  <2>1. PICK q \in pass[p].todo :
            LET seen == pass[p].snap[q]
                tier == TierFor(q, pass[p].asOf, seen.sent)
                quiet == seen.snoozed >= pass[p].asOf \/ tier = 0
            IN  IF quiet
                THEN Become(p, [pass[p] EXCEPT !.todo = @ \ {q}])
                ELSE Become(p, [pass[p] EXCEPT !.todo = @ \ {q},
                                               !.pc = "check",
                                               !.cur = q, !.tier = tier])
    BY <1>2, Zenon DEF Visit
  <2>2. q \in Row /\ pass[p].snap[q] \in RowRecord /\ pass[p].asOf \in Nat
    BY <1>0 DEF PassRecord
  <2> DEFINE tier == TierFor(q, pass[p].asOf, pass[p].snap[q].sent)
             skip == [pass[p] EXCEPT !.todo = @ \ {q}]
             take == [pass[p] EXCEPT !.todo = @ \ {q}, !.pc = "check",
                                     !.cur = q, !.tier = tier]
  <2>3. tier \in Tiers \cup {0}
    BY <2>2, TierForType DEF RowRecord
  <2>4. skip \in PassRecord /\ skip.pc = "loop"
    BY <1>0, <1>2 DEF PassRecord, Visit
  <2>5. take \in PassRecord /\ take.cur \in Row /\ take.tier = tier
    BY <1>0, <2>2, <2>3 DEF PassRecord
  <2>6. Become(p, skip) \/ (tier # 0 /\ Become(p, take))
    BY <2>1
  <2> HIDE DEF tier, skip, take
  <2>7. PassTypeOK'
    BY <2>3, <2>4, <2>5, <2>6, BecomeTyped
  <2> QED
    BY <1>2, <2>7 DEF Visit, history
<1>3. CASE EndPass(p)
  BY <1>3, MovesTyped DEF EndPass, history
<1>4. CASE CheckSuppressed(p)
  BY <1>4, MovesTyped DEF CheckSuppressed, history
<1>5. CASE Skip(p)
  BY <1>5, <1>a, MovesTyped DEF Skip
<1>6. ASSUME Claim(p) PROVE TypeOK'
  <2>1. r \in Row /\ t \in Tiers /\ pass[p].snap[r] \in RowRecord
    BY <1>0, <1>6, <1>a DEF Claim, PassRecord
  <2>2. CASE Claimable(p)
    <3> DEFINE local == [pass[p] EXCEPT !.pc = "count", !.epoch = row[r].cycle]
    <3>1. local \in PassRecord /\ local.cur = r /\ local.tier = t
      BY <1>0, <2>1 DEF PassRecord, RowRecord
    <3>2. Become(p, local)
      BY <1>6, <2>2 DEF Claim
    <3>3. row' = [row EXCEPT ![r].sent = pass[p].snap[r].sent \cup {t}]
      BY <1>6, <2>2 DEF Claim
    <3> HIDE DEF local
    <3>4. PassTypeOK'
      BY <2>1, <3>1, <3>2, BecomeTyped
    <3>5. pass[p].snap[r].sent \cup {t} \in SUBSET Tiers
      BY <2>1 DEF RowRecord
    <3>6. row' \in [Row -> RowRecord]
      BY <2>1, <3>3, <3>5, SetSentTyped
    <3> QED
      BY <1>6, <3>4, <3>6 DEF Claim, history
  <2>3. CASE ~ Claimable(p)
    BY <1>6, <2>3, MovesTyped DEF Claim, history
  <2> QED
    BY <2>2, <2>3
<1>7. ASSUME ClaimUnheard(p) PROVE TypeOK'
  <2>1. r \in Row /\ t \in Tiers /\ pass[p].snap[r] \in RowRecord
    BY <1>0, <1>7, <1>a DEF ClaimUnheard, PassRecord
  <2>2. pass[p].snap[r].sent \cup {t} \in SUBSET Tiers
    BY <2>1 DEF RowRecord
  <2>3. row' = [row EXCEPT ![r].sent = pass[p].snap[r].sent \cup {t}]
    BY <1>7 DEF ClaimUnheard
  <2>4. row' \in [Row -> RowRecord]
    BY <2>1, <2>2, <2>3, SetSentTyped
  <2>5. lost' \in [Row -> SUBSET Tiers]
    BY <1>7, <2>1 DEF ClaimUnheard
  <2> QED
    BY <1>7, <2>4, <2>5, MovesTyped DEF ClaimUnheard
<1> QED
  BY <1>1, <1>2, <1>3, <1>4, <1>5, <1>6, <1>7

\* The steps of a pass from the count on keep the types.
LEMMA LateStepTyped ==
    ASSUME TypeOK, NEW p \in Pass,
           \/ CountSend(p) \/ CountThrows(p) \/ SendOk(p) \/ SendFalse(p)
           \/ UnclaimRead(p) \/ UnclaimWrite(p) \/ UnclaimThrows(p)
           \/ UnclaimUnheard(p) \/ Kill(p)
    PROVE  TypeOK'
<1> USE DEF TypeOK
<1> DEFINE r == pass[p].cur
           t == pass[p].tier
<1>0. pass[p] \in PassRecord
  BY DEF PassTypeOK
<1>a. pass[p].pc \notin {"idle", "loop"} => r \in Row /\ t \in Tiers
  BY DEF PassTypeOK
<1>b. pass[p].had \in SUBSET Tiers /\ WithoutTier(p) \in SUBSET Tiers
  BY <1>0 DEF PassRecord, WithoutTier
<1>1. ASSUME CountSend(p) PROVE TypeOK'
  <2> DEFINE local == [pass[p] EXCEPT !.pc = "unread", !.halt = TRUE]
  <2>1. local \in PassRecord /\ local.cur = r /\ local.tier = t
    BY <1>0 DEF PassRecord
  <2>2. CASE UnderCap
    BY <1>1, <2>2, MovesTyped DEF CountSend, history
  <2>3. CASE ~ UnderCap
    <3>1. Become(p, local) /\ r \in Row /\ t \in Tiers
      BY <1>1, <1>a, <2>3 DEF CountSend
    <3> HIDE DEF local
    <3>2. PassTypeOK'
      BY <2>1, <3>1, BecomeTyped
    <3> QED
      BY <1>1, <2>3, <3>2 DEF CountSend, history
  <2> QED
    BY <2>2, <2>3
<1>2. CASE CountThrows(p)
  BY <1>2, MovesTyped DEF CountThrows, history
<1>3. ASSUME SendOk(p) PROVE TypeOK'
  <2>1. r \in Row /\ t \in Tiers
    BY <1>3, <1>a DEF SendOk
  <2>2. okSent' \in [Row -> SUBSET Tiers] /\ dup' \subseteq Row
    BY <1>3, <2>1 DEF SendOk
  <2> QED
    BY <1>3, <2>2, MovesTyped DEF SendOk
<1>4. CASE SendFalse(p)
  BY <1>4, MovesTyped DEF SendFalse
<1>5. ASSUME UnclaimRead(p) PROVE TypeOK'
  <2> DEFINE local == [pass[p] EXCEPT !.pc = "unwrite", !.had = row[r].sent]
  <2>1. r \in Row /\ t \in Tiers /\ row[r].sent \in SUBSET Tiers
    BY <1>5, <1>a DEF UnclaimRead, RowRecord
  <2>2. local \in PassRecord /\ local.cur = r /\ local.tier = t
    BY <1>0, <2>1 DEF PassRecord
  <2>3. Become(p, local)
    BY <1>5 DEF UnclaimRead
  <2> HIDE DEF local
  <2>4. PassTypeOK'
    BY <2>1, <2>2, <2>3, BecomeTyped
  <2> QED
    BY <1>5, <2>4 DEF UnclaimRead, history
<1>6. ASSUME pass[p].pc = "unwrite", GiveBack(p)
      PROVE  /\ row' \in [Row -> RowRecord] /\ disturbed' \subseteq Row
             /\ hitch' \in [Pass -> SUBSET Row]
  <2>1. r \in Row
    BY <1>6, <1>a
  <2>2. row' \in [Row -> RowRecord]
    BY <1>6, <1>b, <2>1, SetSentTyped DEF GiveBack
  <2> QED
    BY <1>6, <2>1, <2>2 DEF GiveBack, Touch
<1>7. ASSUME pass[p].pc \notin {"idle", "loop"}, LeaveClaim(p)
      PROVE  lost' \in [Row -> SUBSET Tiers]
  BY <1>7, <1>a DEF LeaveClaim
<1>8. CASE UnclaimWrite(p)
  BY <1>6, <1>8, MovesTyped DEF UnclaimWrite, AfterUnclaim
<1>9. CASE UnclaimThrows(p)
  BY <1>7, <1>9, MovesTyped DEF UnclaimThrows
<1>10. ASSUME UnclaimUnheard(p) PROVE TypeOK'
  <2> DEFINE local == [pass[p] EXCEPT !.pc = "unread", !.had = {},
                                      !.caught = TRUE, !.undone = TRUE,
                                      !.halt = FALSE]
  <2>1. local \in PassRecord /\ local.cur = r /\ local.tier = t
    BY <1>0 DEF PassRecord
  <2>2. Continue(p) \/ Become(p, local)
    BY <1>10 DEF UnclaimUnheard
  <2>3. r \in Row /\ t \in Tiers
    BY <1>10, <1>a DEF UnclaimUnheard
  <2> HIDE DEF local
  <2>4. PassTypeOK'
    BY <2>1, <2>2, <2>3, BecomeTyped, MovesTyped
  <2> QED
    BY <1>6, <1>10, <2>4 DEF UnclaimUnheard
<1>11. ASSUME Kill(p) PROVE TypeOK'
  <2>1. lost' \in [Row -> SUBSET Tiers]
    <3>1. CASE Claimed(p)
      BY <1>11, <1>7, <3>1 DEF Kill, Claimed, Holding
    <3>2. CASE ~ Claimed(p)
      BY <1>11, <3>2 DEF Kill, LeaveClaim
    <3> QED
      BY <3>1, <3>2
  <2> QED
    BY <1>11, <2>1, MovesTyped DEF Kill
<1> QED
  BY <1>1, <1>2, <1>3, <1>4, <1>5, <1>8, <1>9, <1>10, <1>11

\* Every reachable state is well typed, whatever the roster, the schedule
\* and the number of overlapping passes (TypeOK).
THEOREM TypeCorrect == Spec => []TypeOK
<1>1. TypeOK /\ [Next]_vars => TypeOK'
  <2> SUFFICES ASSUME TypeOK, [Next]_vars PROVE TypeOK'
    OBVIOUS
  <2>1. CASE NextDay
    BY <2>1 DEF NextDay, TypeOK, PassTypeOK
  <2>2. ASSUME NEW p \in Pass, StartPass(p) \/ PassStep(p) \/ Fault(p)
        PROVE  TypeOK'
    BY <2>2, EarlyStepTyped, LateStepTyped DEF PassStep, Fault
  <2>3. ASSUME NEW r \in Row, Subscriber(r) \/ Dashboard(r) PROVE TypeOK'
    BY <2>3, RowStepTyped
  <2>4. CASE UNCHANGED vars
    BY <2>4 DEF vars, history, TypeOK, PassTypeOK
  <2> QED
    BY <2>1, <2>2, <2>3, <2>4 DEF Next
<1> QED
  BY <1>1, InitTyped, PTL DEF Spec

-----------------------------------------------------------------------------
(* One claim, one send.                                                    *)

\* The inductive invariant, with what it is for.
Safe == TypeOK /\ IInv /\ NoDoubleSend /\ NoSilentLoss

\* Only p's locals change.
Others(p) == \A q \in Pass \ {p} : pass'[q] = pass[q]

\* p keeps the row, the tier and the snapshot it works on.
SameWork(p) ==
    /\ pass'[p].cur = pass[p].cur /\ pass'[p].tier = pass[p].tier
    /\ pass'[p].snap = pass[p].snap /\ pass'[p].asOf = pass[p].asOf
    /\ pass'[p].epoch = pass[p].epoch /\ pass'[p].undone = pass[p].undone

\* What the helpers of a pass do to its locals.
LEMMA Moves ==
    ASSUME PassTypeOK, NEW p \in Pass
    PROVE  /\ Continue(p) => /\ Others(p) /\ pass'[p].pc = "loop"
                             /\ ~ pass'[p].undone
                             /\ pass'[p].asOf = pass[p].asOf
           /\ Finish(p) => /\ Others(p) /\ pass'[p].pc = "idle"
                           /\ ~ pass'[p].undone
           /\ Catch(p) => /\ Others(p) /\ SameWork(p)
                          /\ pass'[p].pc = "unread"
           /\ \A pc \in {"claim", "send", "unread"} :
                  Goto(p, pc) => /\ Others(p) /\ SameWork(p)
                                 /\ pass'[p].pc = pc
<1>0. pass[p] \in PassRecord /\ pass \in [Pass -> PassRecord]
  BY DEF PassTypeOK
<1>1. ASSUME NEW local, Become(p, local) PROVE Others(p) /\ pass'[p] = local
  BY <1>0, <1>1 DEF Become, Others
<1>2. ASSUME Continue(p)
      PROVE  /\ Others(p) /\ pass'[p].pc = "loop" /\ ~ pass'[p].undone
             /\ pass'[p].asOf = pass[p].asOf
  <2> DEFINE local == [pass[p] EXCEPT !.pc = "loop", !.cur = NoRow, !.tier = 0,
                              !.epoch = 0, !.had = {}, !.caught = FALSE,
                              !.undone = FALSE, !.halt = FALSE]
  <2>1. local.pc = "loop" /\ local.asOf = pass[p].asOf /\ ~ local.undone
    BY <1>0 DEF PassRecord
  <2>2. Become(p, local)
    BY <1>2 DEF Continue
  <2> HIDE DEF local
  <2> QED
    BY <1>1, <2>1, <2>2
<1>3. ASSUME Finish(p)
      PROVE  Others(p) /\ pass'[p].pc = "idle" /\ ~ pass'[p].undone
  BY <1>1, <1>3 DEF Finish, IdlePass
<1>4. ASSUME Catch(p)
      PROVE  Others(p) /\ SameWork(p) /\ pass'[p].pc = "unread"
  <2> DEFINE local == [pass[p] EXCEPT !.pc = "unread", !.had = {},
                                      !.caught = TRUE, !.halt = FALSE]
  <2>1. /\ local.pc = "unread" /\ local.cur = pass[p].cur
        /\ local.tier = pass[p].tier /\ local.snap = pass[p].snap
        /\ local.asOf = pass[p].asOf /\ local.epoch = pass[p].epoch
        /\ local.undone = pass[p].undone
    BY <1>0 DEF PassRecord
  <2>2. Become(p, local)
    BY <1>4 DEF Catch
  <2> HIDE DEF local
  <2> QED
    BY <1>1, <2>1, <2>2 DEF SameWork
<1>5. ASSUME NEW pc \in {"claim", "send", "unread"}, Goto(p, pc)
      PROVE  Others(p) /\ SameWork(p) /\ pass'[p].pc = pc
  <2> DEFINE local == [pass[p] EXCEPT !.pc = pc]
  <2>1. /\ local.pc = pc /\ local.cur = pass[p].cur
        /\ local.tier = pass[p].tier /\ local.snap = pass[p].snap
        /\ local.asOf = pass[p].asOf /\ local.epoch = pass[p].epoch
        /\ local.undone = pass[p].undone
    BY <1>0 DEF PassRecord
  <2>2. Become(p, local)
    BY <1>5 DEF Goto
  <2> HIDE DEF local
  <2> QED
    BY <1>1, <2>1, <2>2 DEF SameWork
<1> QED
  BY <1>2, <1>3, <1>4, <1>5

\* A step outside the span of a claim touches nothing the invariant is about.
LEMMA OutsideMove ==
    ASSUME Safe, TypeOK', NEW p \in Pass, Others(p),
           ~ Claimed(p), ~ Claimed(p)',
           UNCHANGED <<day, row, okSent, lost, dup, disturbed>>,
           pass'[p].pc # "idle" => pass'[p].asOf = day,
           pass'[p].pc \notin {"idle", "loop"} =>
               pass'[p].tier = TierFor(pass'[p].cur, pass'[p].asOf,
                                       pass'[p].snap[pass'[p].cur].sent),
           pass'[p].undone => pass'[p].pc \in {"unread", "unwrite"}
    PROVE  Safe'
<1>1. \A r \in Row : /\ Holders(r)' = Holders(r)
                     /\ \A q \in Holders(r) : pass'[q] = pass[q]
  BY DEF Holders, Claimed, Others
<1>2. AsOfToday' /\ Decided' /\ UndoneReverts'
  BY DEF Safe, IInv, AsOfToday, Decided, UndoneReverts, Others
<1>3. ClaimHeld' /\ OneHolder' /\ SentRecorded'
  BY <1>1 DEF Safe, IInv, ClaimHeld, OneHolder, SentRecorded
<1>4. NoDoubleSend' /\ NoSilentLoss'
  BY <1>1 DEF Safe, NoDoubleSend, NoSilentLoss, Accounted, Holders
<1> QED
  BY <1>2, <1>3, <1>4 DEF Safe, IInv

\* Nor does a step of a pass that holds a claim and keeps it.
LEMMA HoldingMove ==
    ASSUME Safe, TypeOK', NEW p \in Pass, Others(p), SameWork(p),
           pass[p].pc \in Holding, pass'[p].pc \in Holding,
           UNCHANGED <<day, row, okSent, lost, dup, disturbed>>,
           pass'[p].pc = "unwrite" => pass'[p].had = row[pass[p].cur].sent,
           pass[p].undone => pass'[p].pc \in {"unread", "unwrite"}
    PROVE  Safe'
<1>1. \A r \in Row : Holders(r)' = Holders(r)
  BY DEF Holders, Claimed, Others, SameWork
<1>2. AsOfToday' /\ Decided' /\ UndoneReverts'
  BY DEF Safe, IInv, AsOfToday, Decided, UndoneReverts, Others, SameWork,
         Holding
<1>3. ClaimHeld' /\ OneHolder' /\ SentRecorded'
  <2>1. ClaimHeld'
    BY <1>1 DEF Safe, IInv, ClaimHeld, Others, SameWork, Holders
  <2>2. OneHolder' /\ SentRecorded'
    BY <1>1 DEF Safe, IInv, OneHolder, SentRecorded
  <2> QED
    BY <2>1, <2>2
<1>4. NoDoubleSend' /\ NoSilentLoss'
  BY <1>1 DEF Safe, NoDoubleSend, NoSilentLoss, Accounted, Others, SameWork,
              Holders
<1> QED
  BY <1>2, <1>3, <1>4 DEF Safe, IInv

\* The steps that leave the row alone.
LEMMA QuietStepSafe ==
    ASSUME Safe, TypeOK', NEW p \in Pass,
           \/ StartPass(p) \/ Visit(p) \/ EndPass(p) \/ CheckSuppressed(p)
           \/ Skip(p) \/ CountSend(p) \/ CountThrows(p) \/ SendFalse(p)
           \/ UnclaimRead(p)
    PROVE  Safe'
<1>0. PassTypeOK /\ pass[p] \in PassRecord
  BY DEF Safe, TypeOK, PassTypeOK
<1>a. ASSUME NEW local, Become(p, local) PROVE Others(p) /\ pass'[p] = local
  BY <1>0, <1>a DEF Become, Others, PassTypeOK
<1>b. /\ pass[p].pc # "idle" => pass[p].asOf = day
      /\ pass[p].pc \notin {"idle", "loop"} =>
             pass[p].tier = TierFor(pass[p].cur, pass[p].asOf,
                                    pass[p].snap[pass[p].cur].sent)
  BY DEF Safe, IInv, AsOfToday, Decided
<1>c. pass[p].undone => pass[p].pc \in {"unread", "unwrite"}
  BY DEF Safe, IInv, UndoneReverts
<1>1. ASSUME StartPass(p) PROVE Safe'
  <2> DEFINE local == [IdlePass EXCEPT
                         !.pc = "loop", !.asOf = day, !.snap = row,
                         !.todo = {q \in Row : row[q].status = "confirmed"}]
  <2>1. local.pc = "loop" /\ local.asOf = day /\ ~ local.undone
    BY DEF IdlePass
  <2>2. Become(p, local)
    BY <1>1 DEF StartPass
  <2> HIDE DEF local
  <2>3. Others(p) /\ pass'[p] = local
    BY <2>2, <1>a
  <2> QED
    BY <1>1, <2>1, <2>3, OutsideMove
       DEF StartPass, Claimed, Holding
<1>2. ASSUME Visit(p) PROVE Safe'
  <2>1. PICK q \in pass[p].todo :
            LET seen == pass[p].snap[q]
                tier == TierFor(q, pass[p].asOf, seen.sent)
                quiet == seen.snoozed >= pass[p].asOf \/ tier = 0
            IN  IF quiet
                THEN Become(p, [pass[p] EXCEPT !.todo = @ \ {q}])
                ELSE Become(p, [pass[p] EXCEPT !.todo = @ \ {q},
                                               !.pc = "check",
                                               !.cur = q, !.tier = tier])
    BY <1>2, Zenon DEF Visit
  <2> DEFINE tier == TierFor(q, pass[p].asOf, pass[p].snap[q].sent)
             skip == [pass[p] EXCEPT !.todo = @ \ {q}]
             take == [pass[p] EXCEPT !.todo = @ \ {q}, !.pc = "check",
                                     !.cur = q, !.tier = tier]
  <2>2. pass[p].pc = "loop"
    BY <1>2 DEF Visit
  <2>3. skip.pc = "loop" /\ skip.asOf = pass[p].asOf /\ ~ skip.undone
    BY <1>0, <1>c, <2>2 DEF PassRecord
  <2>4. /\ take.pc = "check" /\ take.asOf = pass[p].asOf
        /\ take.tier = tier /\ take.cur = q /\ take.snap = pass[p].snap
        /\ ~ take.undone
    BY <1>0, <1>c, <2>2 DEF PassRecord
  <2>5. Become(p, skip) \/ Become(p, take)
    BY <2>1
  <2>6. take.tier = TierFor(take.cur, take.asOf, take.snap[take.cur].sent)
    BY <2>4
  <2> HIDE DEF tier, skip, take
  <2>7. Others(p) /\ pass'[p] \in {skip, take}
    BY <2>5, <1>a
  <2> QED
    BY <1>2, <1>b, <2>2, <2>3, <2>4, <2>6, <2>7, OutsideMove
       DEF Visit, Claimed, Holding, history
<1>3. CASE EndPass(p)
  BY <1>0, <1>3, Moves, OutsideMove DEF EndPass, Claimed, Holding, history
<1>4. CASE CheckSuppressed(p)
  <2>1. Others(p) /\ pass'[p].asOf = pass[p].asOf
        /\ \/ pass'[p].pc = "loop"
           \/ pass'[p].pc = "claim" /\ SameWork(p)
        /\ ~ pass'[p].undone
    BY <1>0, <1>c, <1>4, Moves DEF CheckSuppressed, SameWork
  <2> QED
    BY <1>4, <1>b, <2>1, OutsideMove
       DEF CheckSuppressed, Claimed, Holding, history, SameWork
<1>5. CASE Skip(p)
  BY <1>0, <1>5, <1>b, Moves, OutsideMove DEF Skip, Claimed, Holding
<1>6. ASSUME CountSend(p) PROVE Safe'
  <2> DEFINE local == [pass[p] EXCEPT !.pc = "unread", !.halt = TRUE]
  <2>1. /\ local.pc = "unread" /\ local.cur = pass[p].cur
        /\ local.tier = pass[p].tier /\ local.snap = pass[p].snap
        /\ local.asOf = pass[p].asOf /\ local.epoch = pass[p].epoch
        /\ local.undone = pass[p].undone
    BY <1>0 DEF PassRecord
  <2>2. Goto(p, "send") \/ Become(p, local)
    BY <1>6 DEF CountSend
  <2> HIDE DEF local
  <2>3. Others(p) /\ SameWork(p) /\ pass'[p].pc \in {"send", "unread"}
    BY <1>0, <1>a, <2>1, <2>2, Moves DEF SameWork
  <2> QED
    BY <1>6, <1>c, <2>3, HoldingMove DEF CountSend, Holding, history
<1>7. CASE CountThrows(p)
  BY <1>0, <1>c, <1>7, Moves, HoldingMove DEF CountThrows, Holding, history
<1>8. CASE SendFalse(p)
  BY <1>0, <1>c, <1>8, Moves, HoldingMove DEF SendFalse, Holding
<1>9. ASSUME UnclaimRead(p) PROVE Safe'
  <2> DEFINE local == [pass[p] EXCEPT !.pc = "unwrite",
                                      !.had = row[pass[p].cur].sent]
  <2>1. /\ local.pc = "unwrite" /\ local.cur = pass[p].cur
        /\ local.tier = pass[p].tier /\ local.snap = pass[p].snap
        /\ local.asOf = pass[p].asOf /\ local.epoch = pass[p].epoch
        /\ local.undone = pass[p].undone
        /\ local.had = row[pass[p].cur].sent
    BY <1>0 DEF PassRecord
  <2>2. Become(p, local)
    BY <1>9 DEF UnclaimRead
  <2> HIDE DEF local
  <2>3. Others(p) /\ SameWork(p) /\ pass'[p].pc = "unwrite"
        /\ pass'[p].had = row[pass[p].cur].sent
    BY <1>a, <2>1, <2>2 DEF SameWork
  <2> QED
    BY <1>9, <2>3, HoldingMove DEF UnclaimRead, Holding, history
<1> QED
  BY <1>1, <1>2, <1>3, <1>4, <1>5, <1>6, <1>7, <1>8, <1>9

\* A claim succeeds on no row that another pass holds: what that pass wrote
\* leaves this one without a tier, so the lists cannot be equal.
LEMMA NoOtherHolder ==
    ASSUME Safe, NEW p \in Pass, pass[p].pc = "claim", Claimable(p),
           pass[p].cur \notin disturbed, NEW q \in Holders(pass[p].cur)
    PROVE  FALSE
<1> DEFINE r == pass[p].cur
           mine == pass[p].snap[r].sent
           its == pass[q].snap[r].sent
<1>1. /\ r \in Row /\ q \in Pass /\ pass[p].tier \in Tiers
      /\ pass[q].cur = r /\ pass[q].tier \in Tiers
      /\ pass[q].pc \in Holding /\ day \in Nat
  BY DEF Safe, TypeOK, PassTypeOK, Holders, Claimed, Holding
<1>2. its \in SUBSET Tiers
  BY <1>1 DEF Safe, TypeOK, PassTypeOK, PassRecord, RowRecord
<1>3. pass[p].asOf = day /\ pass[q].asOf = day
  BY <1>1 DEF Safe, IInv, AsOfToday, Holding
<1>4. pass[p].tier = TierFor(r, day, mine) /\ pass[q].tier = TierFor(r, day, its)
  BY <1>1, <1>3 DEF Safe, IInv, Decided, Holding
<1>5. mine = its \cup {pass[q].tier}
  BY <1>1 DEF Safe, IInv, ClaimHeld, Claimable
<1>6. 0 \notin Tiers
  BY TierAssumption
<1>7. TierFor(r, day, its) # 0
  BY <1>1, <1>4, <1>6
<1>8. TierFor(r, day, its \cup {TierFor(r, day, its)}) = 0
  BY <1>1, <1>2, <1>7, OneTierADay
<1>9. pass[p].tier = 0
  BY <1>4, <1>5, <1>8
<1> QED
  BY <1>1, <1>6, <1>9

\* A tier a pass claims or holds is not one its snapshot had.
LEMMA TierIsNew ==
    ASSUME Safe, NEW p \in Pass, pass[p].pc \notin {"idle", "loop"}
    PROVE  pass[p].tier \notin pass[p].snap[pass[p].cur].sent
<1> DEFINE r == pass[p].cur
           mine == pass[p].snap[r].sent
<1>1. r \in Row /\ pass[p].tier \in Tiers /\ pass[p].asOf \in Nat
  BY DEF Safe, TypeOK, PassTypeOK, PassRecord
<1>2. mine \in SUBSET Tiers
  BY <1>1 DEF Safe, TypeOK, PassTypeOK, PassRecord, RowRecord
<1>3. pass[p].tier = TierFor(r, pass[p].asOf, mine)
  BY DEF Safe, IInv, Decided
<1>4. 0 \notin Tiers
  BY TierAssumption
<1> QED
  BY <1>1, <1>2, <1>3, <1>4, OneTierADay

\* Winning a claim.
LEMMA ClaimSafe ==
    ASSUME Safe, TypeOK', NEW p \in Pass, Claim(p)
    PROVE  Safe'
<1> DEFINE r == pass[p].cur
           t == pass[p].tier
<1>0. /\ PassTypeOK /\ pass[p] \in PassRecord /\ row \in [Row -> RowRecord]
      /\ r \in Row /\ t \in Tiers /\ pass[p].pc = "claim"
  BY DEF Safe, TypeOK, PassTypeOK, Claim
<1>a. ~ pass[p].undone
  BY <1>0 DEF Safe, IInv, UndoneReverts
<1>1. CASE ~ Claimable(p)
  <2>1. pass[p].asOf = day
    BY <1>0 DEF Safe, IInv, AsOfToday
  <2> QED
    BY <1>0, <1>1, <2>1, Moves, OutsideMove
       DEF Claim, Claimed, Holding, history
<1>2. CASE Claimable(p)
  <2> DEFINE local == [pass[p] EXCEPT !.pc = "count", !.epoch = row[r].cycle]
  <2>1. /\ local.pc = "count" /\ local.cur = r /\ local.tier = t
        /\ local.snap = pass[p].snap /\ local.asOf = pass[p].asOf
        /\ local.epoch = row[r].cycle /\ ~ local.undone
    BY <1>0, <1>a DEF PassRecord
  <2>2. pass' = [pass EXCEPT ![p] = local]
    BY <1>2 DEF Claim, Become
  <2> HIDE DEF local
  <2>3. Others(p) /\ pass'[p] = local
    BY <1>0, <2>2 DEF Others, PassTypeOK
  <2>4. row' = [row EXCEPT ![r].sent = row[r].sent \cup {t}]
        /\ pass[p].snap[r].sent = row[r].sent
    BY <1>2 DEF Claim, Claimable
  <2>5. /\ row'[r].sent = row[r].sent \cup {t} /\ row'[r].cycle = row[r].cycle
        /\ \A q \in Row \ {r} : row'[q] = row[q]
    BY <1>0, <2>4 DEF RowRecord
  <2>6. UNCHANGED <<day, okSent, lost, dup, disturbed>>
    BY <1>2 DEF Claim, history
  <2>7. r \notin disturbed => Holders(r) = {} /\ Holders(r)' = {p}
    <3>1. r \notin disturbed => Holders(r) = {}
      BY <1>0, <1>2, NoOtherHolder
    <3> QED
      BY <2>1, <2>3, <3>1 DEF Holders, Claimed, Holding, Others
  <2>8. \A s \in Row \ {r} : Holders(s)' = Holders(s)
    BY <1>0, <2>1, <2>3 DEF Holders, Claimed, Holding, Others
  <2>9. AsOfToday' /\ Decided' /\ UndoneReverts'
    BY <1>0, <2>1, <2>3, <2>6
       DEF Safe, IInv, AsOfToday, Decided, UndoneReverts, Others
  <2>10. SentRecorded'
    BY <2>5, <2>6 DEF Safe, IInv, SentRecorded
  <2>11. OneHolder'
    <3> SUFFICES ASSUME NEW s \in Row, s \notin disturbed,
                        NEW q1 \in Holders(s)', NEW q2 \in Holders(s)'
                 PROVE  q1 = q2
      BY <2>6 DEF OneHolder
    <3>1. CASE s = r
      BY <2>1, <2>3, <2>7, <3>1 DEF Holders, Claimed
    <3>2. CASE s # r
      BY <2>8, <3>2 DEF Safe, IInv, OneHolder
    <3> QED
      BY <3>1, <3>2
  <2>12. ClaimHeld'
    <3> SUFFICES ASSUME NEW s \in Row, s \notin disturbed, NEW q \in Holders(s)'
                 PROVE  /\ row'[s].sent = pass'[q].snap[s].sent \cup {pass'[q].tier}
                        /\ row'[s].cycle = pass'[q].epoch
                        /\ okSent[s] \subseteq pass'[q].snap[s].sent
                        /\ pass'[q].pc = "unwrite" => pass'[q].had = row'[s].sent
      BY <2>6 DEF ClaimHeld
    <3>1. CASE s = r
      <4>0. r' = s
        BY <2>1, <2>3, <3>1
      <4>1. q = p
        BY <2>7, <3>1, <4>0 DEF Holders
      <4>2. local.snap[r].sent = row[r].sent
        BY <2>1, <2>4
      <4>3. okSent[r] \subseteq row[r].sent
        BY <1>0, <3>1 DEF Safe, IInv, SentRecorded
      <4> QED
        BY <2>1, <2>3, <2>5, <2>6, <3>1, <4>1, <4>2, <4>3
    <3>2. CASE s # r
      <4>1. q \in Holders(s) /\ q \in Pass /\ q # p
        BY <1>0, <2>8, <3>2 DEF Holders, Claimed, Holding
      <4> QED
        BY <2>3, <2>5, <3>2, <4>1 DEF Safe, IInv, ClaimHeld, Others
    <3> QED
      BY <3>1, <3>2
  <2>13. NoDoubleSend'
    BY <2>6 DEF Safe, NoDoubleSend
  <2>14. NoSilentLoss'
    <3> SUFFICES ASSUME NEW s \in Row, s \notin disturbed, NEW u \in row'[s].sent
                 PROVE  \/ u \in okSent[s] \cup lost[s]
                        \/ \E q \in Holders(s)' : pass'[q].tier = u
      BY <2>6 DEF NoSilentLoss, Accounted
    <3>1. CASE s = r
      BY <2>1, <2>3, <2>5, <2>7, <3>1 DEF Safe, NoSilentLoss, Accounted
    <3>2. CASE s # r
      <4>1. \A q \in Holders(s) : q # p
        BY <1>0, <3>2 DEF Holders
      <4> QED
        BY <2>3, <2>5, <2>8, <3>2, <4>1
           DEF Safe, NoSilentLoss, Accounted, Others, Holders
    <3> QED
      BY <3>1, <3>2
  <2> QED
    BY <2>9, <2>10, <2>11, <2>12, <2>13, <2>14 DEF Safe, IInv
<1> QED
  BY <1>1, <1>2

\* A pass that gives up or settles its claim leaves the row in order.
LEMMA LeavingMove ==
    ASSUME Safe, TypeOK', NEW p \in Pass, Others(p),
           pass[p].pc \notin {"idle", "loop"},
           \/ /\ pass'[p].pc \in {"idle", "loop"} /\ ~ pass'[p].undone
              /\ pass'[p].pc = "loop" => pass'[p].asOf = pass[p].asOf
           \/ /\ pass'[p].pc = "unread" /\ pass'[p].undone
              /\ pass'[p].cur = pass[p].cur /\ pass'[p].tier = pass[p].tier
              /\ pass'[p].snap = pass[p].snap /\ pass'[p].asOf = pass[p].asOf,
           day' = day, NEW r, r = pass[p].cur,
           disturbed' \in {disturbed, disturbed \cup {r}},
           \A s \in Row \ {r} : /\ row'[s] = row[s]
                                /\ okSent'[s] = okSent[s]
                                /\ lost'[s] = lost[s]
                                /\ s \in dup' => s \in dup,
           r \notin disturbed' =>
               /\ \A q \in Holders(r) : q = p
               /\ r \notin dup'
               /\ okSent'[r] \subseteq row'[r].sent
               /\ row'[r].sent \subseteq okSent'[r] \cup lost'[r]
    PROVE  Safe'
<1>0. ~ Claimed(p)'
  BY DEF Claimed, Holding
<1>1. \A s \in Row : s # r => Holders(s)' = Holders(s) /\ p \notin Holders(s)
  BY <1>0 DEF Holders, Claimed, Others
<1>2. r \notin disturbed' => Holders(r)' = {}
  <2> SUFFICES ASSUME r \notin disturbed', NEW q \in Holders(r)' PROVE FALSE
    OBVIOUS
  <2>1. q \in Holders(r) /\ q # p
    BY <1>0 DEF Holders, Claimed, Others
  <2> QED
    BY <2>1
<1>3. AsOfToday' /\ Decided' /\ UndoneReverts'
  BY DEF Safe, IInv, AsOfToday, Decided, UndoneReverts, Others
<1>4. ASSUME NEW s \in Row, s \notin disturbed', s # r
      PROVE  s \notin disturbed /\ \A q \in Holders(s)' : pass'[q] = pass[q]
  BY <1>1, <1>4 DEF Others, Holders
<1>5. ClaimHeld'
  BY <1>1, <1>2, <1>4 DEF Safe, IInv, ClaimHeld
<1>6. OneHolder'
  <2> SUFFICES ASSUME NEW s \in Row, s \notin disturbed',
                      NEW q1 \in Holders(s)', NEW q2 \in Holders(s)'
               PROVE  q1 = q2
    BY DEF OneHolder
  <2> QED
    BY <1>1, <1>2, <1>4 DEF Safe, IInv, OneHolder
<1>7. SentRecorded'
  BY <1>4 DEF Safe, IInv, SentRecorded
<1>8. NoDoubleSend'
  <2> SUFFICES ASSUME NEW s \in dup', s \notin disturbed' PROVE FALSE
    BY DEF NoDoubleSend
  <2>1. s \in Row /\ s # r
    BY DEF TypeOK
  <2> QED
    BY <1>4, <2>1 DEF Safe, NoDoubleSend
<1>9. NoSilentLoss'
  <2> SUFFICES ASSUME NEW s \in Row, s \notin disturbed', NEW u \in row'[s].sent
               PROVE  \/ u \in okSent'[s] \cup lost'[s]
                      \/ \E q \in Holders(s)' : pass'[q].tier = u
    BY DEF NoSilentLoss, Accounted
  <2>1. CASE s = r
    BY <2>1
  <2>2. CASE s # r
    BY <1>1, <1>4, <2>2 DEF Safe, NoSilentLoss, Accounted
  <2> QED
    BY <2>1, <2>2
<1> QED
  BY <1>3, <1>5, <1>6, <1>7, <1>8, <1>9 DEF Safe, IInv

\* The steps by which a pass settles a claim or leaves it behind.
LEMMA SettlingStepSafe ==
    ASSUME Safe, TypeOK', NEW p \in Pass,
           \/ ClaimUnheard(p) \/ SendOk(p) \/ UnclaimWrite(p)
           \/ UnclaimThrows(p) \/ UnclaimUnheard(p) \/ Kill(p)
    PROVE  Safe'
<1> DEFINE t == pass[p].tier
<1> PICK r : r = pass[p].cur
  OBVIOUS
<1>0. /\ PassTypeOK /\ pass[p] \in PassRecord /\ row \in [Row -> RowRecord]
      /\ okSent \in [Row -> SUBSET Tiers] /\ lost \in [Row -> SUBSET Tiers]
  BY DEF Safe, TypeOK, PassTypeOK
<1>a. pass[p].pc \notin {"idle", "loop"} => r \in Row /\ t \in Tiers
  BY <1>0 DEF PassTypeOK
<1>c. pass[p].undone => pass[p].pc \in {"unread", "unwrite"}
  BY DEF Safe, IInv, UndoneReverts
<1>d. pass[p].pc # "idle" => pass[p].asOf = day
  BY DEF Safe, IInv, AsOfToday
<1>b. ASSUME Claimed(p), r \notin disturbed
      PROVE  /\ row[r].sent = pass[p].snap[r].sent \cup {t}
             /\ row[r].cycle = pass[p].epoch
             /\ okSent[r] \subseteq pass[p].snap[r].sent
             /\ t \notin okSent[r]
             /\ pass[p].pc = "unwrite" => pass[p].had = row[r].sent
             /\ r \notin dup
             /\ row[r].sent \ {t} \subseteq okSent[r] \cup lost[r]
             /\ \A q \in Holders(r) : q = p
  <2>1. r \in Row /\ p \in Holders(r)
    BY <1>a, <1>b DEF Holders, Claimed, Holding
  <2>2. t \notin pass[p].snap[r].sent
    BY <1>b, TierIsNew DEF Claimed, Holding
  <2>3. \A q \in Holders(r) : q = p
    BY <1>b, <2>1 DEF Safe, IInv, OneHolder
  <2> QED
    BY <1>b, <2>1, <2>2, <2>3
       DEF Safe, IInv, ClaimHeld, NoDoubleSend, NoSilentLoss, Accounted
<1>1. ASSUME SendOk(p) PROVE Safe'
  <2>1. /\ Others(p) /\ pass'[p].pc = "loop" /\ ~ pass'[p].undone
        /\ pass'[p].asOf = pass[p].asOf
    BY <1>0, <1>1, Moves DEF SendOk
  <2>2. Claimed(p) /\ r \in Row
    BY <1>1, <1>a, <1>c DEF SendOk, Claimed, Holding
  <2>3. r \notin disturbed' =>
            /\ \A q \in Holders(r) : q = p
            /\ r \notin dup'
            /\ okSent'[r] \subseteq row'[r].sent
            /\ row'[r].sent \subseteq okSent'[r] \cup lost'[r]
    BY <1>0, <1>1, <1>b, <2>2 DEF SendOk
  <2>4. \A s \in Row \ {r} : /\ row'[s] = row[s] /\ okSent'[s] = okSent[s]
                             /\ lost'[s] = lost[s] /\ (s \in dup' => s \in dup)
    BY <1>0, <1>1 DEF SendOk
  <2> QED
    BY <1>1, <2>1, <2>2, <2>3, <2>4, LeavingMove DEF SendOk
\* What a revert does to the row, by a pass that still had the claim or not.
<1>2. ASSUME pass[p].pc = "unwrite", GiveBack(p),
             UNCHANGED <<day, okSent, lost, dup>>
      PROVE  /\ r \in Row
             /\ disturbed' \in {disturbed, disturbed \cup {r}}
             /\ \A s \in Row \ {r} : /\ row'[s] = row[s]
                                      /\ okSent'[s] = okSent[s]
                                      /\ lost'[s] = lost[s]
                                      /\ (s \in dup' => s \in dup)
             /\ ~ Claimed(p) => \/ UNCHANGED <<row, disturbed>>
                                \/ r \in disturbed'
             /\ Claimed(p) /\ r \notin disturbed' =>
                    /\ \A q \in Holders(r) : q = p
                    /\ r \notin dup'
                    /\ okSent'[r] \subseteq row'[r].sent
                    /\ row'[r].sent \subseteq okSent'[r] \cup lost'[r]
  <2>1. r \in Row
    BY <1>2, <1>a
  <2>2. /\ disturbed' \in {disturbed, disturbed \cup {r}}
        /\ \A s \in Row \ {r} : row'[s] = row[s]
    BY <1>0, <1>2 DEF GiveBack
  <2>3. ~ Claimed(p) => UNCHANGED <<row, disturbed>> \/ r \in disturbed'
    BY <1>2 DEF GiveBack, Claimed, Holding
  <2>4. ASSUME Claimed(p), r \notin disturbed'
        PROVE  /\ \A q \in Holders(r) : q = p
               /\ r \notin dup'
               /\ okSent'[r] \subseteq row'[r].sent
               /\ row'[r].sent \subseteq okSent'[r] \cup lost'[r]
    <3>1. r \notin disturbed
      BY <2>2, <2>4
    <3>2. row' = [row EXCEPT ![r].sent = row[r].sent \ {t}]
      BY <1>2, <1>b, <2>4, <3>1 DEF GiveBack, WithoutTier
    <3> QED
      BY <1>0, <1>2, <1>b, <2>1, <2>4, <3>1, <3>2 DEF RowRecord
  <2> QED
    BY <1>2, <2>1, <2>2, <2>3, <2>4
<1>3. ASSUME UnclaimWrite(p) PROVE Safe'
  <2>1. /\ Others(p) /\ pass'[p].pc \in {"idle", "loop"} /\ ~ pass'[p].undone
        /\ pass'[p].pc = "loop" => pass'[p].asOf = pass[p].asOf
    BY <1>0, <1>3, Moves DEF UnclaimWrite, AfterUnclaim
  <2>2. /\ pass[p].pc = "unwrite" /\ GiveBack(p)
        /\ UNCHANGED <<day, okSent, lost, dup>>
    BY <1>3 DEF UnclaimWrite
  <2>3. CASE ~ Claimed(p) /\ UNCHANGED <<row, disturbed>>
    <3>1. ~ Claimed(p)'
      BY <2>1 DEF Claimed, Holding
    <3> QED
      BY <1>d, <2>1, <2>2, <2>3, <3>1, OutsideMove
  <2>4. CASE Claimed(p) \/ r \in disturbed'
    BY <1>2, <2>1, <2>2, <2>4, LeavingMove
  <2> QED
    BY <1>2, <2>2, <2>3, <2>4
<1>4. ASSUME UnclaimUnheard(p) PROVE Safe'
  <2> DEFINE local == [pass[p] EXCEPT !.pc = "unread", !.had = {},
                                      !.caught = TRUE, !.undone = TRUE,
                                      !.halt = FALSE]
  <2>1. /\ local.pc = "unread" /\ local.undone /\ local.cur = pass[p].cur
        /\ local.tier = pass[p].tier /\ local.snap = pass[p].snap
        /\ local.asOf = pass[p].asOf
    BY <1>0 DEF PassRecord
  <2>2. Continue(p) \/ Become(p, local)
    BY <1>4 DEF UnclaimUnheard
  <2> HIDE DEF local
  <2>3. /\ Others(p)
        /\ \/ /\ pass'[p].pc = "loop" /\ ~ pass'[p].undone
              /\ pass'[p].asOf = pass[p].asOf
           \/ /\ pass'[p].pc = "unread" /\ pass'[p].undone
              /\ pass'[p].cur = pass[p].cur /\ pass'[p].tier = pass[p].tier
              /\ pass'[p].snap = pass[p].snap /\ pass'[p].asOf = pass[p].asOf
    <3>1. CASE Continue(p)
      BY <1>0, <3>1, Moves
    <3>2. CASE Become(p, local)
      BY <1>0, <2>1, <3>2 DEF Become, Others, PassTypeOK
    <3> QED
      BY <2>2, <3>1, <3>2
  <2>4. /\ pass[p].pc = "unwrite" /\ GiveBack(p) /\ pass[p].tier \in pass[p].had
        /\ UNCHANGED <<day, okSent, lost, dup>>
    BY <1>4 DEF UnclaimUnheard
  <2>5. Claimed(p) \/ r \in disturbed'
    BY <2>4 DEF GiveBack, Claimed, Holding
  <2> QED
    BY <1>2, <2>3, <2>4, <2>5, LeavingMove
<1>6. ASSUME UnclaimThrows(p) PROVE Safe'
  <2>1. pass[p].pc \in {"unread", "unwrite"} /\ r \in Row
    BY <1>6, <1>a DEF UnclaimThrows
  <2>2. UNCHANGED <<day, row, okSent, dup, disturbed>>
    BY <1>6 DEF UnclaimThrows
  <2>3. CASE pass[p].caught
    <3>1. LeaveClaim(p) /\ Continue(p)
      BY <1>6, <2>3 DEF UnclaimThrows
    <3>2. /\ Others(p) /\ pass'[p].pc = "loop" /\ ~ pass'[p].undone
          /\ pass'[p].asOf = pass[p].asOf
      BY <1>0, <3>1, Moves
    <3>3. CASE Claimed(p)
      <4>1. lost' = [lost EXCEPT ![r] = @ \cup {t}]
        BY <3>1, <3>3 DEF LeaveClaim
      <4>2. r \notin disturbed' =>
                /\ \A q \in Holders(r) : q = p
                /\ r \notin dup'
                /\ okSent'[r] \subseteq row'[r].sent
                /\ row'[r].sent \subseteq okSent'[r] \cup lost'[r]
        BY <1>0, <1>b, <2>1, <2>2, <3>3, <4>1
      <4>3. \A s \in Row \ {r} : /\ row'[s] = row[s] /\ okSent'[s] = okSent[s]
                                 /\ lost'[s] = lost[s]
                                 /\ (s \in dup' => s \in dup)
        BY <1>0, <2>2, <4>1
      <4> QED
        BY <2>1, <2>2, <3>2, <4>2, <4>3, LeavingMove
    <3>4. CASE ~ Claimed(p)
      <4>1. ~ Claimed(p)' /\ lost' = lost
        BY <3>1, <3>2, <3>4 DEF LeaveClaim, Claimed, Holding
      <4> QED
        BY <1>d, <2>1, <2>2, <3>2, <3>4, <4>1, OutsideMove
    <3> QED
      BY <3>3, <3>4
  <2>4. CASE ~ pass[p].caught
    <3>1. lost' = lost /\ Catch(p)
      BY <1>6, <2>4 DEF UnclaimThrows
    <3> QED
      BY <1>0, <2>1, <2>2, <3>1, Moves, HoldingMove DEF Holding
  <2> QED
    BY <2>3, <2>4
<1>7. ASSUME Kill(p) PROVE Safe'
  <2>1. Others(p) /\ pass'[p].pc = "idle" /\ ~ pass'[p].undone
    BY <1>0, <1>7, Moves DEF Kill
  <2>2. UNCHANGED <<day, row, okSent, dup, disturbed>>
    BY <1>7 DEF Kill
  <2>3. CASE Claimed(p)
    <3>1. /\ lost' = [lost EXCEPT ![r] = @ \cup {t}] /\ r \in Row
          /\ pass[p].pc \notin {"idle", "loop"}
      BY <1>7, <1>a, <2>3 DEF Kill, LeaveClaim, Claimed, Holding
    <3>2. r \notin disturbed' =>
              /\ \A q \in Holders(r) : q = p
              /\ r \notin dup'
              /\ okSent'[r] \subseteq row'[r].sent
              /\ row'[r].sent \subseteq okSent'[r] \cup lost'[r]
      BY <1>0, <1>b, <2>2, <2>3, <3>1
    <3>3. \A s \in Row \ {r} : /\ row'[s] = row[s] /\ okSent'[s] = okSent[s]
                               /\ lost'[s] = lost[s]
                               /\ (s \in dup' => s \in dup)
      BY <1>0, <2>2, <3>1
    <3>4. disturbed' \in {disturbed, disturbed \cup {r}} /\ day' = day
      BY <2>2
    <3> QED
      BY <2>1, <3>1, <3>2, <3>3, <3>4, LeavingMove
  <2>4. CASE ~ Claimed(p)
    <3>1. ~ Claimed(p)' /\ lost' = lost
      BY <1>7, <2>1, <2>4 DEF Kill, LeaveClaim, Claimed, Holding
    <3> QED
      BY <2>1, <2>2, <2>4, <3>1, OutsideMove
  <2> QED
    BY <2>3, <2>4
<1>5. ASSUME ClaimUnheard(p) PROVE Safe'
  <2>1. /\ Others(p) /\ pass'[p].pc = "loop" /\ ~ pass'[p].undone
        /\ pass'[p].asOf = pass[p].asOf
    BY <1>0, <1>5, Moves DEF ClaimUnheard
  <2>2. pass[p].pc = "claim" /\ Claimable(p) /\ r \in Row
    BY <1>5, <1>a DEF ClaimUnheard
  <2>3. UNCHANGED <<day, okSent, dup, disturbed>>
    BY <1>5 DEF ClaimUnheard
  <2>4. /\ row' = [row EXCEPT ![r].sent = row[r].sent \cup {t}]
        /\ lost' = [lost EXCEPT ![r] = @ \cup {t}]
    BY <1>5 DEF ClaimUnheard, Claimable
  <2>5. r \notin disturbed =>
            \A q \in Holders(r) : q = p
    BY <2>2, NoOtherHolder
  <2>6. r \notin disturbed => row[r].sent \subseteq okSent[r] \cup lost[r]
    <3>1. r \notin disturbed => Holders(r) = {}
      BY <2>2, NoOtherHolder
    <3> QED
      BY <2>2, <3>1 DEF Safe, NoSilentLoss, Accounted
  <2>7. r \notin disturbed => okSent[r] \subseteq row[r].sent /\ r \notin dup
    BY <2>2 DEF Safe, IInv, SentRecorded, NoDoubleSend
  <2>8. r \notin disturbed' =>
            /\ \A q \in Holders(r) : q = p
            /\ r \notin dup'
            /\ okSent'[r] \subseteq row'[r].sent
            /\ row'[r].sent \subseteq okSent'[r] \cup lost'[r]
    BY <1>0, <2>2, <2>3, <2>4, <2>5, <2>6, <2>7 DEF RowRecord
  <2>9. \A s \in Row \ {r} : /\ row'[s] = row[s] /\ okSent'[s] = okSent[s]
                             /\ lost'[s] = lost[s] /\ (s \in dup' => s \in dup)
    BY <1>0, <2>3, <2>4
  <2> QED
    BY <2>1, <2>2, <2>3, <2>8, <2>9, LeavingMove
<1> QED
  BY <1>1, <1>3, <1>4, <1>5, <1>6, <1>7

\* Clicks and dashboard edits either leave reminders_sent alone or mark the
\* row as disturbed.
LEMMA RowStepSafe ==
    ASSUME Safe, TypeOK', NEW r \in Row, Subscriber(r) \/ Dashboard(r)
    PROVE  Safe'
<1>0. row \in [Row -> RowRecord] /\ okSent \in [Row -> SUBSET Tiers]
      /\ lost \in [Row -> SUBSET Tiers]
  BY DEF Safe, TypeOK
<1>1. pass' = pass /\ day' = day
  BY DEF Subscriber, Dashboard, RenewAndRearm, Rearm, Reset, Stop, Snooze,
         EditRead, EditWrite
<1>2. /\ AsOfToday' /\ Decided' /\ UndoneReverts'
      /\ \A s \in Row : Holders(s)' = Holders(s)
  BY <1>1 DEF Safe, IInv, AsOfToday, Decided, UndoneReverts, Holders, Claimed
<1>3. \A s \in Row \ {r} :
          /\ row'[s] = row[s] /\ okSent'[s] = okSent[s] /\ lost'[s] = lost[s]
          /\ s \in dup' => s \in dup
          /\ s \in disturbed => s \in disturbed'
  BY <1>0 DEF Subscriber, Dashboard, RenewAndRearm, Rearm, Reset, Stop, Snooze,
              EditRead, EditWrite, history
<1>4. r \notin disturbed' =>
          \/ /\ r \notin disturbed
             /\ row'[r].sent = row[r].sent /\ row'[r].cycle = row[r].cycle
             /\ okSent'[r] = okSent[r] /\ lost'[r] = lost[r]
             /\ r \in dup' => r \in dup
          \/ /\ Holders(r) = {} /\ row'[r].sent = {} /\ okSent'[r] = {}
             /\ r \notin dup'
  <2>1. CASE RenewAndRearm(r) \/ Rearm(r)
    BY <1>0, <2>1 DEF RenewAndRearm, Rearm, Reset
  <2>2. ASSUME NEW reason \in {"unsubscribed", "renewed"}, Stop(r, reason)
        PROVE  /\ UNCHANGED <<okSent, lost, dup, disturbed>>
               /\ row'[r].sent = row[r].sent /\ row'[r].cycle = row[r].cycle
    BY <1>0, <2>2 DEF Stop, RowRecord, history
  <2>3. CASE Snooze(r)
    BY <1>0, <2>3 DEF Snooze, RowRecord, history
  <2>4. CASE EditRead(r)
    BY <2>4 DEF EditRead, history
  <2>5. CASE EditWrite(r)
    <3>1. PICK old \in draft[r] :
              /\ row' = [row EXCEPT ![r] = [@ EXCEPT !.status = old.status,
                                             !.reason = old.reason,
                                             !.sent = old.sent]]
              /\ disturbed' = IF old.sent # row[r].sent \/ Holders(r) # {}
                              THEN disturbed \cup {r} ELSE disturbed
              /\ UNCHANGED <<okSent, lost, dup>>
      BY <2>5, Zenon DEF EditWrite
    <3>2. row'[r].sent = old.sent /\ row'[r].cycle = row[r].cycle
      BY <1>0, <3>1 DEF RowRecord
    <3> QED
      BY <3>1, <3>2
  <2> QED
    BY <2>1, <2>2, <2>3, <2>4, <2>5 DEF Subscriber, Dashboard
<1>5. ClaimHeld'
  BY <1>1, <1>2, <1>3, <1>4 DEF Safe, IInv, ClaimHeld
<1>6. OneHolder'
  BY <1>2, <1>3, <1>4 DEF Safe, IInv, OneHolder
<1>7. SentRecorded'
  BY <1>3, <1>4 DEF Safe, IInv, SentRecorded
<1>8. NoDoubleSend'
  BY <1>3, <1>4 DEF Safe, NoDoubleSend, TypeOK
<1>9. NoSilentLoss'
  BY <1>1, <1>2, <1>3, <1>4 DEF Safe, NoSilentLoss, Accounted
<1> QED
  BY <1>2, <1>5, <1>6, <1>7, <1>8, <1>9 DEF Safe, IInv

\* The invariant holds at all times, provided every pass ends on the day it
\* began.
THEOREM SafeAlways == ASSUME SpansMidnight = FALSE PROVE Spec => []Safe
<1>1. Init => Safe
  <2> SUFFICES ASSUME Init PROVE Safe
    OBVIOUS
  <2>1. TypeOK
    BY InitTyped
  <2>2. \A p \in Pass : pass[p].pc = "idle" /\ ~ pass[p].undone
    BY DEF Init, IdlePass
  <2>3. \A r \in Row : row[r].sent = {} /\ okSent[r] = {} /\ Holders(r) = {}
    BY <2>2 DEF Init, NewRow, Holders, Claimed, Holding
  <2>4. dup = {} /\ disturbed = {}
    BY DEF Init
  <2> QED
    BY <2>1, <2>2, <2>3, <2>4
       DEF Safe, IInv, AsOfToday, Decided, UndoneReverts, ClaimHeld, OneHolder,
           SentRecorded, NoDoubleSend, NoSilentLoss, Accounted
<1>2. Safe /\ TypeOK' /\ [Next]_vars => Safe'
  <2> SUFFICES ASSUME Safe, TypeOK', [Next]_vars PROVE Safe'
    OBVIOUS
  <2>1. CASE NextDay
    <3>1. \A p \in Pass : pass[p].pc = "idle"
      BY <2>1 DEF NextDay
    <3>2. UNCHANGED <<row, pass, okSent, lost, dup, disturbed>>
      BY <2>1 DEF NextDay
    <3> QED
      BY <3>1, <3>2
         DEF Safe, IInv, AsOfToday, Decided, UndoneReverts, ClaimHeld,
             OneHolder, SentRecorded, NoDoubleSend, NoSilentLoss, Accounted,
             Holders, Claimed, Holding
  <2>2. ASSUME NEW p \in Pass, StartPass(p) \/ PassStep(p) \/ Fault(p)
        PROVE  Safe'
    BY <2>2, QuietStepSafe, ClaimSafe, SettlingStepSafe DEF PassStep, Fault
  <2>3. ASSUME NEW r \in Row, Subscriber(r) \/ Dashboard(r) PROVE Safe'
    BY <2>3, RowStepSafe
  <2>4. CASE UNCHANGED vars
    BY <2>4 DEF vars, history, Safe, TypeOK, PassTypeOK, IInv, AsOfToday,
                Decided, UndoneReverts, ClaimHeld, OneHolder, SentRecorded,
                NoDoubleSend, NoSilentLoss, Accounted, Holders, Claimed
  <2> QED
    BY <2>1, <2>2, <2>3, <2>4 DEF Next
<1> QED
  BY <1>1, <1>2, TypeCorrect, PTL DEF Spec

\* Overlapping passes never send one tier twice in a cycle, whatever crashes,
\* refuses or times out, on a row of which no claim was taken away: by a renewal
\* or an edit, or by a revert made twice (NoDoubleSend).
THEOREM NeverTwice == ASSUME SpansMidnight = FALSE PROVE Spec => []NoDoubleSend
<1>1. Safe => NoDoubleSend
  BY DEF Safe
<1> QED
  BY <1>1, SafeAlways, PTL

\* A recorded tier that is neither sent nor being sent was left behind by a
\* kill, by a claim that committed and threw, or by a revert D1 refused twice
\* (NoSilentLoss).
THEOREM NeverLost == ASSUME SpansMidnight = FALSE PROVE Spec => []NoSilentLoss
<1>1. Safe => NoSilentLoss
  BY DEF Safe
<1> QED
  BY <1>1, SafeAlways, PTL

-----------------------------------------------------------------------------
(* The refinement: every step is one of RemindOnce's, or leaves its         *)
(* variables alone.                                                         *)

\* The variables RemindOnce sees.
Seen == <<okSent, dup, disturbed>>

\* A tier that nextDueThreshold returns is more urgent than all sent before.
LEMMA TierIsMoreUrgent ==
    ASSUME NEW r \in Row, NEW d \in Nat, NEW sent \in SUBSET Tiers,
           TierFor(r, d, sent) # 0
    PROVE  \A u \in sent : TierFor(r, d, sent) < u
<1> DEFINE days == DaysRemaining(r, d)
<1>1. CASE days >= -Grace
  <2>1. TierFor(r, d, sent) = NextDue(days, sent, ThresholdsOf(r))
    BY <1>1 DEF TierFor
  <2>2. NextDue(days, sent, ThresholdsOf(r))
            \in DueTiers(days, sent, ThresholdsOf(r))
    BY <2>1, NextDueIsLeast, DeadlineType, ThresholdsAreTiers
  <2> QED
    BY <2>1, <2>2 DEF DueTiers
<1>2. CASE ~ (days >= -Grace)
  BY <1>2 DEF TierFor
<1> QED
  BY <1>1, <1>2

\* An email that leaves is a reminder RemindOnce allows, or one it waived.
LEMMA SendRefines ==
    ASSUME Safe, NEW p \in Pass, SendOk(p)
    PROVE  Promise!Next \/ UNCHANGED Seen
<1> DEFINE r == pass[p].cur
           t == pass[p].tier
           mine == pass[p].snap[r].sent
<1>1. /\ r \in Row /\ t \in Tiers /\ pass[p].asOf \in Nat
      /\ mine \in SUBSET Tiers
  BY DEF Safe, TypeOK, PassTypeOK, PassRecord, RowRecord, SendOk
<1>2. CASE pass[p].epoch # row[r].cycle
  BY <1>2 DEF SendOk, Seen
<1>3. CASE pass[p].epoch = row[r].cycle /\ r \in disturbed
  <2>1. /\ okSent' = [okSent EXCEPT ![r] = @ \cup {t}]
        /\ dup' \in {dup, dup \cup {r}}
        /\ UNCHANGED disturbed
    BY <1>3 DEF SendOk
  <2>2. Promise!RemindWaived(r, t)
    BY <1>3, <2>1 DEF Promise!RemindWaived
  <2> QED
    BY <1>1, <2>2 DEF Promise!Next
<1>4. CASE pass[p].epoch = row[r].cycle /\ r \notin disturbed
  <2>1. p \in Holders(r)
    BY DEF SendOk, Holders, Claimed, Holding, Safe, IInv, UndoneReverts
  <2>2. okSent[r] \subseteq mine
    BY <1>1, <1>4, <2>1 DEF Safe, IInv, ClaimHeld
  <2>3. t = TierFor(r, pass[p].asOf, mine)
    BY DEF Safe, IInv, Decided, SendOk
  <2>4. t # 0
    BY <1>1, TierAssumption
  <2>5. \A u \in mine : t < u
    BY <1>1, <2>3, <2>4, TierIsMoreUrgent
  <2>6. t \notin mine
    BY TierIsNew DEF SendOk
  <2>7. /\ okSent' = [okSent EXCEPT ![r] = @ \cup {t}]
        /\ UNCHANGED <<dup, disturbed>>
    <3>1. t \notin okSent[r]
      BY <2>2, <2>6
    <3> QED
      BY <1>4, <3>1, Zenon DEF SendOk
  <2> HIDE DEF r, t, mine
  <2>8. Promise!Remind(r, t)
    BY <2>2, <2>5, <2>7 DEF Promise!Remind
  <2> QED
    BY <1>1, <2>8 DEF Promise!Next
<1> QED
  BY <1>2, <1>3, <1>4

\* The other steps of a pass tell the subscriber nothing.
LEMMA PassRefines ==
    ASSUME Safe, NEW p \in Pass, StartPass(p) \/ PassStep(p) \/ Fault(p)
    PROVE  Promise!Next \/ UNCHANGED Seen
<1>1. CASE SendOk(p)
  BY <1>1, SendRefines
<1>2. CASE UnclaimWrite(p) \/ UnclaimUnheard(p)
  <2>1. pass[p].cur \in Row
    BY <1>2 DEF Safe, TypeOK, PassTypeOK, UnclaimWrite, UnclaimUnheard
  <2>2. /\ disturbed' = disturbed \cup {pass[p].cur} \/ disturbed' = disturbed
        /\ UNCHANGED <<okSent, dup>>
    BY <1>2 DEF UnclaimWrite, UnclaimUnheard, GiveBack
  <2>3. Promise!Waive(pass[p].cur) \/ UNCHANGED Seen
    BY <2>2 DEF Promise!Waive, Seen
  <2> QED
    BY <2>1, <2>3 DEF Promise!Next
<1>3. CASE \/ StartPass(p) \/ Visit(p) \/ EndPass(p) \/ CheckSuppressed(p)
           \/ Claim(p) \/ CountSend(p) \/ SendFalse(p) \/ UnclaimRead(p)
  BY <1>3 DEF Seen, history, StartPass, Visit, EndPass, CheckSuppressed, Claim,
              CountSend, SendFalse, UnclaimRead
<1>4. CASE \/ ClaimUnheard(p) \/ Skip(p) \/ CountThrows(p) \/ UnclaimThrows(p)
           \/ Kill(p)
  BY <1>4 DEF Seen, history, ClaimUnheard, Skip, CountThrows, UnclaimThrows, Kill
<1> QED
  BY <1>1, <1>2, <1>3, <1>4 DEF PassStep, Fault

\* A click or an edit begins a new cycle, waives the promise, or does neither.
LEMMA RowRefines ==
    ASSUME TypeOK, NEW r \in Row, Subscriber(r) \/ Dashboard(r)
    PROVE  Promise!Next \/ UNCHANGED Seen
<1>1. ASSUME Reset(r) PROVE Promise!Next
  <2>1. Promise!NewCycle(r)
    BY <1>1 DEF Reset, Promise!NewCycle
  <2> QED
    BY <2>1 DEF Promise!Next
<1>2. CASE RenewAndRearm(r) \/ Rearm(r)
  BY <1>1, <1>2 DEF RenewAndRearm, Rearm
<1>3. ASSUME NEW reason \in {"unsubscribed", "renewed"}, Stop(r, reason)
      PROVE  UNCHANGED Seen
  BY <1>3 DEF Stop, history, Seen
<1>4. CASE Snooze(r) \/ EditRead(r)
  BY <1>4 DEF Snooze, EditRead, history, Seen
<1>5. CASE EditWrite(r)
  <2>1. /\ disturbed' = disturbed \cup {r} \/ disturbed' = disturbed
        /\ UNCHANGED <<okSent, dup>>
    BY <1>5 DEF EditWrite
  <2>2. CASE disturbed' = disturbed
    BY <2>1, <2>2 DEF Seen
  <2>3. CASE disturbed' = disturbed \cup {r}
    <3>1. Promise!Waive(r)
      BY <2>1, <2>3 DEF Promise!Waive
    <3> QED
      BY <3>1 DEF Promise!Next
  <2> QED
    BY <2>1, <2>2, <2>3
<1> QED
  BY <1>2, <1>3, <1>4, <1>5 DEF Subscriber, Dashboard

\* The pass keeps RemindOnce's promise (RemindsOnce), for any number of rows,
\* passes and tiers, whatever crashes, throws or is refused, provided every
\* pass ends on the day it began.
THEOREM KeepsThePromise == ASSUME SpansMidnight = FALSE PROVE Spec => RemindsOnce
<1>1. Init => Promise!Init
  BY DEF Init, Promise!Init
<1>2. Safe /\ [Next]_vars => [Promise!Next]_Promise!vars
  <2> SUFFICES ASSUME Safe, [Next]_vars
               PROVE  Promise!Next \/ UNCHANGED Seen
    BY DEF Promise!vars, Seen
  <2>1. CASE NextDay
    BY <2>1 DEF NextDay, Seen
  <2>2. ASSUME NEW p \in Pass, StartPass(p) \/ PassStep(p) \/ Fault(p)
        PROVE  Promise!Next \/ UNCHANGED Seen
    BY <2>2, PassRefines
  <2>3. ASSUME NEW r \in Row, Subscriber(r) \/ Dashboard(r)
        PROVE  Promise!Next \/ UNCHANGED Seen
    BY <2>3, RowRefines DEF Safe
  <2>4. CASE UNCHANGED vars
    BY <2>4 DEF vars, history, Seen
  <2> QED
    BY <2>1, <2>2, <2>3, <2>4 DEF Next
<1> QED
  BY <1>1, <1>2, SafeAlways, PTL DEF Spec, RemindsOnce, Promise!Spec

-----------------------------------------------------------------------------
(* The daily cap and the opt-out: where a pass goes in one step.            *)

\* What a step of pass p does to its place, the counter and the emails.
LEMMA PlaceMoves ==
    ASSUME PassTypeOK, NEW p \in Pass, StartPass(p) \/ PassStep(p) \/ Fault(p)
    PROVE  /\ Others(p)
           /\ \/ /\ pass'[p].pc \notin {"claim", "count", "send"}
                 /\ handed' = handed
                 /\ budget' = budget \/ (UnderCap /\ budget' = budget + 1)
              \/ /\ pass[p].pc = "send"
                 /\ pass'[p].pc \notin {"claim", "count", "send"}
                 /\ handed' = handed + 1 /\ budget' = budget
              \/ /\ pass[p].pc = "check" /\ ~Suppressed(pass[p].cur)
                 /\ pass'[p].pc = "claim" /\ pass'[p].cur = pass[p].cur
                 /\ handed' = handed /\ budget' = budget
              \/ /\ pass[p].pc = "claim"
                 /\ pass'[p].pc = "count" /\ pass'[p].cur = pass[p].cur
                 /\ handed' = handed /\ budget' = budget
              \/ /\ pass[p].pc = "count" /\ UnderCap
                 /\ pass'[p].pc = "send" /\ pass'[p].cur = pass[p].cur
                 /\ handed' = handed /\ budget' = budget + 1
<1>0. pass[p] \in PassRecord /\ pass \in [Pass -> PassRecord]
  BY DEF PassTypeOK
<1>a. ASSUME NEW local, Become(p, local) PROVE Others(p) /\ pass'[p] = local
  BY <1>0, <1>a DEF Become, Others
<1>1. CASE StartPass(p)
  <2> DEFINE local == [IdlePass EXCEPT
                         !.pc = "loop", !.asOf = day, !.snap = row,
                         !.todo = {q \in Row : row[q].status = "confirmed"}]
  <2>1. local.pc = "loop"
    BY DEF IdlePass
  <2>2. Become(p, local)
    BY <1>1 DEF StartPass
  <2> HIDE DEF local
  <2> QED
    BY <1>1, <1>a, <2>1, <2>2 DEF StartPass
<1>2. CASE Visit(p)
  <2>1. PICK q \in pass[p].todo :
           \/ Become(p, [pass[p] EXCEPT !.todo = @ \ {q}])
           \/ Become(p, [pass[p] EXCEPT !.todo = @ \ {q}, !.pc = "check", !.cur = q,
                           !.tier = TierFor(q, pass[p].asOf, pass[p].snap[q].sent)])
    BY <1>2 DEF Visit
  <2> DEFINE skip == [pass[p] EXCEPT !.todo = @ \ {q}]
             take == [pass[p] EXCEPT !.todo = @ \ {q}, !.pc = "check", !.cur = q,
                        !.tier = TierFor(q, pass[p].asOf, pass[p].snap[q].sent)]
  <2>2. skip.pc = "loop" /\ take.pc = "check"
    BY <1>0, <1>2 DEF Visit, PassRecord
  <2>3. Become(p, skip) \/ Become(p, take)
    BY <2>1
  <2> HIDE DEF skip, take
  <2> QED
    BY <1>2, <1>a, <2>2, <2>3 DEF Visit, history
<1>3. CASE EndPass(p) \/ Skip(p) \/ ClaimUnheard(p)
  BY <1>3, Moves DEF EndPass, Skip, ClaimUnheard, history
<1>4. CASE CheckSuppressed(p)
  BY <1>4, Moves DEF CheckSuppressed, SameWork, history
<1>5. CASE Claim(p)
  <2> DEFINE local == [pass[p] EXCEPT !.pc = "count", !.epoch = row[pass[p].cur].cycle]
  <2>1. local.pc = "count" /\ local.cur = pass[p].cur
    BY <1>0 DEF PassRecord
  <2>2. Become(p, local) \/ Continue(p)
    BY <1>5 DEF Claim
  <2> HIDE DEF local
  <2> QED
    BY <1>5, <1>a, <2>1, <2>2, Moves DEF Claim, history
<1>6. CASE CountSend(p)
  <2> DEFINE local == [pass[p] EXCEPT !.pc = "unread", !.halt = TRUE]
  <2>1. local.pc = "unread"
    BY <1>0 DEF PassRecord
  <2>2. \/ UnderCap /\ Goto(p, "send") /\ budget' = budget + 1
        \/ Become(p, local) /\ UNCHANGED budget
    BY <1>6 DEF CountSend
  <2> HIDE DEF local
  <2> QED
    BY <1>6, <1>a, <2>1, <2>2, Moves DEF CountSend, SameWork, history
<1>7. CASE SendOk(p) \/ SendFalse(p)
  BY <1>7, Moves DEF SendOk, SendFalse
<1>8. CASE UnclaimRead(p)
  <2> DEFINE local == [pass[p] EXCEPT !.pc = "unwrite", !.had = row[pass[p].cur].sent]
  <2>1. local.pc = "unwrite"
    BY <1>0 DEF PassRecord
  <2>2. Become(p, local)
    BY <1>8 DEF UnclaimRead
  <2> HIDE DEF local
  <2> QED
    BY <1>8, <1>a, <2>1, <2>2 DEF UnclaimRead, history
<1>9. CASE UnclaimWrite(p)
  BY <1>9, Moves DEF UnclaimWrite, AfterUnclaim, history
<1>10. CASE CountThrows(p) \/ UnclaimThrows(p) \/ Kill(p)
  BY <1>10, Moves DEF CountThrows, UnclaimThrows, Kill, history
<1>11. CASE UnclaimUnheard(p)
  <2> DEFINE local == [pass[p] EXCEPT !.pc = "unread", !.had = {},
                                      !.caught = TRUE, !.undone = TRUE,
                                      !.halt = FALSE]
  <2>1. local.pc = "unread"
    BY <1>0 DEF PassRecord
  <2>2. Continue(p) \/ Become(p, local)
    BY <1>11 DEF UnclaimUnheard
  <2> HIDE DEF local
  <2> QED
    BY <1>11, <1>a, <2>1, <2>2, Moves DEF UnclaimUnheard
<1> QED
  BY <1>1, <1>2, <1>3, <1>4, <1>5, <1>6, <1>7, <1>8, <1>9, <1>10,
     <1>11 DEF PassStep, Fault

\* Neither a click nor an edit counts, sends or moves a pass.
LEMMA RowLeavesPasses ==
    ASSUME NEW r \in Row, Subscriber(r) \/ Dashboard(r)
    PROVE  UNCHANGED <<day, pass, budget, handed>>
BY DEF Subscriber, Dashboard, RenewAndRearm, Rearm, Reset, Stop, Snooze,
       EditRead, EditWrite, history

\* Every email handed over, and every one about to be, was counted.
Sending == {p \in Pass : pass[p].pc = "send"}
CapInv ==
    /\ IsFiniteSet(Sending)
    /\ handed + Cardinality(Sending) <= budget
    /\ budget <= Cap

LEMMA StepCounted ==
    ASSUME TypeOK, CapInv, NEW p \in Pass, StartPass(p) \/ PassStep(p) \/ Fault(p)
    PROVE  CapInv'
<1>0. /\ PassTypeOK /\ handed \in Nat /\ budget \in Nat /\ Cap \in Nat
      /\ Cardinality(Sending) \in Nat
  BY BoundAssumption, FS_CardinalityType DEF TypeOK, CapInv
<1>1. CASE pass'[p].pc # "send"
  <2>1. Sending' = Sending \ {p}
    BY <1>0, <1>1, PlaceMoves DEF Sending, Others
  <2>2. /\ IsFiniteSet(Sending')
        /\ Cardinality(Sending') =
             IF p \in Sending THEN Cardinality(Sending) - 1 ELSE Cardinality(Sending)
    BY <2>1, FS_RemoveElement DEF CapInv
  <2>3. \/ handed' = handed /\ budget' = budget
        \/ handed' = handed /\ budget' = budget + 1 /\ UnderCap
        \/ handed' = handed + 1 /\ budget' = budget /\ p \in Sending
    BY <1>0, <1>1, PlaceMoves DEF Sending
  <2> QED
    BY <1>0, <2>2, <2>3 DEF CapInv, UnderCap
<1>2. CASE pass'[p].pc = "send"
  <2>1. /\ pass[p].pc = "count" /\ UnderCap
        /\ handed' = handed /\ budget' = budget + 1 /\ Others(p)
    BY <1>0, <1>2, PlaceMoves
  <2>2. Sending' = Sending \cup {p} /\ p \notin Sending
    BY <1>2, <2>1 DEF Sending, Others
  <2>3. IsFiniteSet(Sending') /\ Cardinality(Sending') = Cardinality(Sending) + 1
    BY <2>2, FS_AddElement DEF CapInv
  <2> QED
    BY <1>0, <2>1, <2>3 DEF CapInv, UnderCap
<1> QED
  BY <1>1, <1>2

\* No more emails leave in a day than the cap, however many passes overlap
\* and whatever crashes or throws (CapHolds): checkAndCountSend counts before
\* the provider is called, and only below the cap.
THEOREM CapKept == ASSUME SpansMidnight = FALSE PROVE Spec => []CapHolds
<1>1. Init => CapInv
  <2> SUFFICES ASSUME Init PROVE CapInv
    OBVIOUS
  <2>1. Sending = {}
    BY DEF Init, IdlePass, Sending
  <2> QED
    BY <2>1, FS_EmptySet, BoundAssumption DEF Init, CapInv
<1>2. TypeOK /\ CapInv /\ [Next]_vars => CapInv'
  <2> SUFFICES ASSUME TypeOK, CapInv, [Next]_vars PROVE CapInv'
    OBVIOUS
  <2>1. CASE NextDay
    <3>1. Sending' = {} /\ handed' = 0 /\ budget' = 0
      BY <2>1 DEF NextDay, Sending
    <3> QED
      BY <3>1, FS_EmptySet, BoundAssumption DEF CapInv
  <2>2. ASSUME NEW p \in Pass, StartPass(p) \/ PassStep(p) \/ Fault(p)
        PROVE  CapInv'
    BY <2>2, StepCounted
  <2>3. ASSUME NEW r \in Row, Subscriber(r) \/ Dashboard(r) PROVE CapInv'
    BY <2>3, RowLeavesPasses DEF CapInv, Sending
  <2>4. CASE UNCHANGED vars
    BY <2>4 DEF vars, history, CapInv, Sending
  <2> QED
    BY <2>1, <2>2, <2>3, <2>4 DEF Next
<1>3. TypeOK /\ CapInv => CapHolds
  BY FS_CardinalityType, BoundAssumption DEF TypeOK, CapInv, CapHolds
<1> QED
  BY <1>1, <1>2, <1>3, TypeCorrect, PTL DEF Spec

\* Once a subscriber has opted out no pass joins those that had already looked
\* (OptOutWindow): the opt-out list is read anew for each row, right before its
\* claim, and from then on a pass only goes forward or lets go.
THEOREM OptOutObeyed == Spec => OptOutWindow
<1>1. TypeOK /\ [Next]_vars =>
        \A r \in Row : Suppressed(r) /\ Suppressed(r)' =>
                           PastCheck(r)' \subseteq PastCheck(r)
  <2> SUFFICES ASSUME TypeOK, [Next]_vars, NEW r \in Row, Suppressed(r)
               PROVE  PastCheck(r)' \subseteq PastCheck(r)
    OBVIOUS
  <2>1. CASE NextDay
    BY <2>1 DEF NextDay, PastCheck
  <2>2. ASSUME NEW p \in Pass, StartPass(p) \/ PassStep(p) \/ Fault(p)
        PROVE  PastCheck(r)' \subseteq PastCheck(r)
    <3>1. PassTypeOK
      BY DEF TypeOK
    <3> QED
      BY <2>2, <3>1, PlaceMoves DEF PastCheck, Others
  <2>3. ASSUME NEW s \in Row, Subscriber(s) \/ Dashboard(s)
        PROVE  PastCheck(r)' \subseteq PastCheck(r)
    BY <2>3, RowLeavesPasses DEF PastCheck
  <2>4. CASE UNCHANGED vars
    BY <2>4 DEF vars, history, PastCheck
  <2> QED
    BY <2>1, <2>2, <2>3, <2>4 DEF Next
<1> QED
  BY <1>1, TypeCorrect, PTL DEF Spec, OptOutWindow

\* Past the grace period a subscriber gets one catch-up, of a cycle in which no
\* reminder was sent, and inside the window (CatchUpOnce): the claim that comes
\* with the email is still the last thing that happened to the row.
THEOREM OneCatchUp == ASSUME SpansMidnight = FALSE PROVE Spec => CatchUpOnce
<1>1. ASSUME Safe, NEW p \in Pass, SendOk(p),
             DaysRemaining(pass[p].cur, pass[p].asOf) < -Grace
      PROVE  /\ DaysRemaining(pass[p].cur, pass[p].asOf) >= -CatchUp
             /\ pass[p].cur \in disturbed \/ okSent[pass[p].cur] = {}
  <2> DEFINE r == pass[p].cur
             days == DaysRemaining(r, pass[p].asOf)
             mine == pass[p].snap[r].sent
  <2>1. /\ r \in Row /\ pass[p].tier \in Tiers /\ pass[p].asOf \in Nat
        /\ pass[p].pc = "send"
    BY <1>1 DEF Safe, TypeOK, PassTypeOK, PassRecord, SendOk
  <2>2. pass[p].tier = TierFor(r, pass[p].asOf, mine) /\ pass[p].tier # 0
    BY <1>1, <2>1, TierAssumption DEF Safe, IInv, Decided
  <2>3. ~ (days >= -Grace)
    BY <1>1, <2>1, DeadlineType, BoundAssumption
  <2>4. mine = {} /\ days >= -CatchUp
    BY <2>2, <2>3 DEF TierFor
  <2>5. p \in Holders(r)
    BY <1>1, <2>1 DEF Holders, Claimed, Holding, Safe, IInv, UndoneReverts
  <2>6. r \notin disturbed => okSent[r] \subseteq mine
    BY <1>1, <2>1, <2>5 DEF Safe, IInv, ClaimHeld
  <2> QED
    BY <2>4, <2>6
<1>2. Safe /\ [Next]_vars =>
        \A p \in Pass : LET r == pass[p].cur
                            late == DaysRemaining(r, pass[p].asOf)
                        IN  SendOk(p) /\ late < -Grace =>
                                /\ late >= -CatchUp
                                /\ r \in disturbed \/ okSent[r] = {}
  BY <1>1
<1> QED
  BY <1>2, SafeAlways, PTL DEF Spec, CatchUpOnce

-----------------------------------------------------------------------------
(* Every row is served.                                                    *)

\* The claim a pass is about to win leaves the row with no tier that day.
LEMMA ClaimIsLast ==
    ASSUME Safe, NEW p \in Pass, pass[p].pc = "claim"
    PROVE  TierFor(pass[p].cur, day,
                   pass[p].snap[pass[p].cur].sent \cup {pass[p].tier}) = 0
<1> DEFINE r == pass[p].cur
           mine == pass[p].snap[r].sent
<1>0. r \in Row /\ pass[p].tier \in Tiers /\ day \in Nat
  BY DEF Safe, TypeOK, PassTypeOK
<1>1. mine \in SUBSET Tiers
  BY <1>0 DEF Safe, TypeOK, PassTypeOK, PassRecord, RowRecord
<1>2. pass[p].tier = TierFor(r, day, mine)
  BY DEF Safe, IInv, AsOfToday, Decided
<1>3. TierFor(r, day, mine) # 0
  BY <1>0, <1>2, TierAssumption
<1> QED
  BY <1>0, <1>1, <1>2, <1>3, OneTierADay

\* What may happen to a row that nothing gives back, renews or edits: it is
\* stopped, snoozed or claimed, none of which makes a tier due.
Onward(r) ==
    /\ row'[r].status = "confirmed" => row[r].status = "confirmed"
    /\ row[r].snoozed >= day => row'[r].snoozed >= day
    /\ row'[r].sent = row[r].sent \/ TierFor(r, day, row'[r].sent) = 0

LEMMA OnwardNotDue ==
    ASSUME TypeOK, TypeOK', day' = day, NEW r \in Row, Onward(r), ~ Due(r)
    PROVE  ~ Due(r)'
<1>0. /\ row[r].snoozed \in Int /\ row'[r].snoozed \in Int /\ day \in Int
      /\ row[r].status \in {"confirmed", "stopped"}
      /\ row'[r].status \in {"confirmed", "stopped"}
  BY DEF TypeOK, RowRecord
<1>1. CASE row[r].status # "confirmed"
  BY <1>1 DEF Onward, Due
<1>2. CASE ~ (row[r].snoozed < day)
  <2>1. row'[r].snoozed >= day
    BY <1>0, <1>2 DEF Onward
  <2> QED
    BY <1>0, <2>1 DEF Due
<1>3. CASE TierFor(r, day, row[r].sent) = 0
  <2>1. TierFor(r, day, row'[r].sent) = 0
    BY <1>3 DEF Onward
  <2> QED
    BY <2>1 DEF Due
<1> QED
  BY <1>1, <1>2, <1>3 DEF Due

\* A pass stops no one and wakes no one, and gives back only by touching.
LEMMA PassOnward ==
    ASSUME Safe, NEW p \in Pass, StartPass(p) \/ PassStep(p) \/ Fault(p)
    PROVE  /\ day' = day /\ draft' = draft
           /\ \A r \in Row : /\ row'[r].status = row[r].status
                             /\ row'[r].reason = row[r].reason
                             /\ Onward(r) \/ \A q \in Pass : r \in hitch'[q]
           /\ \A q \in Pass \ {p} : hitch[q] \subseteq hitch'[q]
           /\ StartPass(p) \/ hitch[p] \subseteq hitch'[p]
<1>0. /\ row \in [Row -> RowRecord] /\ hitch \in [Pass -> SUBSET Row]
      /\ pass[p].pc \notin {"idle", "loop"} => pass[p].cur \in Row
  BY DEF Safe, TypeOK, PassTypeOK
<1>1. ASSUME UNCHANGED row PROVE \A r \in Row : Onward(r)
  BY <1>1 DEF Onward
<1>2. ASSUME pass[p].pc = "claim", Claimable(p),
             row' = [row EXCEPT ![pass[p].cur].sent =
                         pass[p].snap[pass[p].cur].sent \cup {pass[p].tier}]
      PROVE  \A r \in Row : /\ Onward(r) /\ row'[r].status = row[r].status
                            /\ row'[r].reason = row[r].reason
  <2>1. TierFor(pass[p].cur, day, row'[pass[p].cur].sent) = 0
    BY <1>0, <1>2, ClaimIsLast DEF RowRecord
  <2> QED
    BY <1>0, <1>2, <2>1 DEF Onward, RowRecord
<1>3. ASSUME pass[p].pc = "unwrite", GiveBack(p)
      PROVE  /\ \A r \in Row : /\ row'[r].status = row[r].status
                               /\ row'[r].reason = row[r].reason
                               /\ Onward(r) \/ \A q \in Pass : r \in hitch'[q]
             /\ \A q \in Pass : hitch[q] \subseteq hitch'[q]
  BY <1>0, <1>3 DEF GiveBack, Touch, Onward, RowRecord
<1>4. CASE \/ Visit(p) \/ EndPass(p) \/ CheckSuppressed(p) \/ CountSend(p)
           \/ SendOk(p) \/ SendFalse(p) \/ UnclaimRead(p) \/ CountThrows(p)
           \/ UnclaimThrows(p) \/ Kill(p)
  BY <1>1, <1>4 DEF Visit, EndPass, CheckSuppressed, CountSend, SendOk,
     SendFalse, UnclaimRead, CountThrows, UnclaimThrows, Kill, history
<1>5. CASE StartPass(p) \/ Skip(p)
  BY <1>0, <1>1, <1>5 DEF StartPass, Skip
<1>6. CASE Claim(p) \/ ClaimUnheard(p)
  BY <1>1, <1>2, <1>6 DEF Claim, ClaimUnheard, history
<1>7. CASE UnclaimWrite(p) \/ UnclaimUnheard(p)
  BY <1>3, <1>7 DEF UnclaimWrite, UnclaimUnheard
<1> QED
  BY <1>4, <1>5, <1>6, <1>7 DEF PassStep, Fault

\* Clicks and edits do either.
LEMMA RowOnward ==
    ASSUME Safe, OptOutStops, NEW s \in Row, Subscriber(s) \/ Dashboard(s)
    PROVE  /\ day' = day /\ pass' = pass /\ OptOutStops'
           /\ \A r \in Row : Onward(r) \/ \A q \in Pass : r \in hitch'[q]
           /\ \A q \in Pass : hitch[q] \subseteq hitch'[q]
<1>0. /\ row \in [Row -> RowRecord] /\ hitch \in [Pass -> SUBSET Row]
      /\ draft \in [Row -> SUBSET RowRecord]
      /\ day \in Nat /\ Deadline(s, day) \in Int
  BY DeadlineType DEF Safe, TypeOK
<1>1. ASSUME Reset(s)
      PROVE  /\ day' = day /\ pass' = pass /\ OptOutStops'
             /\ \A r \in Row : Onward(r) \/ \A q \in Pass : r \in hitch'[q]
             /\ \A q \in Pass : hitch[q] \subseteq hitch'[q]
  BY <1>0, <1>1 DEF Reset, Touch, Onward, OptOutStops
<1>2. CASE RenewAndRearm(s) \/ Rearm(s)
  BY <1>1, <1>2 DEF RenewAndRearm, Rearm
<1>3. ASSUME NEW reason \in {"unsubscribed", "renewed"}, Stop(s, reason)
      PROVE  /\ day' = day /\ pass' = pass /\ OptOutStops'
             /\ \A r \in Row : Onward(r)
             /\ hitch' = hitch
  BY <1>0, <1>3 DEF Stop, Onward, OptOutStops, RowRecord, history
<1>4. ASSUME Snooze(s)
      PROVE  /\ day' = day /\ pass' = pass /\ OptOutStops'
             /\ \A r \in Row : Onward(r)
             /\ hitch' = hitch
  <2> DEFINE due == Deadline(s, day)
             wanted == day + SnoozeDays
             until == IF wanted > due - 1 THEN due - 1 ELSE wanted
  <2>1. until >= day /\ row' = [row EXCEPT ![s].snoozed = until]
    BY <1>0, <1>4, BoundAssumption DEF Snooze
  <2> HIDE DEF until
  <2> QED
    BY <1>0, <1>4, <2>1 DEF Snooze, Onward, OptOutStops, RowRecord, history
<1>5. CASE EditRead(s)
  BY <1>0, <1>5 DEF EditRead, Onward, OptOutStops, history
<1>6. CASE EditWrite(s)
  <2>1. PICK old \in draft[s] :
            /\ row' = [row EXCEPT ![s] = [@ EXCEPT !.status = old.status,
                                             !.reason = old.reason,
                                             !.sent = old.sent]]
            /\ draft' = [draft EXCEPT ![s] = {}]
            /\ Touch(s)
            /\ UNCHANGED <<day, pass>>
    BY <1>6, Zenon DEF EditWrite
  <2>2. row'[s].status = old.status /\ row'[s].reason = old.reason
    BY <1>0, <2>1 DEF RowRecord
  <2>3. OptOutStops'
    BY <1>0, <2>1, <2>2 DEF OptOutStops
  <2> QED
    BY <1>0, <2>1, <2>3 DEF Onward, Touch
<1> QED
  BY <1>2, <1>3, <1>4, <1>5, <1>6 DEF Subscriber, Dashboard

\* What a pass believes of a row stays true while the row only goes onward.
LEMMA StillServed ==
    ASSUME Safe, TypeOK', Served, day' = day, NEW q \in Pass, NEW r \in Row,
           pass[q].pc # "idle", r \notin hitch[q], Onward(r),
           pass'[q].snap = pass[q].snap
    PROVE  /\ row'[r].status = "confirmed" => pass'[q].snap[r].status = "confirmed"
           /\ pass'[q].snap[r].snoozed >= day' => row'[r].snoozed >= day'
           /\ \/ row'[r].sent = pass'[q].snap[r].sent
              \/ TierFor(r, day', row'[r].sent) = 0
           /\ ~ Due(r) => ~ Due(r)'
BY OnwardNotDue DEF Safe, Served, Onward

\* Where a pass goes keeps its snapshot and what it has left to do.
LEMMA KeepsList ==
    ASSUME PassTypeOK, NEW p \in Pass
    PROVE  /\ Continue(p) => /\ pass'[p].todo = pass[p].todo
                             /\ pass'[p].snap = pass[p].snap
           /\ Catch(p) => /\ pass'[p].todo = pass[p].todo
                          /\ pass'[p].snap = pass[p].snap
           /\ \A pc \in {"claim", "send", "unread"} :
                 Goto(p, pc) => /\ pass'[p].todo = pass[p].todo
                                /\ pass'[p].snap = pass[p].snap
<1>0. pass[p] \in PassRecord /\ pass \in [Pass -> PassRecord]
  BY DEF PassTypeOK
<1>1. ASSUME Continue(p)
      PROVE  pass'[p].todo = pass[p].todo /\ pass'[p].snap = pass[p].snap
  <2> DEFINE local == [pass[p] EXCEPT !.pc = "loop", !.cur = NoRow, !.tier = 0,
                              !.epoch = 0, !.had = {}, !.caught = FALSE,
                              !.undone = FALSE, !.halt = FALSE]
  <2>1. local.todo = pass[p].todo /\ local.snap = pass[p].snap
    BY <1>0 DEF PassRecord
  <2>2. Become(p, local)
    BY <1>1 DEF Continue
  <2> HIDE DEF local
  <2> QED
    BY <1>0, <2>1, <2>2 DEF Become
<1>2. ASSUME Catch(p)
      PROVE  pass'[p].todo = pass[p].todo /\ pass'[p].snap = pass[p].snap
  <2> DEFINE local == [pass[p] EXCEPT !.pc = "unread", !.had = {},
                                      !.caught = TRUE, !.halt = FALSE]
  <2>1. local.todo = pass[p].todo /\ local.snap = pass[p].snap
    BY <1>0 DEF PassRecord
  <2>2. Become(p, local)
    BY <1>2 DEF Catch
  <2> HIDE DEF local
  <2> QED
    BY <1>0, <2>1, <2>2 DEF Become
<1>3. ASSUME NEW pc \in {"claim", "send", "unread"}, Goto(p, pc)
      PROVE  pass'[p].todo = pass[p].todo /\ pass'[p].snap = pass[p].snap
  <2> DEFINE local == [pass[p] EXCEPT !.pc = pc]
  <2>1. local.todo = pass[p].todo /\ local.snap = pass[p].snap
    BY <1>0 DEF PassRecord
  <2>2. Become(p, local)
    BY <1>3 DEF Goto
  <2> HIDE DEF local
  <2> QED
    BY <1>0, <2>1, <2>2 DEF Become
<1> QED
  BY <1>1, <1>2, <1>3

\* A step of p at which p is left with a list of rows, each of them served or
\* still to come, keeps Served.
LEMMA ServedMove ==
    ASSUME Safe, TypeOK', OptOutStops, Served, NEW p \in Pass, ~ StartPass(p),
           StartPass(p) \/ PassStep(p) \/ Fault(p), Others(p),
           pass[p].pc # "idle",
           pass'[p].pc = "idle" \/ pass'[p].snap = pass[p].snap,
           pass'[p].pc # "idle" =>
               \A r \in Row \ hitch'[p] :
                   \/ r \in pass'[p].todo \/ ~ Due(r) \/ ~ Due(r)'
                   \/ pass'[p].cur = r /\ pass'[p].pc \in {"check", "claim"}
    PROVE  Served'
<1>1. /\ day' = day
      /\ \A r \in Row : Onward(r) \/ \A q \in Pass : r \in hitch'[q]
      /\ \A q \in Pass : hitch[q] \subseteq hitch'[q]
  BY PassOnward
<1> SUFFICES ASSUME NEW q \in Pass, pass'[q].pc # "idle",
                    NEW r \in Row, r \notin hitch'[q]
             PROVE  /\ row'[r].status = "confirmed" =>
                           pass'[q].snap[r].status = "confirmed"
                    /\ pass'[q].snap[r].snoozed >= day' => row'[r].snoozed >= day'
                    /\ \/ row'[r].sent = pass'[q].snap[r].sent
                       \/ TierFor(r, day', row'[r].sent) = 0
                    /\ \/ r \in pass'[q].todo \/ ~ Due(r)'
                       \/ pass'[q].cur = r /\ pass'[q].pc \in {"check", "claim"}
  BY DEF Served
<1>2. /\ pass[q].pc # "idle" /\ pass'[q].snap = pass[q].snap
      /\ r \notin hitch[q] /\ Onward(r)
  BY <1>1 DEF Others
<1>3. /\ row'[r].status = "confirmed" => pass'[q].snap[r].status = "confirmed"
      /\ pass'[q].snap[r].snoozed >= day' => row'[r].snoozed >= day'
      /\ \/ row'[r].sent = pass'[q].snap[r].sent
         \/ TierFor(r, day', row'[r].sent) = 0
      /\ ~ Due(r) => ~ Due(r)'
  BY <1>1, <1>2, StillServed
<1>4. CASE q = p
  BY <1>3, <1>4
<1>5. CASE q # p
  <2>1. pass'[q] = pass[q]
    BY <1>5 DEF Others
  <2>2. \/ r \in pass[q].todo \/ ~ Due(r)
        \/ pass[q].cur = r /\ pass[q].pc \in {"check", "claim"}
    BY <1>2 DEF Served
  <2> QED
    BY <1>3, <2>1, <2>2
<1> QED
  BY <1>4, <1>5

\* The steps of a pass keep Served.
LEMMA PassServed ==
    ASSUME Safe, TypeOK', OptOutStops, Served, NEW p \in Pass,
           StartPass(p) \/ PassStep(p) \/ Fault(p)
    PROVE  OptOutStops' /\ Served'
<1>0. /\ PassTypeOK /\ pass[p] \in PassRecord /\ row \in [Row -> RowRecord]
      /\ pass \in [Pass -> PassRecord] /\ day' = day
      /\ hitch \in [Pass -> SUBSET Row]
  BY PassOnward DEF Safe, TypeOK, PassTypeOK
<1>a. OptOutStops'
  BY PassOnward DEF OptOutStops
<1>b. ASSUME NEW local, Become(p, local) PROVE Others(p) /\ pass'[p] = local
  BY <1>0, <1>b DEF Become, Others
<1>c. pass[p].pc # "idle" =>
        /\ pass[p].asOf = day
        /\ \A r \in Row \ hitch[p] :
             LET seen == pass[p].snap[r]
             IN  /\ row[r].status = "confirmed" => seen.status = "confirmed"
                 /\ seen.snoozed >= day => row[r].snoozed >= day
                 /\ row[r].sent = seen.sent \/ TierFor(r, day, row[r].sent) = 0
                 /\ \/ r \in pass[p].todo \/ ~ Due(r)
                    \/ pass[p].cur = r /\ pass[p].pc \in {"check", "claim"}
  BY DEF Safe, IInv, AsOfToday, Served
<1>d. ~ StartPass(p) => hitch[p] \subseteq hitch'[p]
  BY PassOnward
<1>1. CASE StartPass(p)
  <2> DEFINE local == [IdlePass EXCEPT
                         !.pc = "loop", !.asOf = day, !.snap = row,
                         !.todo = {q \in Row : row[q].status = "confirmed"}]
  <2>1. /\ local.pc = "loop" /\ local.snap = row
        /\ local.todo = {q \in Row : row[q].status = "confirmed"}
    BY DEF IdlePass
  <2>2. Become(p, local)
    BY <1>1 DEF StartPass
  <2> HIDE DEF local
  <2>3. Others(p) /\ pass'[p] = local
    BY <1>b, <2>2
  <2>4. UNCHANGED <<day, row>> /\ \A q \in Pass \ {p} : hitch'[q] = hitch[q]
    BY <1>0, <1>1 DEF StartPass
  <2>5. \A r \in Row : r \in local.todo \/ ~ Due(r)
    BY <2>1 DEF Due
  <2>6. \A r \in Row : Due(r)' <=> Due(r)
    BY <2>4 DEF Due
  <2>7. ASSUME NEW q \in Pass, pass'[q].pc # "idle",
               NEW r \in Row, r \notin hitch'[q]
        PROVE  /\ row'[r].status = "confirmed" =>
                      pass'[q].snap[r].status = "confirmed"
               /\ pass'[q].snap[r].snoozed >= day' => row'[r].snoozed >= day'
               /\ \/ row'[r].sent = pass'[q].snap[r].sent
                  \/ TierFor(r, day', row'[r].sent) = 0
               /\ \/ r \in pass'[q].todo \/ ~ Due(r)'
                  \/ pass'[q].cur = r /\ pass'[q].pc \in {"check", "claim"}
    <3>1. CASE q = p
      BY <2>1, <2>3, <2>4, <2>5, <2>6, <3>1
    <3>2. CASE q # p
      <4>1. pass'[q] = pass[q] /\ r \notin hitch[q]
        BY <2>3, <2>4, <2>7, <3>2 DEF Others
      <4> QED
        BY <2>4, <2>6, <2>7, <4>1 DEF Served
    <3> QED
      BY <3>1, <3>2
  <2>8. Served'
    BY <2>7 DEF Served
  <2> QED
    BY <1>a, <2>8
<1>2. CASE Visit(p)
  <2>1. PICK q \in pass[p].todo :
            LET seen == pass[p].snap[q]
                tier == TierFor(q, pass[p].asOf, seen.sent)
                quiet == seen.snoozed >= pass[p].asOf \/ tier = 0
            IN  IF quiet
                THEN Become(p, [pass[p] EXCEPT !.todo = @ \ {q}])
                ELSE Become(p, [pass[p] EXCEPT !.todo = @ \ {q},
                                               !.pc = "check",
                                               !.cur = q, !.tier = tier])
    BY <1>2, Zenon DEF Visit
  <2> DEFINE seen == pass[p].snap[q]
             tier == TierFor(q, pass[p].asOf, seen.sent)
             quiet == seen.snoozed >= pass[p].asOf \/ tier = 0
             skip == [pass[p] EXCEPT !.todo = @ \ {q}]
             take == [pass[p] EXCEPT !.todo = @ \ {q}, !.pc = "check",
                                     !.cur = q, !.tier = tier]
  <2>2. pass[p].pc = "loop" /\ UNCHANGED <<day, row, hitch>>
    BY <1>2 DEF Visit, history
  <2>3. /\ skip.pc = "loop" /\ skip.snap = pass[p].snap
        /\ skip.todo = pass[p].todo \ {q}
        /\ take.pc = "check" /\ take.snap = pass[p].snap
        /\ take.todo = pass[p].todo \ {q} /\ take.cur = q
    BY <1>0, <2>2 DEF PassRecord
  <2>4. (quiet /\ Become(p, skip)) \/ Become(p, take)
    BY <2>1
  <2>5. q \in Row /\ row[q].snoozed \in Int /\ day \in Nat
    BY <1>0 DEF PassRecord, RowRecord, Safe, TypeOK
  <2>6. quiet /\ q \notin hitch[p] => ~ Due(q)
    <3>1. CASE seen.snoozed >= pass[p].asOf
      BY <1>c, <2>2, <2>5, <3>1 DEF Due
    <3>2. CASE tier = 0
      BY <1>c, <2>2, <2>5, <3>2 DEF Due
    <3> QED
      BY <3>1, <3>2
  <2> HIDE DEF seen, tier, quiet, skip, take
  <2>7. Others(p) /\ ((quiet /\ pass'[p] = skip) \/ pass'[p] = take)
    BY <1>b, <2>4
  <2>8. \A r \in Row \ hitch'[p] :
            \/ r \in pass'[p].todo \/ ~ Due(r)
            \/ pass'[p].cur = r /\ pass'[p].pc \in {"check", "claim"}
    BY <1>c, <2>2, <2>3, <2>6, <2>7
  <2>9. pass'[p].snap = pass[p].snap /\ ~ StartPass(p)
    BY <2>2, <2>3, <2>7 DEF StartPass
  <2> QED
    BY <1>a, <2>2, <2>7, <2>8, <2>9, ServedMove
<1>3. CASE EndPass(p) \/ Kill(p)
  <2>1. Others(p) /\ pass'[p].pc = "idle"
    BY <1>0, <1>3, Moves DEF EndPass, Kill
  <2>2. ~ StartPass(p) /\ pass[p].pc # "idle"
    BY <1>3 DEF EndPass, Kill, StartPass
  <2> QED
    BY <1>a, <2>1, <2>2, ServedMove
<1>4. CASE CheckSuppressed(p)
  <2>1. pass[p].pc = "check" /\ UNCHANGED <<day, row, hitch>> /\ ~ StartPass(p)
    BY <1>4 DEF CheckSuppressed, StartPass, history
  <2>2. pass[p].cur \in Row
    BY <1>0, <2>1 DEF PassTypeOK
  <2>3. Suppressed(pass[p].cur) => ~ Due(pass[p].cur)
    BY <2>2 DEF OptOutStops, Suppressed, Due
  <2>4. /\ Others(p) /\ pass'[p].todo = pass[p].todo
        /\ pass'[p].snap = pass[p].snap
        /\ \/ Suppressed(pass[p].cur)
           \/ pass'[p].pc = "claim" /\ pass'[p].cur = pass[p].cur
    BY <1>0, <1>4, Moves, KeepsList DEF CheckSuppressed, SameWork
  <2>5. \A r \in Row \ hitch'[p] :
            \/ r \in pass'[p].todo \/ ~ Due(r)
            \/ pass'[p].cur = r /\ pass'[p].pc \in {"check", "claim"}
    BY <1>c, <2>1, <2>3, <2>4
  <2> QED
    BY <1>a, <2>1, <2>4, <2>5, ServedMove
<1>5. CASE Claim(p) \/ ClaimUnheard(p)
  <2> DEFINE c == pass[p].cur
             local == [pass[p] EXCEPT !.pc = "count", !.epoch = row[c].cycle]
  <2>1. pass[p].pc = "claim" /\ UNCHANGED <<day, hitch>> /\ ~ StartPass(p)
    BY <1>5 DEF Claim, ClaimUnheard, StartPass, history
  <2>2. c \in Row
    BY <1>0, <2>1 DEF PassTypeOK
  <2>3. local.todo = pass[p].todo /\ local.snap = pass[p].snap
    BY <1>0 DEF PassRecord
  <2>4. Continue(p) \/ Become(p, local)
    BY <1>5 DEF Claim, ClaimUnheard
  <2> HIDE DEF local
  <2>5. Others(p) /\ pass'[p].todo = pass[p].todo /\ pass'[p].snap = pass[p].snap
    BY <1>0, <1>b, <2>3, <2>4, Moves, KeepsList
  <2>6. CASE Claimable(p)
    <3>1. row' = [row EXCEPT ![c].sent = pass[p].snap[c].sent \cup {pass[p].tier}]
      BY <1>5, <2>6 DEF Claim, ClaimUnheard
    <3>2. row'[c].sent = pass[p].snap[c].sent \cup {pass[p].tier}
      BY <1>0, <2>2, <3>1 DEF RowRecord
    <3>3. TierFor(c, day', row'[c].sent) = 0
      BY <1>0, <2>1, <3>2, ClaimIsLast
    <3>5. \A r \in Row \ hitch'[p] : r \in pass'[p].todo \/ ~ Due(r) \/ ~ Due(r)'
      <4> SUFFICES ASSUME NEW r \in Row, r \notin hitch'[p], r \notin pass'[p].todo,
                          Due(r)
                   PROVE  ~ Due(r)'
        OBVIOUS
      <4>1. r = c
        BY <1>c, <2>1, <2>5
      <4>2. TierFor(r, day', row'[r].sent) = 0
        BY <3>3, <4>1
      <4> QED
        BY <4>2 DEF Due
    <3> QED
      BY <1>a, <2>1, <2>5, <3>5, ServedMove
  <2>7. CASE ~ Claimable(p)
    <3>1. row[c].sent # pass[p].snap[c].sent /\ row' = row
      BY <1>5, <2>7 DEF Claim, ClaimUnheard, Claimable
    <3>2. c \notin hitch[p] => ~ Due(c)
      BY <1>c, <2>1, <2>2, <3>1 DEF Due
    <3>3. \A r \in Row \ hitch'[p] : r \in pass'[p].todo \/ ~ Due(r)
      BY <1>c, <2>1, <2>5, <3>2
    <3> QED
      BY <1>a, <2>1, <2>5, <3>3, ServedMove
  <2> QED
    BY <2>6, <2>7
<1>6. CASE Skip(p)
  <2>1. /\ pass[p].pc \in {"check", "claim"} /\ ~ StartPass(p)
        /\ hitch'[p] = hitch[p] \cup {pass[p].cur}
    BY <1>0, <1>6 DEF Skip, StartPass
  <2>2. Others(p) /\ pass'[p].todo = pass[p].todo /\ pass'[p].snap = pass[p].snap
    BY <1>0, <1>6, Moves, KeepsList DEF Skip
  <2>3. \A r \in Row \ hitch'[p] : r \in pass'[p].todo \/ ~ Due(r)
    BY <1>c, <2>1, <2>2
  <2> QED
    BY <1>a, <2>1, <2>2, <2>3, ServedMove
<1>7. ASSUME pass[p].pc \in Holding, Others(p),
             \/ pass'[p].pc = "idle"
             \/ pass'[p].todo = pass[p].todo /\ pass'[p].snap = pass[p].snap
      PROVE  Served'
  <2>1. ~ StartPass(p) /\ pass[p].pc \notin {"idle", "check", "claim"}
    BY <1>7 DEF StartPass, Holding
  <2>2. pass'[p].pc # "idle" =>
            \A r \in Row \ hitch'[p] : r \in pass'[p].todo \/ ~ Due(r)
    BY <1>c, <1>d, <1>7, <2>1
  <2> QED
    BY <1>7, <2>1, <2>2, ServedMove
<1>8. CASE CountSend(p)
  <2> DEFINE local == [pass[p] EXCEPT !.pc = "unread", !.halt = TRUE]
  <2>1. local.todo = pass[p].todo /\ local.snap = pass[p].snap
    BY <1>0 DEF PassRecord
  <2>2. Goto(p, "send") \/ Become(p, local)
    BY <1>8 DEF CountSend
  <2> HIDE DEF local
  <2>3. Others(p) /\ pass'[p].todo = pass[p].todo /\ pass'[p].snap = pass[p].snap
    BY <1>0, <1>b, <2>1, <2>2, Moves, KeepsList
  <2> QED
    BY <1>a, <1>7, <1>8, <2>3 DEF CountSend, Holding
<1>9. CASE UnclaimRead(p)
  <2> DEFINE local == [pass[p] EXCEPT !.pc = "unwrite",
                                      !.had = row[pass[p].cur].sent]
  <2>1. local.todo = pass[p].todo /\ local.snap = pass[p].snap
    BY <1>0 DEF PassRecord
  <2>2. Become(p, local)
    BY <1>9 DEF UnclaimRead
  <2> HIDE DEF local
  <2>3. Others(p) /\ pass'[p].todo = pass[p].todo /\ pass'[p].snap = pass[p].snap
    BY <1>b, <2>1, <2>2
  <2> QED
    BY <1>a, <1>7, <1>9, <2>3 DEF UnclaimRead, Holding
<1>10. CASE UnclaimUnheard(p)
  <2> DEFINE local == [pass[p] EXCEPT !.pc = "unread", !.had = {},
                                      !.caught = TRUE, !.undone = TRUE,
                                      !.halt = FALSE]
  <2>1. local.todo = pass[p].todo /\ local.snap = pass[p].snap
    BY <1>0 DEF PassRecord
  <2>2. Continue(p) \/ Become(p, local)
    BY <1>10 DEF UnclaimUnheard
  <2> HIDE DEF local
  <2>3. Others(p) /\ pass'[p].todo = pass[p].todo /\ pass'[p].snap = pass[p].snap
    BY <1>0, <1>b, <2>1, <2>2, Moves, KeepsList
  <2> QED
    BY <1>a, <1>7, <1>10, <2>3 DEF UnclaimUnheard, Holding
<1>11. CASE \/ SendOk(p) \/ SendFalse(p) \/ CountThrows(p) \/ UnclaimThrows(p)
            \/ UnclaimWrite(p)
  <2>1. /\ Others(p)
        /\ \/ pass'[p].pc = "idle"
           \/ pass'[p].todo = pass[p].todo /\ pass'[p].snap = pass[p].snap
    BY <1>0, <1>11, Moves, KeepsList
       DEF SendOk, SendFalse, CountThrows, UnclaimThrows, UnclaimWrite,
           AfterUnclaim
  <2>2. pass[p].pc \in Holding
    BY <1>11 DEF SendOk, SendFalse, CountThrows, UnclaimThrows, UnclaimWrite,
                 Holding
  <2> QED
    BY <1>a, <1>7, <2>1, <2>2
<1> QED
  BY <1>1, <1>2, <1>3, <1>4, <1>5, <1>6, <1>8, <1>9, <1>10, <1>11
     DEF PassStep, Fault

\* A pass that comes to its end has reminded of everything that was due, but for
\* rows given back, renewed or edited meanwhile and rows it failed to read
\* (PassServesAll): a bad row, a lost claim or an opt-out costs no other row its
\* reminder, and a tier given back before is tried again.
THEOREM NobodyPassedOver ==
    ASSUME SpansMidnight = FALSE PROVE Spec => PassServesAll
<1>1. Init => OptOutStops /\ Served
  BY DEF Init, OptOutStops, Served, NewRow, IdlePass
<1>2. Safe /\ TypeOK' /\ OptOutStops /\ Served /\ [Next]_vars
        => OptOutStops' /\ Served'
  <2> SUFFICES ASSUME Safe, TypeOK', OptOutStops, Served, [Next]_vars
               PROVE  OptOutStops' /\ Served'
    OBVIOUS
  <2>1. CASE NextDay
    BY <2>1 DEF NextDay, OptOutStops, Served
  <2>2. ASSUME NEW p \in Pass, StartPass(p) \/ PassStep(p) \/ Fault(p)
        PROVE  OptOutStops' /\ Served'
    BY <2>2, PassServed
  <2>3. ASSUME NEW s \in Row, Subscriber(s) \/ Dashboard(s)
        PROVE  OptOutStops' /\ Served'
    <3>1. /\ day' = day /\ pass' = pass /\ OptOutStops'
          /\ \A r \in Row : Onward(r) \/ \A q \in Pass : r \in hitch'[q]
          /\ \A q \in Pass : hitch[q] \subseteq hitch'[q]
      BY <2>3, RowOnward
    <3>2. ASSUME NEW q \in Pass, pass[q].pc # "idle",
                 NEW r \in Row, r \notin hitch'[q]
          PROVE  /\ row'[r].status = "confirmed" =>
                        pass'[q].snap[r].status = "confirmed"
                 /\ pass'[q].snap[r].snoozed >= day' => row'[r].snoozed >= day'
                 /\ \/ row'[r].sent = pass'[q].snap[r].sent
                    \/ TierFor(r, day', row'[r].sent) = 0
                 /\ \/ r \in pass'[q].todo \/ ~ Due(r)'
                    \/ pass'[q].cur = r /\ pass'[q].pc \in {"check", "claim"}
      <4>1. r \notin hitch[q] /\ Onward(r) /\ pass'[q].snap = pass[q].snap
        BY <3>1, <3>2
      <4>2. \/ r \in pass[q].todo \/ ~ Due(r)
            \/ pass[q].cur = r /\ pass[q].pc \in {"check", "claim"}
        BY <3>2, <4>1 DEF Served
      <4> QED
        BY <3>1, <3>2, <4>1, <4>2, StillServed
    <3>3. Served'
      BY <3>1, <3>2 DEF Served
    <3> QED
      BY <3>1, <3>3
  <2>4. CASE UNCHANGED vars
    BY <2>4 DEF vars, history, OptOutStops, Served, Due
  <2> QED
    BY <2>1, <2>2, <2>3, <2>4 DEF Next
<1>3. Safe /\ Served /\ [Next]_vars =>
        \A p \in Pass : EndPass(p) => \A r \in Row \ hitch[p] : ~ Due(r)
  <2> SUFFICES ASSUME Served, NEW p \in Pass, EndPass(p),
                      NEW r \in Row \ hitch[p]
               PROVE  ~ Due(r)
    OBVIOUS
  <2>1. pass[p].pc = "loop" /\ pass[p].todo = {}
    BY DEF EndPass
  <2> QED
    BY <2>1 DEF Served
<1> QED
  BY <1>1, <1>2, <1>3, TypeCorrect, SafeAlways, PTL DEF Spec, PassServesAll

-----------------------------------------------------------------------------
(* The deadlines.                                                          *)

-----------------------------------------------------------------------------
(* The calendar's order.                                                   *)

\* A date, or what a loop makes of a rule that lacks a field (0 stands for it).
LooseDate == [y : Nat, m : 0..12, d : 0..31]

\* Dates in a row.
Key(a) == 416 * a.y + 32 * a.m + a.d

LEMMA DateIsLoose == Date \subseteq LooseDate
BY DEF Date, LooseDate

\* The key tells dates apart and orders them as Before does.
LEMMA KeyOrders ==
    ASSUME NEW a \in LooseDate, NEW b \in LooseDate
    PROVE  /\ Key(a) \in Nat
           /\ Before(a, b) <=> Key(a) < Key(b)
           /\ Key(a) = Key(b) => a = b
<1>1. PICK y \in Nat, m \in 0..12, d \in 0..31 : a.y = y /\ a.m = m /\ a.d = d
  BY DEF LooseDate
<1>2. PICK yy \in Nat, mm \in 0..12, dd \in 0..31 : b.y = yy /\ b.m = mm /\ b.d = dd
  BY DEF LooseDate
<1>3. y = yy /\ m = mm /\ d = dd => a = b
  BY <1>1, <1>2 DEF LooseDate
<1>4. /\ Key(a) = 416 * y + 32 * m + d
      /\ Key(b) = 416 * yy + 32 * mm + dd
      /\ Before(a, b) <=> y < yy \/ (y = yy /\ m < mm) \/ (y = yy /\ m = mm /\ d < dd)
  BY <1>1, <1>2 DEF Key, Before
<1>5. /\ 416 * y + 32 * m + d \in Nat
      /\ 416 * y + 32 * m + d < 416 * yy + 32 * mm + dd <=>
           y < yy \/ (y = yy /\ m < mm) \/ (y = yy /\ m = mm /\ d < dd)
      /\ 416 * y + 32 * m + d = 416 * yy + 32 * mm + dd => y = yy /\ m = mm /\ d = dd
  OBVIOUS
<1> QED
  BY <1>3, <1>4, <1>5

LEMMA BeforeIsOrder ==
    ASSUME NEW a \in LooseDate, NEW b \in LooseDate
    PROVE  /\ ~ Before(a, a)
           /\ Before(a, b) => ~ Before(b, a)
           /\ ~ Before(a, b) /\ ~ Before(b, a) => a = b
<1>1. /\ Key(a) \in Nat /\ Key(b) \in Nat /\ (Key(a) = Key(b) => a = b)
      /\ Before(a, b) <=> Key(a) < Key(b)
      /\ Before(b, a) <=> Key(b) < Key(a)
      /\ Before(a, a) <=> Key(a) < Key(a)
  BY KeyOrders
<1> QED
  BY <1>1

LEMMA BeforeIsTransitive ==
    ASSUME NEW a \in LooseDate, NEW b \in LooseDate, NEW c \in LooseDate,
           ~ Before(b, a), ~ Before(c, b)
    PROVE  ~ Before(c, a)
<1>1. /\ Key(a) \in Nat /\ Key(b) \in Nat /\ Key(c) \in Nat
      /\ ~ (Key(b) < Key(a)) /\ ~ (Key(c) < Key(b))
  BY KeyOrders
<1> QED
  BY <1>1, KeyOrders

\* Every set of numbers that is not empty has a least one.
LEMMA LeastNumber ==
    ASSUME NEW S, S \subseteq Nat, S # {}
    PROVE  \E m \in S : \A n \in S : m <= n
BY SmallestIsLeast

-----------------------------------------------------------------------------
(* The first of a set of dates.                                            *)

LEMMA FirstOfSome ==
    ASSUME NEW S, S \subseteq LooseDate, S # {}
    PROVE  First(S) \in S /\ \A b \in S : ~ Before(b, First(S))
<1> DEFINE K == {Key(a) : a \in S}
<1>1. K \subseteq Nat /\ K # {}
  BY KeyOrders
<1>2. PICK k \in K : \A n \in K : k <= n
  <2> HIDE DEF K
  <2> QED
    BY <1>1, LeastNumber
<1>3. PICK a \in S : Key(a) = k
  OBVIOUS
<1>4. ASSUME NEW b \in S PROVE ~ Before(b, a)
  <2>1. Key(a) <= Key(b) /\ Key(a) \in Nat /\ Key(b) \in Nat
    BY <1>1, <1>2, <1>3
  <2> QED
    BY <2>1, KeyOrders
<1> QED
  BY <1>4 DEF First

LEMMA FirstIs ==
    ASSUME NEW S, S \subseteq LooseDate, NEW x \in S, \A b \in S : ~ Before(b, x)
    PROVE  First(S) = x
<1>1. First(S) \in S /\ \A b \in S : ~ Before(b, First(S))
  BY FirstOfSome
<1> QED
  BY <1>1, BeforeIsOrder

\* x is the first day of D that t has not passed.
Earliest(D, t, x) ==
    /\ x \in D /\ ~ Before(x, t)
    /\ \A b \in D : ~ Before(b, t) => ~ Before(b, x)

LEMMA EarliestIsOne ==
    ASSUME NEW D, D \subseteq LooseDate, NEW t, NEW x, NEW z,
           Earliest(D, t, x), Earliest(D, t, z)
    PROVE  x = z
BY BeforeIsOrder DEF Earliest

\* It stays the first one until it has passed.
LEMMA EarliestStays ==
    ASSUME NEW D, D \subseteq LooseDate, NEW s \in LooseDate, NEW t \in LooseDate, NEW x,
           ~ Before(t, s), Earliest(D, s, x), ~ Before(x, t)
    PROVE  Earliest(D, t, x)
<1>1. ASSUME NEW b \in D, ~ Before(b, t) PROVE ~ Before(b, s)
  BY <1>1, BeforeIsTransitive
<1> QED
  BY <1>1 DEF Earliest

\* A day is the first one of D from itself on when it is in D, and only then.
LEMMA EarliestIsToday ==
    ASSUME NEW D, D \subseteq LooseDate, NEW t \in LooseDate, NEW x, Earliest(D, t, x)
    PROVE  x = t <=> t \in D
BY BeforeIsOrder DEF Earliest

LEMMA FirstIsEarliest ==
    ASSUME NEW D, D \subseteq LooseDate, NEW t \in LooseDate,
           \E a \in D : Reached(a, t)
    PROVE  Earliest(D, t, First({a \in D : Reached(a, t)}))
<1> DEFINE S == {a \in D : Reached(a, t)}
<1>1. S \subseteq LooseDate /\ S # {}
  OBVIOUS
<1>2. First(S) \in S /\ \A b \in S : ~ Before(b, First(S))
  <2> HIDE DEF S
  <2> QED
    BY <1>1, FirstOfSome
<1> QED
  BY <1>2 DEF Earliest, Reached

\* What a loop over the dates D gives stays right until it has passed, be it a
\* date of D or what the loop would never end with.
LEMMA FirstStays ==
    ASSUME NEW D, D \subseteq LooseDate, NEW s \in LooseDate, NEW t \in LooseDate,
           ~ Before(t, s), ~ Before(First({a \in D : Reached(a, s)}), t)
    PROVE  First({a \in D : Reached(a, t)}) = First({a \in D : Reached(a, s)})
<1> DEFINE S == {a \in D : Reached(a, s)}
           T == {a \in D : Reached(a, t)}
<1>1. T \subseteq S
  BY BeforeIsTransitive DEF Reached
<1>2. CASE S = {}
  <2>1. S = T
    BY <1>1, <1>2
  <2> QED
    BY <2>1
<1>3. CASE S # {}
  <2>1. \E a \in D : Reached(a, s)
    BY <1>3
  <2>2. Earliest(D, s, First(S))
    BY <2>1, FirstIsEarliest
  <2>3. Earliest(D, t, First(S))
    BY <2>2, EarliestStays
  <2>4. \E a \in D : Reached(a, t)
    BY <2>3 DEF Earliest, Reached
  <2>5. Earliest(D, t, First(T))
    BY <2>4, FirstIsEarliest
  <2> QED
    BY <2>3, <2>5, EarliestIsOne
<1> QED
  BY <1>2, <1>3

-----------------------------------------------------------------------------
(* The calendar.                                                           *)

LEMMA MonthLastDayIs == \A y, m : MonthLastDay(y, m) \in 28..31
BY DEF MonthLastDay

LEMMA MonthEndIs ==
    ASSUME NEW y \in Nat, NEW m \in 0..12
    PROVE  MonthEnd(y, m) \in LooseDate /\ MonthEnd(y, m).y = y
BY MonthLastDayIs DEF MonthEnd, At, LooseDate

LEMMA AtIs ==
    ASSUME NEW y \in Nat, NEW m \in 0..12, NEW d \in 0..31
    PROVE  At(y, m, d) \in LooseDate /\ At(y, m, d).y = y
BY DEF At, LooseDate

\* An earlier year is an earlier date, an earlier date no later year.
LEMMA YearsInOrder ==
    ASSUME NEW a \in LooseDate, NEW b \in LooseDate
    PROVE  /\ a.y < b.y => Before(a, b)
           /\ Before(a, b) => a.y <= b.y
           /\ ~ Before(a, b) => b.y <= a.y
<1>1. a.y \in Nat /\ b.y \in Nat
  BY DEF LooseDate
<1> QED
  BY <1>1 DEF Before

LEMMA TomorrowIs ==
    ASSUME NEW t \in Date, InCalendar(t)
    PROVE  /\ Tomorrow(t) \in Date /\ InCalendar(Tomorrow(t)) /\ Before(t, Tomorrow(t))
           /\ Tomorrow(t).m # t.m <=> t.d = MonthLastDay(t.y, t.m)
           /\ \A e \in Date : Before(t, e) => Tomorrow(t).y <= e.y
<1>1. t.y \in Nat /\ t.m \in 1..12 /\ t.d \in 1..31
  BY DEF Date
<1>2. MonthLastDay(t.y, t.m) \in 28..31 /\ t.d <= MonthLastDay(t.y, t.m)
  BY MonthLastDayIs DEF InCalendar
<1>3. CASE t.d < MonthLastDay(t.y, t.m)
  <2>1. Tomorrow(t) = At(t.y, t.m, t.d + 1)
    BY <1>3 DEF Tomorrow, At, Date
  <2>2. t.d + 1 \in 1..31 /\ t.d + 1 <= MonthLastDay(t.y, t.m)
    BY <1>1, <1>2, <1>3
  <2>3. \A e \in Date : Before(t, e) => t.y <= e.y
    BY YearsInOrder, DateIsLoose
  <2>4. Before(t, Tomorrow(t))
    BY <1>1, <2>1 DEF Before, At
  <2> QED
    BY <1>1, <1>3, <2>1, <2>2, <2>3, <2>4 DEF At, Date, InCalendar
<1>4. CASE t.d = MonthLastDay(t.y, t.m) /\ t.m < 12
  <2>1. Tomorrow(t) = At(t.y, t.m + 1, 1)
    BY <1>1, <1>2, <1>4 DEF Tomorrow
  <2>2. t.m + 1 \in 1..12 /\ 1 <= MonthLastDay(t.y, t.m + 1)
    BY <1>1, <1>4, MonthLastDayIs
  <2>3. \A e \in Date : Before(t, e) => t.y <= e.y
    BY YearsInOrder, DateIsLoose
  <2>4. Before(t, Tomorrow(t)) /\ t.m + 1 # t.m
    BY <1>1, <2>1 DEF Before, At
  <2> QED
    BY <1>1, <1>4, <2>1, <2>2, <2>3, <2>4 DEF At, Date, InCalendar
<1>5. CASE t.d = MonthLastDay(t.y, t.m) /\ t.m = 12
  <2>1. Tomorrow(t) = At(t.y + 1, 1, 1)
    BY <1>1, <1>2, <1>5 DEF Tomorrow
  <2>2. 1 <= MonthLastDay(t.y + 1, 1) /\ t.y + 1 \in Nat
    BY <1>1, MonthLastDayIs
  <2>3. ASSUME NEW e \in Date, Before(t, e) PROVE t.y + 1 <= e.y
    <3>1. t.d = 31
      BY <1>5 DEF MonthLastDay
    <3>2. e.y \in Nat /\ e.m \in 1..12 /\ e.d \in 1..31
      BY DEF Date
    <3> QED
      BY <1>1, <1>5, <2>3, <3>1, <3>2 DEF Before
  <2>4. Before(t, Tomorrow(t))
    BY <1>1, <2>1 DEF Before, At
  <2> QED
    BY <1>1, <1>5, <2>1, <2>2, <2>3, <2>4 DEF At, Date, InCalendar
<1> QED
  BY <1>1, <1>2, <1>3, <1>4, <1>5

-----------------------------------------------------------------------------
(* The loops that try one year after the other.                            *)

MonthEnds(m) == {MonthEnd(y, m) : y \in Nat}

LEMMA NextMonthEndIs ==
    ASSUME NEW t \in Date, NEW m \in 0..12
    PROVE  MonthEnds(m) \subseteq LooseDate /\ Earliest(MonthEnds(m), t, NextAnnualMonthEnd(t, m))
<1>1. t \in LooseDate /\ t.y \in Nat /\ t.y + 1 \in Nat
  BY DateIsLoose DEF Date
<1>2. MonthEnds(m) \subseteq LooseDate
  BY MonthEndIs DEF MonthEnds
<1>3. CASE Reached(MonthEnd(t.y, m), t)
  <2>1. ASSUME NEW y \in Nat, ~ Before(MonthEnd(y, m), t)
        PROVE  ~ Before(MonthEnd(y, m), MonthEnd(t.y, m))
    <3>1. t.y <= y
      BY <1>1, <2>1, MonthEndIs, YearsInOrder
    <3>2. CASE t.y = y
      BY <1>1, <3>2, MonthEndIs, BeforeIsOrder
    <3>3. CASE t.y < y
      <4>1. /\ MonthEnd(t.y, m) \in LooseDate /\ MonthEnd(t.y, m).y = t.y
            /\ MonthEnd(y, m) \in LooseDate /\ MonthEnd(y, m).y = y
        BY <1>1, MonthEndIs
      <4>2. ~ (y <= t.y)
        BY <1>1, <3>3
      <4> QED
        BY <4>1, <4>2, YearsInOrder
    <3> QED
      BY <1>1, <3>1, <3>2, <3>3
  <2> QED
    BY <1>1, <1>2, <1>3, <2>1 DEF Earliest, NextAnnualMonthEnd, Reached, MonthEnds
<1>4. CASE ~ Reached(MonthEnd(t.y, m), t)
  <2>1. ASSUME NEW y \in Nat, ~ Before(MonthEnd(y, m), t)
        PROVE  ~ Before(MonthEnd(y, m), MonthEnd(t.y + 1, m))
    <3>1. t.y <= y /\ t.y # y
      BY <1>1, <1>4, <2>1, MonthEndIs, YearsInOrder DEF Reached
    <3>2. CASE t.y + 1 = y
      BY <1>1, <3>2, MonthEndIs, BeforeIsOrder
    <3>3. CASE t.y + 1 < y
      <4>1. /\ MonthEnd(t.y + 1, m) \in LooseDate /\ MonthEnd(t.y + 1, m).y = t.y + 1
            /\ MonthEnd(y, m) \in LooseDate /\ MonthEnd(y, m).y = y
        BY <1>1, MonthEndIs
      <4>2. ~ (y <= t.y + 1)
        BY <1>1, <3>3
      <4> QED
        BY <4>1, <4>2, YearsInOrder
    <3> QED
      BY <1>1, <3>1, <3>2, <3>3
  <2>2. ~ Before(MonthEnd(t.y + 1, m), t)
    <3>1. MonthEnd(t.y + 1, m) \in LooseDate /\ MonthEnd(t.y + 1, m).y = t.y + 1
      BY <1>1, MonthEndIs
    <3>2. ~ (t.y + 1 <= t.y)
      BY <1>1
    <3> QED
      BY <1>1, <3>1, <3>2, YearsInOrder
  <2> QED
    BY <1>1, <1>2, <1>4, <2>1, <2>2 DEF Earliest, NextAnnualMonthEnd, MonthEnds
<1> QED
  BY <1>2, <1>3, <1>4

\* Dates with one in every second year: looking four years far is enough.
LEMMA FourYearsAreEnough ==
    ASSUME NEW D, D \subseteq LooseDate, NEW p \in 0..1, NEW t \in LooseDate,
           \A y \in Nat : y % 2 = p => \E a \in D : a.y = y,
           NEW W, W = {a \in D : a.y \in t.y .. t.y + 3}
    PROVE  Earliest(D, t, First({a \in W : Reached(a, t)}))
<1>1. t.y \in Nat /\ t.y + 1 \in Nat /\ t.y + 2 \in Nat
  BY DEF LooseDate
<1>2. (t.y + 1) % 2 = p \/ (t.y + 2) % 2 = p
  BY <1>1
<1>3. PICK a \in D : a.y \in {t.y + 1, t.y + 2}
  BY <1>1, <1>2
<1>4. a \in W /\ Reached(a, t)
  BY <1>1, <1>3, YearsInOrder DEF Reached
<1> DEFINE x == First({b \in W : Reached(b, t)})
<1>5. Earliest(W, t, x)
  BY <1>4, FirstIsEarliest
<1> HIDE DEF x
<1>6. x \in D /\ x.y <= a.y
  BY <1>4, <1>5, YearsInOrder DEF Earliest, Reached
<1>7. ASSUME NEW b \in D, ~ Before(b, t) PROVE ~ Before(b, x)
  <2>1. t.y <= b.y /\ b.y \in Nat /\ x.y \in Nat /\ a.y \in Nat
    BY <1>6, <1>7, YearsInOrder DEF LooseDate
  <2>2. CASE b \in W
    BY <1>5, <1>7, <2>2 DEF Earliest
  <2>3. CASE b \notin W
    <3>1. x.y < b.y
      BY <1>1, <1>3, <1>6, <2>1, <2>3
    <3> QED
      BY <1>6, <3>1, YearsInOrder, BeforeIsOrder
  <2> QED
    BY <2>2, <2>3
<1> QED
  BY <1>5, <1>6, <1>7 DEF Earliest, x

ParityMonthEnds(m, p) == {MonthEnd(y, m) : y \in {n \in Nat : n % 2 = p}}
ParityDays(m, d, p) == {At(y, m, d) : y \in {n \in Nat : n % 2 = p}}

LEMMA NextParityMonthEndIs ==
    ASSUME NEW t \in Date, NEW m \in 0..12, NEW p \in 0..1
    PROVE  /\ ParityMonthEnds(m, p) \subseteq LooseDate
           /\ Earliest(ParityMonthEnds(m, p), t, NextBirthMonthParityDate(t, m, p))
<1> DEFINE D == ParityMonthEnds(m, p)
           W == {MonthEnd(y, m) : y \in ParityYears(t, p)}
<1>0. \A y \in Nat : MonthEnd(y, m) \in LooseDate /\ MonthEnd(y, m).y = y
  BY MonthEndIs
<1>1. t \in LooseDate /\ t.y \in Nat
  BY DateIsLoose DEF Date
<1>2. D \subseteq LooseDate
  BY <1>0 DEF ParityMonthEnds
<1>3. ASSUME NEW y \in Nat, y % 2 = p PROVE \E a \in D : a.y = y
  <2>1. MonthEnd(y, m) \in D
    BY <1>3 DEF ParityMonthEnds
  <2> QED
    BY <1>0, <2>1
<1>4. W = {a \in D : a.y \in t.y .. t.y + 3}
  <2>1. W = {MonthEnd(y, m) : y \in {n \in Nat : n % 2 = p /\ n \in t.y .. t.y + 3}}
    BY <1>1 DEF ParityYears
  <2>2. ASSUME NEW a \in D, a.y \in t.y .. t.y + 3 PROVE a \in W
    BY <1>0, <2>1, <2>2 DEF ParityMonthEnds
  <2>3. ASSUME NEW a \in W PROVE a \in D /\ a.y \in t.y .. t.y + 3
    BY <1>0, <2>1, <2>3 DEF ParityMonthEnds
  <2> HIDE DEF D, W
  <2> QED
    BY <2>2, <2>3
<1>5. NextBirthMonthParityDate(t, m, p) = First({a \in W : Reached(a, t)})
  BY DEF NextBirthMonthParityDate
<1> HIDE DEF D, W
<1>6. Earliest(D, t, First({a \in W : Reached(a, t)}))
  BY <1>1, <1>2, <1>3, <1>4, FourYearsAreEnough
<1> QED
  BY <1>2, <1>5, <1>6 DEF D

LEMMA NextParityDayIs ==
    ASSUME NEW t \in Date, NEW m \in 0..12, NEW d \in 0..31, NEW p \in 0..1
    PROVE  /\ ParityDays(m, d, p) \subseteq LooseDate
           /\ Earliest(ParityDays(m, d, p), t, NextFixedDateParity(t, m, d, p))
<1> DEFINE D == ParityDays(m, d, p)
           W == {At(y, m, d) : y \in ParityYears(t, p)}
<1>0. \A y \in Nat : At(y, m, d) \in LooseDate /\ At(y, m, d).y = y
  BY AtIs
<1>1. t \in LooseDate /\ t.y \in Nat
  BY DateIsLoose DEF Date
<1>2. D \subseteq LooseDate
  BY <1>0 DEF ParityDays
<1>3. ASSUME NEW y \in Nat, y % 2 = p PROVE \E a \in D : a.y = y
  <2>1. At(y, m, d) \in D
    BY <1>3 DEF ParityDays
  <2> QED
    BY <1>0, <2>1
<1>4. W = {a \in D : a.y \in t.y .. t.y + 3}
  <2>1. W = {At(y, m, d) : y \in {n \in Nat : n % 2 = p /\ n \in t.y .. t.y + 3}}
    BY <1>1 DEF ParityYears
  <2>2. ASSUME NEW a \in D, a.y \in t.y .. t.y + 3 PROVE a \in W
    BY <1>0, <2>1, <2>2 DEF ParityDays
  <2>3. ASSUME NEW a \in W PROVE a \in D /\ a.y \in t.y .. t.y + 3
    BY <1>0, <2>1, <2>3 DEF ParityDays
  <2> HIDE DEF D, W
  <2> QED
    BY <2>2, <2>3
<1>5. NextFixedDateParity(t, m, d, p) = First({a \in W : Reached(a, t)})
  BY DEF NextFixedDateParity
<1> HIDE DEF D, W
<1>6. Earliest(D, t, First({a \in W : Reached(a, t)}))
  BY <1>1, <1>2, <1>3, <1>4, FourYearsAreEnough
<1> QED
  BY <1>2, <1>5, <1>6 DEF D

-----------------------------------------------------------------------------
(* The loops that go from an anchor in whole terms.                        *)

TermDays(year, m, d, term) == {At(year + k * term, m, d) : k \in 0..Horizon}

LEMMA TermDaysAre ==
    ASSUME NEW year \in Nat, NEW m \in 0..12, NEW d \in 0..31, NEW term \in Nat
    PROVE  TermDays(year, m, d, term) \subseteq LooseDate
<1>1. ASSUME NEW k \in 0..Horizon PROVE year + k * term \in Nat
  <2>1. k \in Nat /\ k * term \in Nat
    BY WalkAssumption
  <2> QED
    BY <2>1
<1>2. ASSUME NEW k \in 0..Horizon PROVE At(year + k * term, m, d) \in LooseDate
  BY <1>1, AtIs
<1> QED
  BY <1>2 DEF TermDays

\* The dates that replace(year=...) goes through.
Carried(anchor, term) ==
    CHOOSE step : step = [k \in 0..Horizon |->
        IF k = 0 THEN anchor ELSE InYear(step[k - 1], step[k - 1].y + term)]

LEMMA InYearIs ==
    ASSUME NEW a \in Date, NEW y \in Nat
    PROVE  InYear(a, y) \in Date
<1>1. a.m \in 1..12 /\ a.d \in 1..31
  BY DEF Date
<1> QED
  BY <1>1 DEF InYear, At, Date

\* The recursion has a solution: by induction on how far it has to go.
LEMMA CarriedExists ==
    ASSUME NEW a \in Date, NEW term \in Nat, NEW h \in Nat
    PROVE  \E f \in [0..h -> Date] :
             f = [k \in 0..h |-> IF k = 0 THEN a ELSE InYear(f[k - 1], f[k - 1].y + term)]
<1> DEFINE Solves(f, n) ==
             f = [k \in 0..n |-> IF k = 0 THEN a ELSE InYear(f[k - 1], f[k - 1].y + term)]
           Bad == {n \in Nat : ~ \E f \in [0..n -> Date] : Solves(f, n)}
<1>1. ASSUME Bad # {} PROVE FALSE
  <2>1. PICK n \in Bad : \A b \in Bad : n <= b
    <3>1. Bad \subseteq Nat
      OBVIOUS
    <3> HIDE DEF Bad
    <3> QED
      BY <1>1, <3>1, LeastNumber
  <2>2. n \in Nat /\ ~ \E f \in [0..n -> Date] : Solves(f, n)
    OBVIOUS
  <2>3. CASE n = 0
    <3>1. [k \in 0..0 |-> a] \in [0..0 -> Date] /\ Solves([k \in 0..0 |-> a], 0)
      OBVIOUS
    <3> QED
      BY <2>2, <2>3, <3>1
  <2>4. CASE n # 0
    <3>1. n - 1 \in Nat /\ ~ (n <= n - 1)
      BY <2>2, <2>4
    <3>2. n - 1 \notin Bad
      BY <2>1, <3>1
    <3>3. PICK f \in [0..n - 1 -> Date] : Solves(f, n - 1)
      BY <3>1, <3>2
    <3> DEFINE g == [k \in 0..n |-> IF k = 0 THEN a ELSE InYear(f[k - 1], f[k - 1].y + term)]
    <3>4. ASSUME NEW k \in 0..n, k # 0 PROVE k - 1 \in 0..n - 1 /\ k - 1 \in 0..n
      BY <2>2, <3>4
    <3>5. ASSUME NEW k \in 0..n - 1 PROVE g[k] = f[k]
      BY <3>1, <3>3, <3>5
    <3>6. g \in [0..n -> Date]
      <4>1. ASSUME NEW k \in 0..n, k # 0 PROVE InYear(f[k - 1], f[k - 1].y + term) \in Date
        <5>1. f[k - 1] \in Date
          BY <3>4, <4>1
        <5>2. f[k - 1].y + term \in Nat
          BY <5>1 DEF Date
        <5> QED
          BY <5>1, <5>2, InYearIs
      <4> QED
        BY <4>1
    <3>7. Solves(g, n)
      <4>1. ASSUME NEW k \in 0..n, k # 0 PROVE g[k - 1] = f[k - 1]
        BY <3>4, <3>5, <4>1
      <4> QED
        BY <4>1
    <3> HIDE DEF g, Solves
    <3> QED
      BY <2>2, <3>6, <3>7
  <2> QED
    BY <2>3, <2>4
<1> QED
  BY <1>1

LEMMA CarriedIs ==
    ASSUME NEW a \in Date, NEW term \in Nat
    PROVE  LET f == Carried(a, term)
           IN  /\ f \in [0..Horizon -> Date]
               /\ f[0] = a
               /\ \A k \in 1..Horizon : f[k] = InYear(f[k - 1], f[k - 1].y + term)
               /\ \A t : NextAnchorDatePlusTerm(a, term, t)
                           = First({x \in {f[k] : k \in 0..Horizon} : Reached(x, t)})
<1> DEFINE f == Carried(a, term)
<1>1. Horizon \in Nat
  BY WalkAssumption
<1>2. \E g : g = [k \in 0..Horizon |-> IF k = 0 THEN a ELSE InYear(g[k - 1], g[k - 1].y + term)]
  <2>1. \E g \in [0..Horizon -> Date] :
          g = [k \in 0..Horizon |-> IF k = 0 THEN a ELSE InYear(g[k - 1], g[k - 1].y + term)]
    BY <1>1, CarriedExists
  <2> QED
    BY <2>1
<1>3. f = [k \in 0..Horizon |-> IF k = 0 THEN a ELSE InYear(f[k - 1], f[k - 1].y + term)]
  BY <1>2 DEF Carried
<1>4. \A t : NextAnchorDatePlusTerm(a, term, t)
               = First({x \in {f[k] : k \in 0..Horizon} : Reached(x, t)})
  BY DEF NextAnchorDatePlusTerm, Carried
<1> HIDE DEF f
<1>5. f[0] = a /\ \A k \in 1..Horizon : f[k] = InYear(f[k - 1], f[k - 1].y + term)
  <2>1. 0 \in 0..Horizon /\ \A k \in 1..Horizon : k \in 0..Horizon /\ k # 0
    BY <1>1
  <2> QED
    BY <1>3, <2>1
<1>6. \A k \in 0..Horizon : f[k] \in Date
  <2> DEFINE Bad == {k \in 0..Horizon : f[k] \notin Date}
  <2> SUFFICES ASSUME Bad # {} PROVE FALSE
    OBVIOUS
  <2>1. PICK k \in Bad : \A b \in Bad : k <= b
    <3>1. Bad \subseteq Nat
      BY <1>1
    <3> HIDE DEF Bad
    <3> QED
      BY <3>1, LeastNumber
  <2>2. k \in 1..Horizon
    BY <1>1, <1>5
  <2>3. k - 1 \in 0..Horizon /\ ~ (k <= k - 1)
    BY <1>1, <2>2
  <2>4. f[k - 1] \in Date
    BY <2>1, <2>3
  <2>5. f[k - 1].y + term \in Nat
    BY <2>4 DEF Date
  <2> QED
    BY <1>5, <2>2, <2>4, <2>5, InYearIs
<1>7. f \in [0..Horizon -> Date]
  BY <1>3, <1>6
<1> QED
  BY <1>4, <1>5, <1>7 DEF f

CarriedDays(anchor, term) == {Carried(anchor, term)[k] : k \in 0..Horizon}

LEMMA CarriedDaysAre ==
    ASSUME NEW a \in Date, NEW term \in Nat
    PROVE  /\ CarriedDays(a, term) \subseteq LooseDate
           /\ \A t : NextAnchorDatePlusTerm(a, term, t)
                       = First({x \in CarriedDays(a, term) : Reached(x, t)})
BY CarriedIs, DateIsLoose DEF CarriedDays

LEMMA NothingLeft ==
    ASSUME NEW n \in Nat, NEW term \in Nat \ {0}, n % term = 0
    PROVE  \E k \in 0..n : n = k * term
OBVIOUS

\* Whole terms after a year, said with a remainder.
LEMMA WholeTerms ==
    ASSUME NEW year \in Nat, NEW y \in Nat, NEW term \in Nat, term > 0, y < year + Horizon
    PROVE  (\E k \in 0..Horizon : y = year + k * term) <=> y >= year /\ (y - year) % term = 0
<1>1. Horizon \in Nat
  BY WalkAssumption
<1>2. ASSUME NEW k \in 0..Horizon, y = year + k * term
      PROVE  y >= year /\ (y - year) % term = 0
  <2>1. k \in Nat /\ k * term \in Nat /\ y - year = k * term
    BY <1>1, <1>2
  <2>2. (k * term) % term = 0
    BY <2>1
  <2> QED
    BY <1>2, <2>1, <2>2
<1>3. ASSUME y >= year, (y - year) % term = 0
      PROVE  \E k \in 0..Horizon : y = year + k * term
  <2>1. PICK n \in Nat : n = y - year /\ n <= Horizon /\ n % term = 0
    BY <1>1, <1>3
  <2>2. PICK k \in 0..n : n = k * term
    <3>1. term \in Nat \ {0}
      OBVIOUS
    <3> QED
      BY <2>1, <3>1, NothingLeft
  <2>3. k \in 0..Horizon /\ y = year + k * term
    BY <1>1, <2>1, <2>2
  <2> QED
    BY <2>3
<1> QED
  BY <1>2, <1>3

\* A loop over whole terms gives the first of its dates that t has not passed.
LEMMA NextTermIs ==
    ASSUME NEW year \in Nat, NEW m \in 0..12, NEW d \in 0..31, NEW term \in Nat, term > 0,
           NEW t \in Date, t.y < year + Horizon
    PROVE  Earliest(TermDays(year, m, d, term), t, NextAnchorYearTerm(year, m, d, term, t))
<1>1. Horizon \in Nat /\ t \in LooseDate /\ t.y \in Nat
  BY WalkAssumption, DateIsLoose DEF Date
<1>2. Horizon * term >= Horizon /\ Horizon * term \in Nat
  BY <1>1
<1>3. PICK y \in Nat : y = year + Horizon * term /\ t.y < y
  BY <1>1, <1>2
<1>4. At(y, m, d) \in TermDays(year, m, d, term) /\ Reached(At(y, m, d), t)
  <2>1. Horizon \in 0..Horizon
    BY <1>1
  <2>2. At(y, m, d) \in LooseDate /\ At(y, m, d).y = y
    BY AtIs
  <2>3. ~ (y <= t.y)
    BY <1>1, <1>3
  <2> QED
    BY <1>1, <1>3, <2>1, <2>2, <2>3, YearsInOrder DEF TermDays, Reached
<1>5. TermDays(year, m, d, term) \subseteq LooseDate
  BY TermDaysAre
<1> QED
  BY <1>1, <1>4, <1>5, FirstIsEarliest DEF NextAnchorYearTerm, TermDays

LEMMA InTermDays ==
    ASSUME NEW year \in Nat, NEW m \in 0..12, NEW d \in 0..31, NEW term \in Nat, term > 0,
           NEW t \in Date, t.y < year + Horizon
    PROVE  t \in TermDays(year, m, d, term) <=> t.m = m /\ t.d = d /\ EveryTerm(year, t, term)
<1>1. t.y \in Nat
  BY DEF Date
<1>2. (\E k \in 0..Horizon : t.y = year + k * term) <=> t.y >= year /\ (t.y - year) % term = 0
  BY <1>1, WholeTerms
<1>3. \A y : t = At(y, m, d) <=> t.y = y /\ t.m = m /\ t.d = d
  BY DEF At, Date
<1>4. t \in TermDays(year, m, d, term) <=> \E k \in 0..Horizon : t = At(year + k * term, m, d)
  BY DEF TermDays
<1> QED
  BY <1>2, <1>3, <1>4 DEF EveryTerm

\* Carrying an anchor that is not a February 29 keeps its day.
LEMMA CarriedKeepsTheDay ==
    ASSUME NEW a \in Date, InCalendar(a), ~ (a.m = 2 /\ a.d = 29), NEW term \in Nat
    PROVE  CarriedDays(a, term) = TermDays(a.y, a.m, a.d, term)
<1>1. Horizon \in Nat /\ a.y \in Nat /\ a.m \in 1..12 /\ a.d \in 1..31
  BY WalkAssumption DEF Date
<1>2. ASSUME NEW y \in Nat, NEW yy \in Nat PROVE InYear(At(y, a.m, a.d), yy) = At(yy, a.m, a.d)
  <2>1. a.d <= MonthLastDay(yy, a.m)
    BY <1>1 DEF InCalendar, MonthLastDay
  <2>2. ~ (a.d > MonthLastDay(yy, a.m))
    BY <1>1, <2>1, MonthLastDayIs
  <2> QED
    BY <2>2 DEF InYear, At
<1> DEFINE f == Carried(a, term)
           Bad == {k \in 0..Horizon : f[k] # At(a.y + k * term, a.m, a.d)}
<1>3. f[0] = a /\ \A k \in 1..Horizon : f[k] = InYear(f[k - 1], f[k - 1].y + term)
  BY CarriedIs
<1> HIDE DEF f
<1>4. ASSUME Bad # {} PROVE FALSE
  <2>1. PICK k \in Bad : \A b \in Bad : k <= b
    <3>1. Bad \subseteq Nat
      BY <1>1
    <3> HIDE DEF Bad
    <3> QED
      BY <1>4, <3>1, LeastNumber
  <2>2. CASE k = 0
    <3>1. a = At(a.y + 0 * term, a.m, a.d)
      BY <1>1 DEF At, Date
    <3> QED
      BY <1>3, <2>2, <3>1
  <2>3. CASE k # 0
    <3>1. k \in 1..Horizon /\ k - 1 \in 0..Horizon /\ ~ (k <= k - 1)
      BY <1>1, <2>3
    <3>2. f[k - 1] = At(a.y + (k - 1) * term, a.m, a.d)
      BY <2>1, <3>1
    <3>3. PICK y \in Nat, yy \in Nat :
            y = a.y + (k - 1) * term /\ yy = y + term /\ yy = a.y + k * term
      <4>1. k - 1 \in Nat /\ (k - 1) * term \in Nat
        BY <3>1
      <4>2. (k - 1) * term + term = k * term
        BY <3>1
      <4> QED
        BY <1>1, <4>1, <4>2
    <3>4. f[k] = InYear(At(y, a.m, a.d), yy)
      BY <1>3, <3>1, <3>2, <3>3 DEF At
    <3> QED
      BY <1>2, <3>3, <3>4
  <2> QED
    BY <2>2, <2>3
<1>5. \A k \in 0..Horizon : f[k] = At(a.y + k * term, a.m, a.d)
  BY <1>4
<1> QED
  BY <1>5 DEF CarriedDays, TermDays, f

-----------------------------------------------------------------------------
(* The rules.                                                              *)

LEMMA RuleFields ==
    ASSUME NEW r \in RuleType
    PROVE  /\ r.m \in 0..12 /\ r.d \in 0..31 /\ r.parity \in 0..1 /\ r.term \in Nat
           /\ r.anchor \in Date /\ r.anchor.y \in Nat
           /\ r.kind \in {"birth_month", "birth_month_parity", "fixed_day_parity",
                          "anchor_year", "anchor_date", "certificate_date",
                          "chosen_term", "record", "cohort", "incomplete"}
BY DEF RuleType, Date

LEMMA FirstYearIs ==
    ASSUME NEW cert \in Date
    PROVE  FirstFollowingYear(cert, 6, 30) \in Nat /\ cert.y <= FirstFollowingYear(cert, 6, 30)
<1>1. cert.y \in Nat /\ cert.y + 1 \in Nat
  BY DEF Date
<1> QED
  BY <1>1 DEF FirstFollowingYear

\* The year of the first renewal of a certificate.
FirstRenewal(cert) == FirstFollowingYear(cert, 6, 30) + 2

LEMMA FirstRenewalIs ==
    ASSUME NEW cert \in Date
    PROVE  FirstRenewal(cert) \in Nat /\ cert.y < FirstRenewal(cert)
<1>1. cert.y \in Nat
  BY DEF Date
<1> QED
  BY <1>1, FirstYearIs DEF FirstRenewal

LEMMA KindDecides ==
    ASSUME NEW r \in RuleType, NEW t
    PROVE  LET due == ComputeSubscriberDeadline(r, t)
           IN  /\ r.kind = "birth_month" => due = NextAnnualMonthEnd(t, r.m)
               /\ r.kind = "birth_month_parity" =>
                    due = NextBirthMonthParityDate(t, r.m, r.parity)
               /\ r.kind = "fixed_day_parity" =>
                    due = NextFixedDateParity(t, r.m, r.d, r.parity)
               /\ r.kind = "anchor_year" =>
                    due = NextAnchorYearTerm(r.anchor.y, r.m, r.d, r.term, t)
               /\ r.kind = "anchor_date" \/ (r.kind = "record" /\ r.term # 0) =>
                    due = NextAnchorDatePlusTerm(r.anchor, r.term, t)
               /\ r.kind = "certificate_date" =>
                    due = NextAnchorYearTerm(FirstRenewal(r.anchor), 12, 31, 2, t)
               /\ r.kind = "chosen_term" =>
                    LET end == At(r.anchor.y + r.term, 6, 30)
                    IN  due = IF Reached(end, t) THEN end ELSE None
               /\ r.kind = "cohort" \/ (r.kind = "record" /\ r.term = 0) => due = r.anchor
               /\ r.kind = "incomplete" => due = None
<1>1. \A y \in Nat : y + (3 - 1) = y + 2
  OBVIOUS
<1>2. FirstFollowingYear(r.anchor, 6, 30) \in Nat
  BY RuleFields, FirstYearIs
<1> QED
  BY <1>1, <1>2 DEF ComputeSubscriberDeadline, RollForward, NextCertificateDateInitialTerm,
     FirstRenewal

\* A deadline stays the next one until it has passed, whatever the rule.
LEMMA DeadlineStays ==
    ASSUME NEW r \in RuleType, NEW s \in Date, NEW t \in Date, ~ Before(t, s),
           NEW x, x = ComputeSubscriberDeadline(r, s), x # None, ~ Before(x, t)
    PROVE  ComputeSubscriberDeadline(r, t) = x
<1> r.m \in 0..12 /\ r.d \in 0..31 /\ r.parity \in 0..1 /\ r.term \in Nat
  BY RuleFields
<1> r.anchor \in Date /\ r.anchor.y \in Nat
  BY RuleFields
<1>1. s \in LooseDate /\ t \in LooseDate
  BY DateIsLoose
<1>0. ASSUME NEW D, D \subseteq LooseDate,
             \A u \in Date : Earliest(D, u, ComputeSubscriberDeadline(r, u))
      PROVE  ComputeSubscriberDeadline(r, t) = x
  <2>1. Earliest(D, s, x) /\ Earliest(D, t, ComputeSubscriberDeadline(r, t))
    BY <1>0
  <2>2. Earliest(D, t, x)
    BY <1>0, <1>1, <2>1, EarliestStays
  <2> QED
    BY <1>0, <2>1, <2>2, EarliestIsOne
<1>2. CASE r.kind = "birth_month"
  <2> DEFINE D == MonthEnds(r.m)
  <2>1. D \subseteq LooseDate /\ \A u \in Date : Earliest(D, u, ComputeSubscriberDeadline(r, u))
    BY <1>2, KindDecides, NextMonthEndIs
  <2> HIDE DEF D
  <2> QED
    BY <1>0, <2>1
<1>3. CASE r.kind = "birth_month_parity"
  <2> DEFINE D == ParityMonthEnds(r.m, r.parity)
  <2>1. D \subseteq LooseDate /\ \A u \in Date : Earliest(D, u, ComputeSubscriberDeadline(r, u))
    BY <1>3, KindDecides, NextParityMonthEndIs
  <2> HIDE DEF D
  <2> QED
    BY <1>0, <2>1
<1>4. CASE r.kind = "fixed_day_parity"
  <2> DEFINE D == ParityDays(r.m, r.d, r.parity)
  <2>1. D \subseteq LooseDate /\ \A u \in Date : Earliest(D, u, ComputeSubscriberDeadline(r, u))
    BY <1>4, KindDecides, NextParityDayIs
  <2> HIDE DEF D
  <2> QED
    BY <1>0, <2>1
<1>5. ASSUME NEW year \in Nat, NEW m \in 0..12, NEW d \in 0..31, NEW term \in Nat,
             x = NextAnchorYearTerm(year, m, d, term, s)
      PROVE  x = NextAnchorYearTerm(year, m, d, term, t)
  <2> DEFINE D == TermDays(year, m, d, term)
  <2>1. D \subseteq LooseDate
    BY TermDaysAre
  <2>2. \A u : NextAnchorYearTerm(year, m, d, term, u) = First({a \in D : Reached(a, u)})
    BY DEF NextAnchorYearTerm, TermDays
  <2> HIDE DEF D
  <2>3. ~ Before(First({a \in D : Reached(a, s)}), t)
    BY <1>5, <2>2
  <2>4. First({a \in D : Reached(a, t)}) = First({a \in D : Reached(a, s)})
    BY <1>1, <2>1, <2>3, FirstStays
  <2>5. NextAnchorYearTerm(year, m, d, term, t) = NextAnchorYearTerm(year, m, d, term, s)
    BY <2>2, <2>4
  <2> QED
    BY <1>5, <2>5
<1>6. CASE r.kind = "anchor_year"
  BY <1>5, <1>6, KindDecides
<1>7. CASE r.kind = "certificate_date"
  <2>1. /\ FirstRenewal(r.anchor) \in Nat
        /\ \A u : ComputeSubscriberDeadline(r, u)
                    = NextAnchorYearTerm(FirstRenewal(r.anchor), 12, 31, 2, u)
    BY <1>7, KindDecides, FirstRenewalIs
  <2>2. PICK year \in Nat, m \in 0..12, d \in 0..31, term \in Nat :
            year = FirstRenewal(r.anchor) /\ m = 12 /\ d = 31 /\ term = 2
    BY <2>1
  <2>3. \A u : ComputeSubscriberDeadline(r, u) = NextAnchorYearTerm(year, m, d, term, u)
    BY <2>1, <2>2
  <2>4. x = NextAnchorYearTerm(year, m, d, term, s)
    BY <2>3
  <2>5. x = NextAnchorYearTerm(year, m, d, term, t)
    BY <1>5, <2>4
  <2> QED
    BY <2>3, <2>5
<1>8. CASE r.kind = "anchor_date" \/ (r.kind = "record" /\ r.term # 0)
  <2> DEFINE D == CarriedDays(r.anchor, r.term)
  <2>1. D \subseteq LooseDate
    BY CarriedDaysAre
  <2>2. \A u : ComputeSubscriberDeadline(r, u) = First({a \in D : Reached(a, u)})
    <3>1. \A u : ComputeSubscriberDeadline(r, u) = NextAnchorDatePlusTerm(r.anchor, r.term, u)
      BY <1>8, KindDecides
    <3>2. \A u : NextAnchorDatePlusTerm(r.anchor, r.term, u) = First({a \in D : Reached(a, u)})
      BY CarriedDaysAre
    <3> HIDE DEF D
    <3> QED
      BY <3>1, <3>2
  <2> HIDE DEF D
  <2>3. ~ Before(First({a \in D : Reached(a, s)}), t)
    BY <2>2
  <2>4. First({a \in D : Reached(a, t)}) = First({a \in D : Reached(a, s)})
    BY <1>1, <2>1, <2>3, FirstStays
  <2> QED
    BY <2>2, <2>4
<1>9. CASE r.kind = "chosen_term"
  BY <1>9, KindDecides DEF Reached
<1>10. CASE r.kind = "cohort" \/ (r.kind = "record" /\ r.term = 0)
  BY <1>10, KindDecides
<1>11. CASE r.kind = "incomplete"
  BY <1>11, KindDecides
<1> QED
  BY <1>2, <1>3, <1>4, <1>6, <1>7, <1>8, <1>9, <1>10, <1>11, RuleFields

LEMMA PeriodEndsAre ==
    ASSUME NEW cert \in Date, NEW x, x.y \in Nat
    PROVE  PeriodEnds(cert, x) = FirstFollowingYear(cert, 6, 30) .. x.y
<1> DEFINE F == FirstFollowingYear(cert, 6, 30)
<1>1. cert.y \in Nat /\ F \in Nat /\ cert.y <= F
  BY FirstYearIs DEF Date
<1>2. ASSUME NEW y \in Nat, cert.y <= y
      PROVE  Before(cert, At(y, 6, 30)) <=> F <= y
  <2>1. /\ At(y, 6, 30) \in LooseDate /\ At(y, 6, 30).y = y /\ cert \in LooseDate
        /\ At(cert.y, 6, 30) \in LooseDate
    BY <1>1, <1>2, DateIsLoose DEF At, LooseDate
  <2>2. CASE y = cert.y
    BY <1>1, <2>2 DEF FirstFollowingYear
  <2>3. CASE cert.y < y
    <3>1. Before(cert, At(y, 6, 30))
      BY <2>1, <2>3, YearsInOrder
    <3>2. F <= cert.y + 1
      BY <1>1 DEF FirstFollowingYear
    <3> QED
      BY <1>1, <2>3, <3>1, <3>2
  <2> QED
    BY <1>1, <1>2, <2>2, <2>3
<1> HIDE DEF F
<1>3. \A y : y \in cert.y .. x.y /\ Before(cert, At(y, 6, 30)) <=> y \in F .. x.y
  BY <1>1, <1>2
<1>4. PeriodEnds(cert, x) = F .. x.y
  BY <1>1, <1>3 DEF PeriodEnds
<1> QED
  BY <1>4 DEF F

\* The third period end is two years after the first.
LEMMA ThirdPeriodEnd ==
    ASSUME NEW F \in Nat, NEW z \in Nat, NEW y \in F .. z,
           NEW a \in F .. z, NEW b \in F .. z, a < b, b < y, F .. y = {a, b, y}
    PROVE  y = F + 2
<1>1. F + 2 <= y /\ F + 2 \in F .. y /\ F + 1 \in F .. y /\ F \in F .. y
  OBVIOUS
<1>2. F + 2 \in {a, b, y} /\ F + 1 \in {a, b, y} /\ F \in {a, b, y}
  BY <1>1
<1>3. a = F /\ b = F + 1
  BY <1>1, <1>2
<1> QED
  BY <1>1, <1>2, <1>3

LEMMA CertificateDays ==
    ASSUME NEW r \in RuleType, r.kind = "certificate_date", NEW t \in Date
    PROVE  LegalDay(r, t) <=> t.m = 12 /\ t.d = 31 /\ EveryTerm(FirstRenewal(r.anchor), t, 2)
<1> DEFINE F == FirstFollowingYear(r.anchor, 6, 30)
<1>1. r.anchor \in Date /\ F \in Nat /\ t.y \in Nat
  BY RuleFields, FirstYearIs DEF Date
<1>2. /\ PeriodEnds(r.anchor, t) = F .. t.y
      /\ \A y \in F .. t.y : PeriodEnds(r.anchor, At(y, 6, 30)) = F .. y
  <2>1. \A x : x.y \in Nat => PeriodEnds(r.anchor, x) = F .. x.y
    BY <1>1, PeriodEndsAre
  <2> HIDE DEF F
  <2>2. \A y \in F .. t.y : y \in Nat /\ At(y, 6, 30).y = y
    BY <1>1 DEF At
  <2> QED
    BY <1>1, <2>1, <2>2
<1>3. FirstRenewal(r.anchor) = F + 2
  BY DEF FirstRenewal
<1>4. LegalDay(r, t) <=>
        /\ t.m = 12 /\ t.d = 31
        /\ \E y \in PeriodEnds(r.anchor, t) :
             /\ \E a, b \in PeriodEnds(r.anchor, t) :
                    a < b /\ b < y /\ PeriodEnds(r.anchor, At(y, 6, 30)) = {a, b, y}
             /\ EveryTerm(y, t, 2)
  BY DEF LegalDay
<1> HIDE DEF F
<1>5. ASSUME NEW y \in F .. t.y, NEW a \in F .. t.y, NEW b \in F .. t.y,
             a < b, b < y, F .. y = {a, b, y}
      PROVE  y = F + 2
  BY <1>1, <1>5, ThirdPeriodEnd
<1>6. ASSUME EveryTerm(F + 2, t, 2)
      PROVE  /\ F + 2 \in F .. t.y /\ F + 1 \in F .. t.y /\ F \in F .. t.y
             /\ F < F + 1 /\ F + 1 < F + 2 /\ F .. (F + 2) = {F, F + 1, F + 2}
  <2>1. F + 2 <= t.y
    BY <1>1, <1>6 DEF EveryTerm
  <2>2. \A y : y \in F .. (F + 2) <=> y \in {F, F + 1, F + 2}
    BY <1>1
  <2> QED
    BY <1>1, <2>1, <2>2
<1>7. (\E y \in F .. t.y :
         /\ \E a, b \in F .. t.y : a < b /\ b < y /\ F .. y = {a, b, y}
         /\ EveryTerm(y, t, 2))
      <=> EveryTerm(F + 2, t, 2)
  <2>1. ASSUME NEW y \in F .. t.y, NEW a \in F .. t.y, NEW b \in F .. t.y,
               a < b, b < y, F .. y = {a, b, y}, EveryTerm(y, t, 2)
        PROVE  EveryTerm(F + 2, t, 2)
    <3>1. y = F + 2
      BY <1>5, <2>1
    <3> QED
      BY <2>1, <3>1
  <2>2. ASSUME EveryTerm(F + 2, t, 2)
        PROVE  \E y \in F .. t.y :
                 /\ \E a, b \in F .. t.y : a < b /\ b < y /\ F .. y = {a, b, y}
                 /\ EveryTerm(y, t, 2)
    <3>1. \E a, b \in F .. t.y : a < b /\ b < F + 2 /\ F .. (F + 2) = {a, b, F + 2}
      BY <1>6, <2>2
    <3> QED
      BY <1>6, <2>2, <3>1
  <2> QED
    BY <2>1, <2>2
<1>8. (\E y \in PeriodEnds(r.anchor, t) :
         /\ \E a, b \in PeriodEnds(r.anchor, t) :
                a < b /\ b < y /\ PeriodEnds(r.anchor, At(y, 6, 30)) = {a, b, y}
         /\ EveryTerm(y, t, 2))
      <=> \E y \in F .. t.y :
            /\ \E a, b \in F .. t.y : a < b /\ b < y /\ F .. y = {a, b, y}
            /\ EveryTerm(y, t, 2)
  BY <1>2
<1> QED
  BY <1>3, <1>4, <1>7, <1>8

\* The last day of a month, in the calendar's words.
LEMMA MonthEndsAre ==
    ASSUME NEW t \in Date, InCalendar(t), NEW m \in 0..12
    PROVE  /\ t \in MonthEnds(m) <=> t.m = m /\ Tomorrow(t).m # t.m
           /\ \A p \in 0..1 : t \in ParityMonthEnds(m, p) <=>
                                t.m = m /\ Tomorrow(t).m # t.m /\ t.y % 2 = p
<1>1. t.y \in Nat
  BY DEF Date
<1>2. \A y : t = MonthEnd(y, m) <=> t.y = y /\ t.m = m /\ t.d = MonthLastDay(y, m)
  BY DEF MonthEnd, At, Date
<1>3. Tomorrow(t).m # t.m <=> t.d = MonthLastDay(t.y, t.m)
  BY TomorrowIs
<1> QED
  BY <1>1, <1>2, <1>3 DEF MonthEnds, ParityMonthEnds

LEMMA ParityDaysAre ==
    ASSUME NEW t \in Date, NEW m \in 0..12, NEW d \in 0..31, NEW p \in 0..1
    PROVE  t \in ParityDays(m, d, p) <=> t.m = m /\ t.d = d /\ t.y % 2 = p
<1>1. t.y \in Nat
  BY DEF Date
<1>2. \A y : t = At(y, m, d) <=> t.y = y /\ t.m = m /\ t.d = d
  BY DEF At, Date
<1> QED
  BY <1>1, <1>2 DEF ParityDays

\* A day is announced as the next deadline when it is one of the rule's, and
\* only then: as long as the loops have periods left.
LEMMA DueOnItsDays ==
    ASSUME NEW r \in Rule, ~ FromLeapDay(r), NEW t \in Date, InCalendar(t), t.y <= WalkEnd.y
    PROVE  ComputeSubscriberDeadline(r, t) = t <=> LegalDay(r, t)
<1>1. /\ r \in RuleType /\ InCalendar(r.anchor)
      /\ r.kind \in {"anchor_year", "anchor_date"} => r.term > 0
  BY RuleAssumption
<1>2. r.m \in 0..12 /\ r.d \in 0..31 /\ r.parity \in 0..1 /\ r.term \in Nat
  BY <1>1, RuleFields
<1>3. r.anchor \in Date /\ r.anchor.y \in Nat /\ r.anchor.m \in 0..12 /\ r.anchor.d \in 0..31
  BY <1>1, RuleFields DEF Date
<1>4. t \in LooseDate /\ t.y \in Nat /\ None # t
  BY DateIsLoose, WalkAssumption DEF Date
<1>5. t.y < r.anchor.y + Horizon
  <2>1. Horizon \in Nat /\ WalkEnd.y \in Nat /\ WalkEnd.y < r.anchor.y + Horizon
    BY WalkAssumption DEF Date
  <2> QED
    BY <1>3, <1>4, <2>1
<1>6. ASSUME NEW D, D \subseteq LooseDate, Earliest(D, t, ComputeSubscriberDeadline(r, t)),
             t \in D <=> LegalDay(r, t)
      PROVE  ComputeSubscriberDeadline(r, t) = t <=> LegalDay(r, t)
  BY <1>4, <1>6, EarliestIsToday
<1>7. CASE r.kind = "birth_month"
  <2>1. /\ MonthEnds(r.m) \subseteq LooseDate
        /\ Earliest(MonthEnds(r.m), t, ComputeSubscriberDeadline(r, t))
    BY <1>1, <1>2, <1>7, KindDecides, NextMonthEndIs
  <2>2. t \in MonthEnds(r.m) <=> LegalDay(r, t)
    BY <1>2, <1>7, MonthEndsAre DEF LegalDay
  <2> QED
    BY <1>6, <2>1, <2>2
<1>8. CASE r.kind = "birth_month_parity"
  <2>1. /\ ParityMonthEnds(r.m, r.parity) \subseteq LooseDate
        /\ Earliest(ParityMonthEnds(r.m, r.parity), t, ComputeSubscriberDeadline(r, t))
    BY <1>1, <1>2, <1>8, KindDecides, NextParityMonthEndIs
  <2>2. t \in ParityMonthEnds(r.m, r.parity) <=> LegalDay(r, t)
    BY <1>2, <1>8, MonthEndsAre DEF LegalDay
  <2> QED
    BY <1>6, <2>1, <2>2
<1>9. CASE r.kind = "fixed_day_parity"
  <2>1. /\ ParityDays(r.m, r.d, r.parity) \subseteq LooseDate
        /\ Earliest(ParityDays(r.m, r.d, r.parity), t, ComputeSubscriberDeadline(r, t))
    BY <1>1, <1>2, <1>9, KindDecides, NextParityDayIs
  <2>2. t \in ParityDays(r.m, r.d, r.parity) <=> LegalDay(r, t)
    BY <1>2, <1>9, ParityDaysAre DEF LegalDay
  <2> QED
    BY <1>6, <2>1, <2>2
<1>10. CASE r.kind = "anchor_year"
  <2>1. /\ TermDays(r.anchor.y, r.m, r.d, r.term) \subseteq LooseDate
        /\ Earliest(TermDays(r.anchor.y, r.m, r.d, r.term), t, ComputeSubscriberDeadline(r, t))
    <3>1. Earliest(TermDays(r.anchor.y, r.m, r.d, r.term), t,
                   NextAnchorYearTerm(r.anchor.y, r.m, r.d, r.term, t))
      BY <1>1, <1>2, <1>3, <1>5, <1>10, NextTermIs
    <3>2. ComputeSubscriberDeadline(r, t) = NextAnchorYearTerm(r.anchor.y, r.m, r.d, r.term, t)
      BY <1>1, <1>10, KindDecides
    <3> QED
      BY <1>2, <1>3, <3>1, <3>2, TermDaysAre
  <2>2. t \in TermDays(r.anchor.y, r.m, r.d, r.term) <=> LegalDay(r, t)
    BY <1>1, <1>2, <1>3, <1>5, <1>10, InTermDays DEF LegalDay
  <2> QED
    BY <1>6, <2>1, <2>2
<1>11. CASE r.kind = "anchor_date" \/ (r.kind = "record" /\ r.term # 0)
  <2>1. r.term > 0 /\ ~ (r.anchor.m = 2 /\ r.anchor.d = 29)
    BY <1>1, <1>2, <1>11 DEF FromLeapDay
  <2> DEFINE D == TermDays(r.anchor.y, r.anchor.m, r.anchor.d, r.term)
  <2>2. D \subseteq LooseDate
    BY <1>2, <1>3, TermDaysAre
  <2>3. NextAnchorDatePlusTerm(r.anchor, r.term, t) = First({x \in D : Reached(x, t)})
    <3>1. CarriedDays(r.anchor, r.term) = D
      BY <1>1, <1>2, <1>3, <2>1, CarriedKeepsTheDay
    <3> HIDE DEF D
    <3> QED
      BY <1>2, <1>3, <3>1, CarriedDaysAre
  <2>4. Earliest(D, t, NextAnchorYearTerm(r.anchor.y, r.anchor.m, r.anchor.d, r.term, t))
    BY <1>2, <1>3, <1>5, <2>1, NextTermIs
  <2>5. Earliest(D, t, ComputeSubscriberDeadline(r, t))
    BY <1>1, <1>11, <2>3, <2>4, KindDecides DEF NextAnchorYearTerm, TermDays
  <2>6. t \in D <=> t.m = r.anchor.m /\ t.d = r.anchor.d /\ EveryTerm(r.anchor.y, t, r.term)
    <3>1. PICK year \in Nat, m \in 0..12, d \in 0..31, term \in Nat :
            year = r.anchor.y /\ m = r.anchor.m /\ d = r.anchor.d /\ term = r.term
      BY <1>2, <1>3
    <3>2. term > 0 /\ t.y < year + Horizon
      BY <1>5, <2>1, <3>1
    <3>3. t \in TermDays(year, m, d, term) <=> t.m = m /\ t.d = d /\ EveryTerm(year, t, term)
      BY <3>2, InTermDays
    <3> QED
      BY <3>1, <3>3
  <2>7. LegalDay(r, t) <=> Anniversary(r.anchor, t) /\ EveryTerm(r.anchor.y, t, r.term)
    BY <1>11 DEF LegalDay
  <2>8. t \in D <=> LegalDay(r, t)
    BY <2>1, <2>6, <2>7 DEF Anniversary
  <2> HIDE DEF D
  <2> QED
    BY <1>6, <2>2, <2>5, <2>8
<1>12. CASE r.kind = "certificate_date"
  <2>1. PICK year \in Nat : year = FirstRenewal(r.anchor) /\ t.y < year + Horizon
    BY <1>3, <1>4, <1>5, FirstRenewalIs, WalkAssumption
  <2> DEFINE D == TermDays(year, 12, 31, 2)
  <2>2. /\ D \subseteq LooseDate
        /\ Earliest(D, t, NextAnchorYearTerm(year, 12, 31, 2, t))
        /\ t \in D <=> t.m = 12 /\ t.d = 31 /\ EveryTerm(year, t, 2)
    <3>1. PICK m \in 0..12, d \in 0..31, term \in Nat : m = 12 /\ d = 31 /\ term = 2 /\ term > 0
      OBVIOUS
    <3>2. TermDays(year, m, d, term) \subseteq LooseDate
      BY TermDaysAre
    <3>3. Earliest(TermDays(year, m, d, term), t, NextAnchorYearTerm(year, m, d, term, t))
      BY <2>1, <3>1, NextTermIs
    <3>4. term > 0 /\ t.y < year + Horizon
      BY <2>1, <3>1
    <3>5. t \in TermDays(year, m, d, term) <=> t.m = m /\ t.d = d /\ EveryTerm(year, t, term)
      BY <3>4, InTermDays
    <3> QED
      BY <3>1, <3>2, <3>3, <3>5
  <2> HIDE DEF D
  <2>3. ComputeSubscriberDeadline(r, t) = NextAnchorYearTerm(year, 12, 31, 2, t)
    BY <1>1, <1>12, <2>1, KindDecides
  <2>4. LegalDay(r, t) <=> t \in D
    BY <1>1, <1>12, <2>1, <2>2, CertificateDays
  <2> QED
    BY <1>6, <2>2, <2>3, <2>4
<1>13. CASE r.kind = "chosen_term"
  <2> DEFINE end == At(r.anchor.y + r.term, 6, 30)
  <2>1. ComputeSubscriberDeadline(r, t) = IF Reached(end, t) THEN end ELSE None
    BY <1>1, <1>13, KindDecides
  <2>2. LegalDay(r, t) <=> t = end
    BY <1>13 DEF LegalDay
  <2>3. Reached(t, t)
    BY <1>4, BeforeIsOrder DEF Reached
  <2> HIDE DEF end
  <2> QED
    BY <1>4, <2>1, <2>2, <2>3
<1>14. CASE r.kind = "cohort" \/ (r.kind = "record" /\ r.term = 0)
  BY <1>1, <1>14, KindDecides DEF LegalDay
<1>15. CASE r.kind = "incomplete"
  BY <1>1, <1>4, <1>15, KindDecides DEF LegalDay
<1> QED
  BY <1>1, <1>7, <1>8, <1>9, <1>10, <1>11, <1>12, <1>13, <1>14, <1>15, RuleFields

-----------------------------------------------------------------------------
(* The walk.                                                               *)

\* What is shown was computed today or on an earlier day.
WalkInv ==
    /\ rule \in Rule /\ today \in Date /\ InCalendar(today) /\ today.y <= WalkEnd.y
    /\ next = ComputeSubscriberDeadline(rule, today)
    /\ \E s \in Date : ~ Before(today, s) /\ shown = ComputeSubscriberDeadline(rule, s)

LEMMA NotBeforeItself == \A t \in Date : ~ Before(t, t)
BY DateIsLoose, BeforeIsOrder

LEMMA InitWalk == WalkInit => WalkInv
BY WalkAssumption, NotBeforeItself DEF WalkInit, WalkInv

LEMMA NextWalk == WalkInv /\ [WalkNext]_walkVars => WalkInv'
<1> SUFFICES ASSUME WalkInv, [WalkNext]_walkVars PROVE WalkInv'
  OBVIOUS
<1>1. PICK s \in Date : ~ Before(today, s) /\ shown = ComputeSubscriberDeadline(rule, s)
  BY DEF WalkInv
<1>2. CASE Wake
  <2>1. /\ today \in Date /\ InCalendar(today) /\ Before(today, WalkEnd) /\ WalkEnd \in Date
        /\ today' = Tomorrow(today) /\ rule' = rule /\ shown' = shown
        /\ next' = ComputeSubscriberDeadline(rule, today')
    BY <1>2, WalkAssumption DEF Wake, WalkInv
  <2>2. /\ today' \in Date /\ InCalendar(today') /\ Before(today, today')
        /\ today'.y <= WalkEnd.y
    BY <2>1, TomorrowIs
  <2>3. ~ Before(today', s)
    <3>1. ~ Before(today', today)
      BY <2>1, <2>2, DateIsLoose, BeforeIsOrder
    <3> QED
      BY <1>1, <2>1, <2>2, <3>1, DateIsLoose, BeforeIsTransitive
  <2>4. rule' \in Rule /\ InCalendar(today)'
    BY <2>1, <2>2 DEF WalkInv, InCalendar
  <2>5. \E u \in Date : ~ Before(today', u) /\ shown' = ComputeSubscriberDeadline(rule', u)
    BY <1>1, <2>1, <2>3
  <2> QED
    BY <2>1, <2>2, <2>4, <2>5 DEF WalkInv
<1>3. CASE Show
  <2>1. /\ shown' = ComputeSubscriberDeadline(rule, today)
        /\ UNCHANGED <<rule, today, next>> /\ today \in Date /\ ~ Before(today, today)
    BY <1>3, NotBeforeItself DEF Show, WalkInv
  <2> QED
    BY <2>1 DEF WalkInv, InCalendar
<1>4. CASE UNCHANGED walkVars
  BY <1>4 DEF walkVars, WalkInv, InCalendar
<1> QED
  BY <1>2, <1>3, <1>4 DEF WalkNext

\* On every day that is a deadline of the rule the loops say so, and on no
\* other day: for any rules, any days and any walk.
THEOREM AnnouncedOnTheDay == Walk => []OnTheDay
<1>1. WalkInv => OnTheDay
  BY DueOnItsDays DEF WalkInv, OnTheDay
<1> QED
  BY <1>1, InitWalk, NextWalk, PTL DEF Walk

\* A date that a page or an email shows is the next deadline until it has
\* passed, on whatever day it was computed: for any rules, a February 29 too.
THEOREM ShownDateStays == Walk => []ShownStaysRight
<1>1. WalkInv => ShownStaysRight
  <2> SUFFICES ASSUME WalkInv, shown # None, ~ Before(shown, today) PROVE next = shown
    BY DEF ShownStaysRight
  <2>1. PICK s \in Date : ~ Before(today, s) /\ shown = ComputeSubscriberDeadline(rule, s)
    BY DEF WalkInv
  <2>2. rule \in RuleType /\ today \in Date /\ next = ComputeSubscriberDeadline(rule, today)
    BY RuleAssumption DEF WalkInv
  <2> QED
    BY <2>1, <2>2, DeadlineStays
<1> QED
  BY <1>1, InitWalk, NextWalk, PTL DEF Walk

=============================================================================
