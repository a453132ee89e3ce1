-------------------------- MODULE AutoExtendProofs --------------------------
(***************************************************************************)
(* Proofs about AutoExtend, for every set of records and every ceiling,    *)
(* and for any number of changes of the sources, runs and approvals.       *)
(***************************************************************************)
EXTENDS AutoExtend, TLAPS

USE AutoExtendAssumption

-----------------------------------------------------------------------------
(* Types.                                                                  *)

LEMMA InitTyped == Init => TypeOK
BY DEF Init, TypeOK, NotRunning, Page, Entry, RunType

LEMMA GoodTyped ==
    ASSUME TypeOK, NEW p, NEW d \in 0 .. LastDay
    PROVE  WithToday(good, p, d) \in [Rec -> SUBSET (0 .. LastDay)]
BY DEF TypeOK, WithToday

LEMMA IdleTyped == NotRunning \in RunType /\ NotRunning.at # "evaluate"
BY DEF NotRunning, RunType

LEMMA NextTyped == TypeOK /\ [Next]_vars => TypeOK'
<1> SUFFICES ASSUME TypeOK, [Next]_vars PROVE TypeOK'
  OBVIOUS
<1>1. ASSUME NEW r \in Rec, NEW p \in Page, SourceChanges(r, p) PROVE TypeOK'
  <2>1. good' \in [Rec -> SUBSET (0 .. LastDay)]
    BY <1>1, GoodTyped DEF SourceChanges, TypeOK
  <2>2. changes' \in 0 .. MaxChanges /\ page' \in [Rec -> Page]
    BY <1>1 DEF SourceChanges, TypeOK
  <2>3. UNCHANGED <<day, cite, rec, run, report, granted, token>>
    BY <1>1 DEF SourceChanges
  <2> QED
    BY <2>1, <2>2, <2>3 DEF TypeOK
<1>2. ASSUME Tick PROVE TypeOK'
  <2>1. day + 1 \in 0 .. LastDay
    BY <1>2 DEF Tick, TypeOK
  <2>2. good' \in [Rec -> SUBSET (0 .. LastDay)]
    BY <1>2, <2>1, GoodTyped DEF Tick
  <2> QED
    BY <1>2, <2>1, <2>2 DEF Tick, TypeOK
<1>3. ASSUME NEW r \in Rec, NEW read \in BOOLEAN, ManualPass(r, read) PROVE TypeOK'
  <2>1. /\ [manual |-> day, base |-> page[r], public |-> day, method |-> "manual"] \in Entry
        /\ [rec[r] EXCEPT !.base = None] \in Entry
    <3>1. day \in 0 .. LastDay /\ page[r] \in Page /\ rec[r] \in Entry
      BY DEF TypeOK
    <3> QED
      BY <3>1 DEF Entry
  <2>2. rec' \in [Rec -> Entry]
    BY <1>3, <2>1 DEF ManualPass, TypeOK
  <2> QED
    BY <1>3, <2>2 DEF ManualPass, TypeOK
<1>4. ASSUME NEW candidates \in SUBSET Rec, StartRun(candidates) PROVE TypeOK'
  <2> DEFINE owned == {r \in candidates : InScope(r)}
  <2>1. run' = [at |-> "evaluate", today |-> day, found |-> {}, todo |-> owned,
                seen |-> [r \in owned |-> rec[r]]]
    BY <1>4 DEF StartRun
  <2>2. owned \in SUBSET Rec /\ [r \in owned |-> rec[r]] \in [owned -> Entry]
    BY DEF TypeOK
  <2> HIDE DEF owned
  <2>3. run' \in RunType /\ DOMAIN run'.seen = run'.todo
    BY <2>1, <2>2 DEF TypeOK, RunType
  <2> QED
    BY <1>4, <2>3 DEF StartRun, TypeOK
<1>5. ASSUME NEW r \in Rec, Evaluate(r) PROVE TypeOK'
  <2> DEFINE left == run.todo \ {r}
             more == IF Eligible(r, run.seen[r], page[r], run.today)
                     THEN run.found \union {[rec |-> r, old |-> run.seen[r].public,
                                             on |-> run.today]}
                     ELSE run.found
             rest == [o \in left |-> run.seen[o]]
  <2>1. /\ run.at = "evaluate" /\ r \in run.todo
        /\ run' = [run EXCEPT !.todo = left, !.seen = rest, !.found = more]
    BY <1>5 DEF Evaluate, RunType, TypeOK
  <2>2. /\ run \in [at : {"evaluate"}, today : 0 .. LastDay, found : SUBSET Proposal,
                    todo : SUBSET Rec, seen : UNION {[S -> Entry] : S \in SUBSET Rec}]
        /\ run.seen \in [run.todo -> Entry]
    BY <2>1 DEF TypeOK, RunType
  <2>3. left \in SUBSET Rec /\ rest \in [left -> Entry]
    BY <2>2
  <2>4. more \in SUBSET Proposal
    BY <2>1, <2>2 DEF Proposal, Entry
  <2> HIDE DEF left, more, rest
  <2>5. run' \in RunType /\ DOMAIN run'.seen = run'.todo
    <3>0. rest \in UNION {[S -> Entry] : S \in SUBSET Rec}
      BY <2>3
    <3>1. run' \in [at : {"evaluate"}, today : 0 .. LastDay, found : SUBSET Proposal,
                    todo : SUBSET Rec, seen : UNION {[S -> Entry] : S \in SUBSET Rec}]
      BY <2>1, <2>2, <2>3, <2>4, <3>0
    <3>2. run'.seen = rest /\ run'.todo = left
      BY <2>1, <2>2
    <3> QED
      BY <2>3, <3>1, <3>2 DEF RunType
  <2> QED
    BY <1>5, <2>5 DEF Evaluate, TypeOK
<1>6. ASSUME NEW r \in Rec, Apply(r) PROVE TypeOK'
  <2>1. /\ run \in [at : {"apply"}, today : 0 .. LastDay, found : SUBSET Proposal,
                    todo : SUBSET Rec, tty : BOOLEAN, spends : BOOLEAN]
        /\ run' = [run EXCEPT !.todo = @ \ {r}]
    BY <1>6 DEF Apply, TypeOK, RunType
  <2>2. run' \in RunType /\ run'.at # "evaluate"
    BY <2>1 DEF RunType
  <2>3. rec' \in [Rec -> Entry]
    <3>1. rec' = [rec EXCEPT ![r] = [rec[r] EXCEPT !.public = run.today, !.method = "auto"]]
      BY <1>6 DEF Apply, TypeOK
    <3>2. [rec[r] EXCEPT !.public = run.today, !.method = "auto"] \in Entry
      <4>1. rec[r] \in Entry
        BY DEF TypeOK
      <4>2. run.today \in 0 .. LastDay
        BY <2>1
      <4> QED
        BY <4>1, <4>2 DEF Entry
    <3> QED
      BY <3>1, <3>2 DEF TypeOK
  <2> QED
    BY <1>6, <2>2, <2>3 DEF Apply, TypeOK
<1>7. ASSUME NEW tty \in BOOLEAN, NEW env, Refuse(tty, env) PROVE TypeOK'
  <2>1. run.at = "evaluate" /\ report' = run.found /\ run' = NotRunning
    BY <1>7 DEF Refuse, Judged, WriteReport
  <2>2. report' \in SUBSET Proposal
    BY <2>1 DEF TypeOK, RunType
  <2>3. token' \in granted' \union {None}
    BY <1>7 DEF Refuse, TypeOK
  <2> QED
    BY <1>7, <2>1, <2>2, <2>3, IdleTyped DEF Refuse, TypeOK
<1>8. ASSUME NEW tty \in BOOLEAN, NEW env, Approve(tty, env) PROVE TypeOK'
  <2>1. run.at = "evaluate"
    BY <1>8 DEF Approve, Judged
  <2>2. run.found \in SUBSET Proposal /\ run.today \in 0 .. LastDay
    BY <2>1 DEF TypeOK, RunType
  <2>3. {f.rec : f \in run.found} \in SUBSET Rec
    BY <2>2 DEF Proposal
  <2>4. run' = [at |-> "apply", found |-> run.found, today |-> run.today, tty |-> tty,
                spends |-> ~TokenMatches(env, run.found),
                todo |-> {f.rec : f \in run.found}]
    BY <1>8 DEF Approve
  <2>5. TokenMatches(env, run.found) \in BOOLEAN
    BY DEF TokenMatches
  <2>6. run' \in RunType /\ run'.at # "evaluate"
    BY <2>2, <2>3, <2>4, <2>5 DEF RunType
  <2> QED
    BY <1>8, <2>6 DEF Approve, TypeOK
<1>9. ASSUME ReportOnly PROVE TypeOK'
  <2>1. run.at = "evaluate" /\ report' = run.found /\ run' = NotRunning
    BY <1>9 DEF ReportOnly, Judged, WriteReport
  <2>2. report' \in SUBSET Proposal
    BY <2>1 DEF TypeOK, RunType
  <2> QED
    BY <1>9, <2>1, <2>2, IdleTyped DEF ReportOnly, TypeOK
<1>10. ASSUME Finish PROVE TypeOK'
  <2>1. run.at = "apply" /\ report' = run.found /\ run' = NotRunning
    BY <1>10 DEF Finish, WriteReport
  <2>2. report' \in SUBSET Proposal
    BY <2>1 DEF TypeOK, RunType
  <2> QED
    BY <1>10, <2>1, <2>2, IdleTyped DEF Finish, TypeOK
<1>11. CASE Killed
  BY <1>11, IdleTyped DEF Killed, TypeOK
<1>12. CASE GrantToken
  BY <1>12 DEF GrantToken, TypeOK
<1>13. CASE UNCHANGED vars
  BY <1>13 DEF vars, TypeOK
<1> QED
  BY <1>1, <1>2, <1>3, <1>4, <1>5, <1>6, <1>7, <1>8, <1>9, <1>10, <1>11, <1>12, <1>13 DEF Next

\* Every reachable state of the datasets, the sources, the run and the
\* approvals is well typed (scripts/citation_auto_extend_check.py, main).
THEOREM DatesTypeCorrect == Spec => []TypeOK
BY InitTyped, NextTyped, PTL DEF Spec

-----------------------------------------------------------------------------
(* The ceiling.                                                            *)

\* A person never read a source later than today, and runs end today or on
\* the day they began plus one.
InTime ==
    /\ \A r \in Rec : rec[r].manual # None => rec[r].manual <= day
    /\ run.at # "idle" => day \in {run.today, run.today + 1}

\* What a person read since a run looked only makes a record younger.
SeenIsOld ==
    run.at = "evaluate" => \A r \in run.todo :
        run.seen[r].manual # None =>
            rec[r].manual # None /\ run.seen[r].manual <= rec[r].manual

\* A proposal is made for the run's day, within the ceiling.
FoundInCeiling ==
    run.at # "idle" => \A f \in run.found :
        /\ f.on = run.today
        /\ rec[f.rec].manual # None /\ f.on - rec[f.rec].manual <= Ceiling

\* What a run applies is approved as it stands, by someone at a terminal.
AppliesApproved ==
    run.at = "apply" =>
        /\ run.tty /\ run.found \in granted
        /\ run.todo \subseteq {f.rec : f \in run.found}

CeilingInv == TypeOK /\ InTime /\ SeenIsOld /\ FoundInCeiling /\ AppliesApproved /\ AutoWithinCeiling

LEMMA InitCeiling == Init => CeilingInv
BY InitTyped DEF Init, NotRunning, CeilingInv, InTime, SeenIsOld, FoundInCeiling,
                 AppliesApproved, AutoWithinCeiling

\* A step that leaves the datasets, the run, the approvals and the day alone.
LEMMA ElsewhereCeiling ==
    ASSUME CeilingInv, TypeOK', UNCHANGED <<rec, run, day>>, granted \subseteq granted'
    PROVE  CeilingInv'
BY DEF CeilingInv, InTime, SeenIsOld, FoundInCeiling, AppliesApproved, AutoWithinCeiling

\* A run that ends.
LEMMA EndCeiling ==
    ASSUME CeilingInv, TypeOK', UNCHANGED <<rec, day, granted>>, run' = NotRunning
    PROVE  CeilingInv'
BY DEF CeilingInv, NotRunning, InTime, SeenIsOld, FoundInCeiling, AppliesApproved,
       AutoWithinCeiling

LEMMA NextCeiling == CeilingInv /\ [Next]_vars => CeilingInv'
<1> SUFFICES ASSUME CeilingInv, [Next]_vars PROVE CeilingInv'
  OBVIOUS
<1>now. TypeOK
  BY DEF CeilingInv
<1>0. TypeOK /\ TypeOK'
  BY NextTyped DEF CeilingInv
<1>1. ASSUME NEW r \in Rec, NEW p \in Page, SourceChanges(r, p) PROVE CeilingInv'
  BY <1>0, <1>1, ElsewhereCeiling DEF SourceChanges
<1>2. ASSUME Tick PROVE CeilingInv'
  <2>1. UNCHANGED <<rec, run, granted>> /\ day' = day + 1 /\ day \in Nat
    BY <1>0, <1>2 DEF Tick, TypeOK
  <2>2. InTime'
    <3>1. run.at # "idle" => run.today = day
      BY <1>2 DEF Tick
    <3>2. \A r \in Rec : rec[r].manual # None => rec[r].manual <= day /\ rec[r].manual \in Nat
      BY <1>0 DEF CeilingInv, InTime, TypeOK, Entry
    <3> QED
      BY <2>1, <3>1, <3>2 DEF InTime
  <2> QED
    BY <1>0, <2>1, <2>2 DEF CeilingInv, SeenIsOld, FoundInCeiling, AppliesApproved,
                            AutoWithinCeiling
<1>3. ASSUME NEW r \in Rec, NEW read \in BOOLEAN, ManualPass(r, read) PROVE CeilingInv'
  <2> DEFINE entry == rec'[r]
  <2>1. /\ UNCHANGED <<run, day, granted>>
        /\ \A o \in Rec \ {r} : rec'[o] = rec[o]
    BY <1>0, <1>3 DEF ManualPass, TypeOK
  <2>2. \/ entry.manual = day /\ entry.method = "manual"
        \/ entry.manual = rec[r].manual /\ entry.method = rec[r].method
           /\ entry.public = rec[r].public
    BY <1>0, <1>3 DEF ManualPass, TypeOK, Entry
  <2>3. day \in Nat /\ day # None
    BY <1>0 DEF TypeOK
  <2>4. \A o \in Rec : rec[o].manual # None =>
           /\ rec[o].manual \in Nat /\ rec[o].manual <= day
           /\ rec'[o].manual # None /\ rec'[o].manual \in Nat
           /\ rec[o].manual <= rec'[o].manual
    BY <1>0, <2>1, <2>2, <2>3 DEF CeilingInv, InTime, TypeOK, Entry
  <2>5. InTime'
    BY <2>1, <2>2, <2>3 DEF CeilingInv, InTime
  <2>6. SeenIsOld'
    <3> SUFFICES ASSUME run.at = "evaluate", NEW o \in run.todo, run.seen[o].manual # None
                 PROVE  rec'[o].manual # None /\ run.seen[o].manual <= rec'[o].manual
      BY <2>1 DEF SeenIsOld
    <3>1. o \in Rec /\ run.seen[o] \in Entry
      BY <1>0 DEF TypeOK, RunType
    <3>2. run.seen[o].manual \in Nat
      BY <3>1 DEF Entry
    <3>3. rec[o].manual # None /\ run.seen[o].manual <= rec[o].manual
      BY DEF CeilingInv, SeenIsOld
    <3> QED
      BY <2>4, <3>1, <3>2, <3>3
  <2>7. FoundInCeiling'
    <3> SUFFICES ASSUME run.at # "idle", NEW f \in run.found
                 PROVE  /\ f.on = run.today
                        /\ rec'[f.rec].manual # None /\ f.on - rec'[f.rec].manual <= Ceiling
      BY <2>1 DEF FoundInCeiling
    <3>1. f \in Proposal
      BY <1>0 DEF TypeOK, RunType
    <3>2. f.rec \in Rec /\ f.on \in Nat
      BY <3>1 DEF Proposal
    <3>3. /\ f.on = run.today
          /\ rec[f.rec].manual # None /\ f.on - rec[f.rec].manual <= Ceiling
      BY DEF CeilingInv, FoundInCeiling
    <3> QED
      BY <2>4, <3>2, <3>3
  <2>8. AutoWithinCeiling'
    BY <2>1, <2>2 DEF CeilingInv, AutoWithinCeiling
  <2>9. AppliesApproved'
    BY <2>1 DEF CeilingInv, AppliesApproved
  <2> QED
    BY <1>0, <2>5, <2>6, <2>7, <2>8, <2>9 DEF CeilingInv
<1>4. ASSUME NEW candidates \in SUBSET Rec, StartRun(candidates) PROVE CeilingInv'
  <2> DEFINE owned == {r \in candidates : InScope(r)}
  <2>1. /\ run' = [at |-> "evaluate", today |-> day, found |-> {}, todo |-> owned,
                   seen |-> [r \in owned |-> rec[r]]]
        /\ UNCHANGED <<rec, day, granted>>
    BY <1>4 DEF StartRun
  <2>2. owned \subseteq Rec
    OBVIOUS
  <2> HIDE DEF owned
  <2>3. \A r \in Rec : rec[r].manual # None => rec[r].manual <= rec[r].manual
    BY <1>0 DEF TypeOK, Entry
  <2>4. InTime' /\ FoundInCeiling' /\ AppliesApproved' /\ AutoWithinCeiling'
    BY <1>0, <2>1 DEF CeilingInv, InTime, FoundInCeiling, AppliesApproved,
                      AutoWithinCeiling
  <2>5. SeenIsOld'
    BY <2>1, <2>2, <2>3 DEF SeenIsOld
  <2> QED
    BY <1>0, <2>4, <2>5 DEF CeilingInv
<1>5. ASSUME NEW r \in Rec, Evaluate(r) PROVE CeilingInv'
  <2> DEFINE new == [rec |-> r, old |-> run.seen[r].public, on |-> run.today]
             left == run.todo \ {r}
             more == IF Eligible(r, run.seen[r], page[r], run.today)
                     THEN run.found \union {new} ELSE run.found
             rest == [o \in left |-> run.seen[o]]
  <2>1. /\ run.at = "evaluate" /\ r \in run.todo
        /\ run' = [run EXCEPT !.todo = left, !.seen = rest, !.found = more]
        /\ UNCHANGED <<rec, day, granted>>
    BY <1>0, <1>5 DEF Evaluate, RunType, TypeOK
  <2>2. run \in [at : {"evaluate"}, today : 0 .. LastDay, found : SUBSET Proposal,
                    todo : SUBSET Rec, seen : UNION {[S -> Entry] : S \in SUBSET Rec}]
        /\ run.seen \in [run.todo -> Entry]
    BY <1>now, <2>1 DEF TypeOK, RunType
  <2>3. Eligible(r, run.seen[r], page[r], run.today) =>
           rec[r].manual # None /\ run.today - rec[r].manual <= Ceiling
    <3> SUFFICES ASSUME Eligible(r, run.seen[r], page[r], run.today)
                 PROVE  rec[r].manual # None /\ run.today - rec[r].manual <= Ceiling
      OBVIOUS
    <3>1. run.seen[r].manual # None /\ ~(run.today - run.seen[r].manual > Ceiling)
      BY DEF Eligible, ExceedsCeiling, AnchorDay
    <3>2. rec[r].manual # None /\ run.seen[r].manual <= rec[r].manual
      BY <2>1, <3>1 DEF CeilingInv, SeenIsOld
    <3>3. run.seen[r].manual \in Nat /\ rec[r].manual \in Nat /\ run.today \in Nat
      BY <1>0, <2>1, <2>2, <3>1, <3>2 DEF TypeOK, Entry
    <3> QED
      BY <3>1, <3>2, <3>3
  <2>4. \A f \in more : f \in run.found \/ (f = new /\ Eligible(r, run.seen[r], page[r], run.today))
    OBVIOUS
  <2>5. new.rec = r /\ new.on = run.today
    OBVIOUS
  <2>6. left \subseteq run.todo /\ \A o \in left : rest[o] = run.seen[o]
    OBVIOUS
  <2> HIDE DEF new, left, more, rest
  <2>7. /\ run'.at = "evaluate" /\ run'.today = run.today
        /\ run'.todo = left /\ run'.seen = rest /\ run'.found = more
    BY <2>1, <2>2
  <2>8. FoundInCeiling'
    BY <2>1, <2>3, <2>4, <2>5, <2>7 DEF CeilingInv, FoundInCeiling
  <2>9. SeenIsOld'
    BY <2>1, <2>6, <2>7 DEF CeilingInv, SeenIsOld
  <2>10. InTime' /\ AppliesApproved' /\ AutoWithinCeiling'
    BY <2>1, <2>7 DEF CeilingInv, InTime, AppliesApproved, AutoWithinCeiling
  <2> QED
    BY <1>0, <2>8, <2>9, <2>10 DEF CeilingInv
<1>6. ASSUME NEW r \in Rec, Apply(r) PROVE CeilingInv'
  <2>1. /\ run \in [at : {"apply"}, today : 0 .. LastDay, found : SUBSET Proposal,
                    todo : SUBSET Rec, tty : BOOLEAN, spends : BOOLEAN]
        /\ run' = [run EXCEPT !.todo = @ \ {r}]
        /\ r \in run.todo /\ UNCHANGED <<day, granted>>
    BY <1>0, <1>6 DEF Apply, TypeOK, RunType
  <2>2. /\ run'.at = "apply" /\ run'.todo \subseteq run.todo /\ run'.found = run.found
        /\ run'.today = run.today /\ run'.tty = run.tty
    BY <2>1
  <2>3. /\ \A o \in Rec : rec'[o].manual = rec[o].manual
        /\ rec'[r].public = run.today
        /\ \A o \in Rec \ {r} : rec'[o] = rec[o]
    <3>1. rec' = [rec EXCEPT ![r] = [rec[r] EXCEPT !.public = run.today, !.method = "auto"]]
      BY <1>0, <1>6 DEF Apply, TypeOK
    <3>2. rec[r] \in Entry
      BY <1>0 DEF TypeOK
    <3> QED
      BY <1>0, <3>1, <3>2 DEF TypeOK, Entry
  <2>4. PICK f \in run.found : f.rec = r
    BY <2>1 DEF CeilingInv, AppliesApproved
  <2>5. rec[r].manual # None /\ run.today - rec[r].manual <= Ceiling
    BY <2>1, <2>4 DEF CeilingInv, FoundInCeiling
  <2>6. AutoWithinCeiling'
    BY <2>3, <2>5 DEF CeilingInv, AutoWithinCeiling
  <2>7. InTime' /\ SeenIsOld'
    BY <2>1, <2>2, <2>3 DEF CeilingInv, InTime, SeenIsOld
  <2>8. FoundInCeiling'
    <3>1. \A g \in run.found : g.rec \in Rec
      BY <2>1 DEF Proposal
    <3> QED
      BY <2>1, <2>2, <2>3, <3>1 DEF CeilingInv, FoundInCeiling
  <2>9. AppliesApproved'
    BY <2>1, <2>2 DEF CeilingInv, AppliesApproved
  <2> QED
    BY <1>0, <2>6, <2>7, <2>8, <2>9 DEF CeilingInv
<1>7. ASSUME NEW tty \in BOOLEAN, NEW env, Refuse(tty, env) PROVE CeilingInv'
  BY <1>0, <1>7, EndCeiling DEF Refuse, WriteReport
<1>8. ASSUME NEW tty \in BOOLEAN, NEW env \in granted \union {None}, Approve(tty, env)
      PROVE  CeilingInv'
  <2>1. /\ run' = [at |-> "apply", found |-> run.found, today |-> run.today, tty |-> tty,
                   spends |-> ~TokenMatches(env, run.found),
                   todo |-> {f.rec : f \in run.found}]
        /\ tty /\ run.at = "evaluate"
        /\ TokenMatches(env, run.found) \/ TokenMatches(token, run.found)
        /\ UNCHANGED <<rec, day, granted>>
    BY <1>8 DEF Approve, Judged
  <2>2. run.found \in granted
    BY <1>0, <1>8, <2>1 DEF TokenMatches, TypeOK
  <2>3. /\ run'.at = "apply" /\ run'.found = run.found /\ run'.today = run.today
        /\ run'.tty /\ run'.todo = {f.rec : f \in run.found}
    BY <2>1
  <2>4. InTime' /\ SeenIsOld' /\ FoundInCeiling' /\ AutoWithinCeiling'
    BY <2>1, <2>3 DEF CeilingInv, InTime, SeenIsOld, FoundInCeiling, AutoWithinCeiling
  <2>5. AppliesApproved'
    BY <2>1, <2>2, <2>3 DEF AppliesApproved
  <2> QED
    BY <1>0, <2>4, <2>5 DEF CeilingInv
<1>9. ASSUME ReportOnly PROVE CeilingInv'
  BY <1>0, <1>9, EndCeiling DEF ReportOnly, WriteReport
<1>10. ASSUME Finish PROVE CeilingInv'
  BY <1>0, <1>10, EndCeiling DEF Finish, WriteReport
<1>11. ASSUME Killed PROVE CeilingInv'
  BY <1>0, <1>11, EndCeiling DEF Killed
<1>12. ASSUME GrantToken PROVE CeilingInv'
  BY <1>0, <1>12, ElsewhereCeiling DEF GrantToken
<1>13. CASE UNCHANGED vars
  BY <1>0, <1>13, ElsewhereCeiling DEF vars
<1> QED
  BY <1>1, <1>2, <1>3, <1>4, <1>5, <1>6, <1>7, <1>8, <1>9, <1>10, <1>11, <1>12, <1>13 DEF Next

LEMMA CeilingAlways == Spec => []CeilingInv
BY InitCeiling, NextCeiling, PTL DEF Spec

\* However often a date is extended, and whatever the sources serve, it never
\* lies more than the ceiling past the last day a person read the source
\* (scripts/citation_auto_extend_check.py, exceeds_reverify_ceiling).
THEOREM CeilingHolds == Spec => []AutoWithinCeiling
<1>1. CeilingInv => AutoWithinCeiling
  BY DEF CeilingInv
<1> QED
  BY <1>1, CeilingAlways, PTL

-----------------------------------------------------------------------------
(* Approvals.                                                              *)

\* A person's pass confirmed the record while the run was under way.
Reread(r) == rec[r].manual = rec[r].public /\ rec[r].manual \in {run.today, run.today + 1}

\* What a run has read of a record, and what it will write of its proposals,
\* starts from the date that stands in the file.
Current ==
    /\ run.at = "evaluate" => \A r \in run.todo :
          run.seen[r].public = rec[r].public \/ Reread(r)
    /\ run.at # "idle" => \A f \in run.found :
          (run.at = "apply" => f.rec \in run.todo) =>
              f.old = rec[f.rec].public \/ Reread(f.rec)

\* A step that leaves the run and the datasets alone, or ends the run.
LEMMA ElsewhereCurrent ==
    ASSUME Current, UNCHANGED <<rec, run>> \/ run' = NotRunning
    PROVE  Current'
<1>1. CASE UNCHANGED <<rec, run>>
  BY <1>1 DEF Current, Reread
<1>2. CASE run' = NotRunning
  BY <1>2 DEF Current, NotRunning
<1> QED
  BY <1>1, <1>2

LEMMA NextCurrent ==
    ASSUME CeilingInv, Current, [Next]_vars
    PROVE  Current'
<1>0. TypeOK /\ InTime
  BY DEF CeilingInv
<1>1. ASSUME NEW r \in Rec, NEW read \in BOOLEAN, ManualPass(r, read) PROVE Current'
  <2>1. /\ run' = run /\ day' = day
        /\ \A o \in Rec \ {r} : rec'[o] = rec[o]
        /\ \/ rec'[r].manual = day /\ rec'[r].public = day
           \/ rec'[r].manual = rec[r].manual /\ rec'[r].public = rec[r].public
    BY <1>0, <1>1 DEF ManualPass, TypeOK, Entry
  <2>2. run.at # "idle" => day \in {run.today, run.today + 1}
    BY <1>0 DEF InTime
  <2>3. run.at # "idle" => \A o \in Rec :
           \/ rec'[o].public = rec[o].public /\ rec'[o].manual = rec[o].manual
           \/ Reread(o)'
    BY <2>1, <2>2 DEF Reread
  <2>4. run.at # "idle" => \A o \in Rec : Reread(o) => Reread(o)'
    BY <2>1, <2>3 DEF Reread
  <2>5. /\ run.at = "evaluate" => run.todo \subseteq Rec
        /\ run.at # "idle" => \A f \in run.found : f.rec \in Rec
    BY <1>0 DEF TypeOK, RunType, Proposal
  <2> QED
    BY <2>1, <2>3, <2>4, <2>5 DEF Current
<1>2. ASSUME NEW candidates \in SUBSET Rec, StartRun(candidates) PROVE Current'
  <2> DEFINE owned == {r \in candidates : InScope(r)}
  <2>1. /\ run' = [at |-> "evaluate", today |-> day, found |-> {}, todo |-> owned,
                   seen |-> [r \in owned |-> rec[r]]]
        /\ rec' = rec
    BY <1>2 DEF StartRun
  <2> HIDE DEF owned
  <2> QED
    BY <2>1 DEF Current
<1>3. ASSUME NEW r \in Rec, Evaluate(r) PROVE Current'
  <2> DEFINE new == [rec |-> r, old |-> run.seen[r].public, on |-> run.today]
             left == run.todo \ {r}
             more == IF Eligible(r, run.seen[r], page[r], run.today)
                     THEN run.found \union {new} ELSE run.found
             rest == [o \in left |-> run.seen[o]]
  <2>1. /\ run.at = "evaluate" /\ r \in run.todo
        /\ run' = [run EXCEPT !.todo = left, !.seen = rest, !.found = more]
        /\ rec' = rec
    BY <1>0, <1>3 DEF Evaluate, RunType, TypeOK
  <2>2. run \in [at : {"evaluate"}, today : 0 .. LastDay, found : SUBSET Proposal,
                 todo : SUBSET Rec, seen : UNION {[S -> Entry] : S \in SUBSET Rec}]
    BY <1>0, <2>1 DEF TypeOK, RunType
  <2>3. \A f \in more : f \in run.found \/ f = new
    OBVIOUS
  <2>4. new.rec = r /\ new.old = run.seen[r].public
    OBVIOUS
  <2>5. left \subseteq run.todo /\ \A o \in left : rest[o] = run.seen[o]
    OBVIOUS
  <2> HIDE DEF new, left, more, rest
  <2>6. /\ run'.at = "evaluate" /\ run'.todo = left /\ run'.seen = rest
        /\ run'.found = more /\ run'.today = run.today
    BY <2>1, <2>2
  <2>7. \A o \in left : rest[o].public = rec'[o].public \/ Reread(o)'
    BY <2>1, <2>5, <2>6 DEF Current, Reread
  <2>8. \A f \in more : f.old = rec'[f.rec].public \/ Reread(f.rec)'
    BY <2>1, <2>3, <2>4, <2>6 DEF Current, Reread
  <2> QED
    BY <2>6, <2>7, <2>8 DEF Current
<1>4. ASSUME NEW r \in Rec, Apply(r) PROVE Current'
  <2>1. /\ run \in [at : {"apply"}, today : 0 .. LastDay, found : SUBSET Proposal,
                    todo : SUBSET Rec, tty : BOOLEAN, spends : BOOLEAN]
        /\ run' = [run EXCEPT !.todo = @ \ {r}]
        /\ \A o \in Rec \ {r} : rec'[o] = rec[o]
    BY <1>0, <1>4 DEF Apply, TypeOK, RunType
  <2>2. /\ run.at = "apply" /\ run'.at = "apply" /\ run'.found = run.found
        /\ run'.today = run.today /\ run'.todo = run.todo \ {r}
    BY <2>1
  <2>3. \A f \in run.found : f.rec \in Rec
    BY <2>1 DEF Proposal
  <2>4. ASSUME NEW f \in run.found, f.rec \in run.todo \ {r}
        PROVE  f.old = rec'[f.rec].public \/ Reread(f.rec)'
    <3>1. f.old = rec[f.rec].public \/ Reread(f.rec)
      BY <2>2, <2>4 DEF Current
    <3>2. rec'[f.rec] = rec[f.rec]
      BY <2>1, <2>3, <2>4
    <3> QED
      BY <2>2, <3>1, <3>2 DEF Reread
  <2> QED
    BY <2>2, <2>4 DEF Current
<1>5. ASSUME NEW tty \in BOOLEAN, NEW env, Approve(tty, env) PROVE Current'
  <2>1. /\ run.at = "evaluate" /\ run'.at = "apply" /\ run'.found = run.found
        /\ run'.today = run.today /\ rec' = rec
    BY <1>5 DEF Approve, Judged
  <2> QED
    BY <2>1 DEF Current, Reread
<1>6. CASE \/ \E r \in Rec, p \in Page : SourceChanges(r, p)
           \/ \E tty \in BOOLEAN, env \in granted \union {None} : Refuse(tty, env)
           \/ Tick \/ ReportOnly \/ Finish \/ Killed \/ GrantToken \/ UNCHANGED vars
  BY <1>6, ElsewhereCurrent DEF SourceChanges, Refuse, Tick, ReportOnly, Finish, Killed,
                                GrantToken, WriteReport, vars
<1> QED
  BY <1>1, <1>2, <1>3, <1>4, <1>5, <1>6 DEF Next

\* No date is moved by a run but one of a set of proposals that was approved
\* as it stands, by someone at a terminal, and from the date the proposal
\* names, however runs are killed, people read and approvals overlap
\* (check_apply_approval, apply_eligible_extends).
THEOREM ApprovalHolds == Spec => OnlyApprovedIsApplied
<1> DEFINE Moved(r) == rec'[r].public # rec[r].public /\ rec'[r].method = "auto"
           Approved(r) ==
               /\ run.tty /\ run.found \in granted
               /\ \E f \in run.found :
                    /\ f.rec = r /\ f.on = rec'[r].public
                    /\ f.old = rec[r].public \/ rec[r].manual = f.on + 1
<1>1. ASSUME CeilingInv, Current, [Next]_vars, NEW r \in Rec, Moved(r) PROVE Approved(r)
  <2>0. TypeOK
    BY <1>1 DEF CeilingInv
  <2>1. rec' # rec
    BY <1>1
  <2>2. ASSUME NEW o \in Rec, NEW read \in BOOLEAN, ManualPass(o, read) PROVE FALSE
    <3>1. rec'[r] # rec[r]
      BY <1>1
    <3>2. o = r /\ rec[r] \in Entry
      BY <2>0, <2>2, <3>1 DEF ManualPass, TypeOK
    <3>3. rec'[r].method = "manual" \/ rec'[r].public = rec[r].public
      BY <2>0, <2>2, <3>2 DEF ManualPass, TypeOK, Entry
    <3> QED
      BY <1>1, <3>3
  <2>3. PICK o \in Rec : Apply(o)
    BY <1>1, <2>1, <2>2 DEF Next, vars, SourceChanges, Tick, StartRun, Evaluate, Refuse,
                            Approve, ReportOnly, Finish, Killed, GrantToken
  <2>4. o = r
    BY <1>1, <2>0, <2>3 DEF Apply, TypeOK
  <2>5. run.at = "apply" /\ r \in run.todo /\ rec'[r].public = run.today
    BY <2>0, <2>3, <2>4 DEF Apply, TypeOK, Entry
  <2>6. run.tty /\ run.found \in granted
    BY <1>1, <2>5 DEF CeilingInv, AppliesApproved
  <2>7. PICK f \in run.found : f.rec = r
    BY <1>1, <2>5 DEF CeilingInv, AppliesApproved
  <2>8. f.on = run.today
    BY <1>1, <2>5 DEF CeilingInv, FoundInCeiling
  <2>9. f.old = rec[r].public \/ Reread(r)
    BY <1>1, <2>5, <2>7 DEF Current
  <2>10. Reread(r) => rec[r].manual = f.on + 1
    BY <1>1, <2>5, <2>8 DEF Reread
  <2> QED
    BY <2>5, <2>6, <2>7, <2>8, <2>9, <2>10
<1>2. CeilingInv /\ Current /\ [Next]_vars => [\A r \in Rec : Moved(r) => Approved(r)]_vars
  BY <1>1
<1>3. Init => Current
  BY DEF Init, NotRunning, Current
<1> QED
  BY <1>2, <1>3, NextCurrent, CeilingAlways, PTL DEF Spec, OnlyApprovedIsApplied

-----------------------------------------------------------------------------
(* The dates are true.                                                     *)

\* good has every day on which a source showed the document and its value.
GoodToday == \A r \in Rec : Shows(r, page[r]) => day \in good[r]

\* Of a citation that something can be said of.
Shown(r, p) == Blind(r) \/ Shows(r, p)

\* What was anchored shows the value, and so does what a run has read of it.
AnchoredShows ==
    /\ \A r \in Rec : rec[r].base # None => Shown(r, rec[r].base)
    /\ run.at = "evaluate" => \A r \in run.todo :
          run.seen[r].base # None => Shown(r, run.seen[r].base)

ShownBy(r, d) == Blind(r) \/ d \in good[r] \/ d + 1 \in good[r]

FoundIsTrue == run.at # "idle" => \A f \in run.found : ShownBy(f.rec, f.on)

TruthInv == GoodToday /\ AnchoredShows /\ FoundIsTrue /\ AutoDateIsTrue

LEMMA InitTruth == Init => TruthInv
BY DEF Init, NotRunning, TruthInv, GoodToday, AnchoredShows, FoundIsTrue, AutoDateIsTrue

LEMMA GoodGrows ==
    ASSUME TypeOK, NEW p, NEW d, good' = WithToday(good, p, d)
    PROVE  \A r \in Rec : good[r] \subseteq good'[r]
BY DEF TypeOK, WithToday

\* A step of the world outside: the datasets and the run stay as they are.
LEMMA OutsideTruth ==
    ASSUME TypeOK, TruthInv, UNCHANGED <<cite, rec, run>>, GoodToday',
           \A r \in Rec : good[r] \subseteq good'[r]
    PROVE  TruthInv'
<1>1. run.at = "evaluate" => run.todo \subseteq Rec
  BY DEF TypeOK, RunType
<1>2. AnchoredShows'
  BY <1>1 DEF TruthInv, AnchoredShows, Shown, Blind, Shows
<1>3. run.at # "idle" => \A f \in run.found : f.rec \in Rec
  BY DEF TypeOK, RunType, Proposal
<1>4. FoundIsTrue'
  BY <1>3 DEF TruthInv, FoundIsTrue, ShownBy, Blind
<1>5. AutoDateIsTrue'
  BY DEF TruthInv, AutoDateIsTrue, Blind
<1> QED
  BY <1>2, <1>4, <1>5 DEF TruthInv

\* A step inside: the sources, what they showed and the day stay as they are.
LEMMA InsideTruth ==
    ASSUME TruthInv, UNCHANGED <<cite, page, day, good>>,
           AnchoredShows', FoundIsTrue', AutoDateIsTrue'
    PROVE  TruthInv'
BY DEF TruthInv, GoodToday, Shows

LEMMA EndTruth ==
    ASSUME TruthInv, UNCHANGED <<cite, page, day, good, rec>>, run' = NotRunning
    PROVE  TruthInv'
<1>1. AnchoredShows' /\ FoundIsTrue' /\ AutoDateIsTrue'
  BY DEF TruthInv, AnchoredShows, FoundIsTrue, AutoDateIsTrue, Blind, Shown, Shows, NotRunning
<1> QED
  BY <1>1, InsideTruth

\* What a person's pass anchors shows the document and the value.
LEMMA AnchorShows ==
    ASSUME TypeOK, NEW r \in Rec, NEW p \in Page, NEW read \in BOOLEAN,
           read => Shows(r, p), Qualifies(r, p), ValueConfirmed(r, p, read)
    PROVE  Shown(r, p)
<1>1. cite[r] \in Kind
  BY DEF TypeOK
<1>2. cite[r] \in Citation
  BY <1>1
<1>3. CASE cite[r].pdf
  BY <1>3 DEF ValueConfirmed, Shown, Blind
<1>4. CASE ~cite[r].pdf
  BY <1>4 DEF ValueConfirmed, Qualifies, Shows, Shown
<1> QED
  BY <1>2, <1>3, <1>4 DEF Citation

LEMMA NextTruth ==
    ASSUME CeilingInv, TypeOK', TruthInv, [Next]_vars
    PROVE  TruthInv'
<1>0. TypeOK
  BY DEF CeilingInv
<1>1. ASSUME NEW r \in Rec, NEW p \in Page, SourceChanges(r, p) PROVE TruthInv'
  <2>1. \A o \in Rec : good[o] \subseteq good'[o]
    BY <1>0, <1>1, GoodGrows DEF SourceChanges
  <2>2. GoodToday'
    BY <1>0, <1>1 DEF SourceChanges, WithToday, GoodToday, Shows, TypeOK
  <2> QED
    BY <1>0, <1>1, <2>1, <2>2, OutsideTruth DEF SourceChanges
<1>2. ASSUME Tick PROVE TruthInv'
  <2>1. \A o \in Rec : good[o] \subseteq good'[o]
    BY <1>0, <1>2, GoodGrows DEF Tick
  <2>2. GoodToday'
    BY <1>0, <1>2 DEF Tick, WithToday, GoodToday, Shows, TypeOK
  <2> QED
    BY <1>0, <1>2, <2>1, <2>2, OutsideTruth DEF Tick
<1>3. ASSUME NEW r \in Rec, NEW read \in BOOLEAN, ManualPass(r, read) PROVE TruthInv'
  <2>1. /\ UNCHANGED <<cite, page, day, good, run>> /\ (read => Shows(r, page[r]))
        /\ \A o \in Rec \ {r} : rec'[o] = rec[o]
    BY <1>0, <1>3 DEF ManualPass, TypeOK
  <2>2. \/ /\ Qualifies(r, page[r]) /\ ValueConfirmed(r, page[r], read)
           /\ rec'[r].base = page[r] /\ rec'[r].method = "manual"
        \/ /\ rec'[r].base = None
           /\ rec'[r].method = rec[r].method /\ rec'[r].public = rec[r].public
    BY <1>0, <1>3 DEF ManualPass, TypeOK, Entry
  <2>3. rec'[r].base # None => Shown(r, rec'[r].base)
    <3>1. page[r] \in Page
      BY <1>0 DEF TypeOK
    <3> QED
      BY <1>0, <2>1, <2>2, <3>1, AnchorShows
  <2>4. AnchoredShows'
    BY <2>1, <2>3 DEF TruthInv, AnchoredShows, Shown, Blind, Shows
  <2>5. FoundIsTrue' /\ AutoDateIsTrue'
    BY <2>1, <2>2 DEF TruthInv, FoundIsTrue, ShownBy, Blind, AutoDateIsTrue
  <2> QED
    BY <2>1, <2>4, <2>5, InsideTruth
<1>4. ASSUME NEW candidates \in SUBSET Rec, StartRun(candidates) PROVE TruthInv'
  <2> DEFINE owned == {r \in candidates : InScope(r)}
  <2>1. /\ run' = [at |-> "evaluate", today |-> day, found |-> {}, todo |-> owned,
                   seen |-> [r \in owned |-> rec[r]]]
        /\ UNCHANGED <<cite, page, day, good, rec>>
    BY <1>4 DEF StartRun
  <2>2. owned \subseteq Rec
    OBVIOUS
  <2> HIDE DEF owned
  <2>3. AnchoredShows'
    BY <2>1, <2>2 DEF TruthInv, AnchoredShows, Shown, Blind, Shows
  <2>4. FoundIsTrue' /\ AutoDateIsTrue'
    BY <2>1 DEF TruthInv, FoundIsTrue, AutoDateIsTrue, Blind
  <2> QED
    BY <2>1, <2>3, <2>4, InsideTruth
<1>5. ASSUME NEW r \in Rec, Evaluate(r) PROVE TruthInv'
  <2> DEFINE new == [rec |-> r, old |-> run.seen[r].public, on |-> run.today]
             left == run.todo \ {r}
             more == IF Eligible(r, run.seen[r], page[r], run.today)
                     THEN run.found \union {new} ELSE run.found
             rest == [o \in left |-> run.seen[o]]
  <2>1. /\ run.at = "evaluate" /\ r \in run.todo
        /\ run' = [run EXCEPT !.todo = left, !.seen = rest, !.found = more]
        /\ UNCHANGED <<cite, page, day, good, rec>>
    BY <1>0, <1>5 DEF Evaluate, RunType, TypeOK
  <2>2. /\ run \in [at : {"evaluate"}, today : 0 .. LastDay, found : SUBSET Proposal,
                    todo : SUBSET Rec, seen : UNION {[S -> Entry] : S \in SUBSET Rec}]
    BY <1>0, <2>1 DEF TypeOK, RunType
  <2>3. Eligible(r, run.seen[r], page[r], run.today) => ShownBy(r, run.today)
    <3> SUFFICES ASSUME Eligible(r, run.seen[r], page[r], run.today)
                 PROVE  ShownBy(r, run.today)
      OBVIOUS
    <3>1. run.seen[r].base # None /\ page[r] = run.seen[r].base
      BY DEF Eligible, SameBytes
    <3>2. Shown(r, page[r])
      BY <2>1, <3>1 DEF TruthInv, AnchoredShows
    <3>3. Blind(r) \/ day \in good[r]
      BY <3>2 DEF TruthInv, GoodToday, Shown
    <3>4. day \in {run.today, run.today + 1}
      BY <2>1 DEF CeilingInv, InTime
    <3> QED
      BY <3>3, <3>4 DEF ShownBy
  <2>4. \A f \in more : \/ f \in run.found
                        \/ f = new /\ Eligible(r, run.seen[r], page[r], run.today)
    OBVIOUS
  <2>5. new.rec = r /\ new.on = run.today
    OBVIOUS
  <2>6. left \subseteq run.todo /\ \A o \in left : rest[o] = run.seen[o]
    OBVIOUS
  <2> HIDE DEF new, left, more, rest
  <2>7. /\ run'.at = "evaluate" /\ run'.todo = left /\ run'.seen = rest
        /\ run'.found = more
    BY <2>1, <2>2
  <2>8. FoundIsTrue'
    BY <2>1, <2>3, <2>4, <2>5, <2>7 DEF TruthInv, FoundIsTrue, ShownBy, Blind
  <2>9. AnchoredShows'
    BY <2>1, <2>6, <2>7 DEF TruthInv, AnchoredShows, Shown, Blind, Shows
  <2>10. AutoDateIsTrue'
    BY <2>1 DEF TruthInv, AutoDateIsTrue, Blind
  <2> QED
    BY <2>1, <2>8, <2>9, <2>10, InsideTruth
<1>6. ASSUME NEW r \in Rec, Apply(r) PROVE TruthInv'
  <2>1. /\ run \in [at : {"apply"}, today : 0 .. LastDay, found : SUBSET Proposal,
                    todo : SUBSET Rec, tty : BOOLEAN, spends : BOOLEAN]
        /\ run' = [run EXCEPT !.todo = @ \ {r}]
        /\ r \in run.todo /\ UNCHANGED <<cite, page, day, good>>
    BY <1>0, <1>6 DEF Apply, TypeOK, RunType
  <2>2. run'.at = "apply" /\ run'.found = run.found
    BY <2>1
  <2>3. /\ \A o \in Rec : rec'[o].base = rec[o].base
        /\ rec'[r].public = run.today
        /\ \A o \in Rec \ {r} : rec'[o] = rec[o]
    <3>1. rec' = [rec EXCEPT ![r] = [rec[r] EXCEPT !.public = run.today, !.method = "auto"]]
      BY <1>0, <1>6 DEF Apply, TypeOK
    <3>2. rec[r] \in Entry
      BY <1>0 DEF TypeOK
    <3> QED
      BY <1>0, <3>1, <3>2 DEF TypeOK, Entry
  <2>4. PICK f \in run.found : f.rec = r
    BY <2>1 DEF CeilingInv, AppliesApproved
  <2>5. f.on = run.today
    BY <2>1, <2>4 DEF CeilingInv, FoundInCeiling
  <2>6. ShownBy(r, run.today)
    BY <2>1, <2>4, <2>5 DEF TruthInv, FoundIsTrue
  <2>7. AutoDateIsTrue'
    BY <2>1, <2>3, <2>6 DEF TruthInv, AutoDateIsTrue, ShownBy, Blind
  <2>8. AnchoredShows' /\ FoundIsTrue'
    BY <2>1, <2>2, <2>3 DEF TruthInv, AnchoredShows, Shown, Blind, Shows, FoundIsTrue, ShownBy
  <2> QED
    BY <2>1, <2>7, <2>8, InsideTruth
<1>7. ASSUME NEW tty \in BOOLEAN, NEW env, Refuse(tty, env) PROVE TruthInv'
  BY <1>7, EndTruth DEF Refuse, WriteReport
<1>8. ASSUME NEW tty \in BOOLEAN, NEW env, Approve(tty, env) PROVE TruthInv'
  <2>1. /\ run.at = "evaluate" /\ run'.at = "apply" /\ run'.found = run.found
        /\ UNCHANGED <<cite, page, day, good, rec>>
    BY <1>8 DEF Approve, Judged
  <2>2. AnchoredShows' /\ FoundIsTrue' /\ AutoDateIsTrue'
    BY <2>1 DEF TruthInv, AnchoredShows, Shown, Blind, Shows, FoundIsTrue, ShownBy,
                AutoDateIsTrue
  <2> QED
    BY <2>1, <2>2, InsideTruth
<1>9. ASSUME ReportOnly PROVE TruthInv'
  BY <1>9, EndTruth DEF ReportOnly, WriteReport
<1>10. ASSUME Finish PROVE TruthInv'
  BY <1>10, EndTruth DEF Finish, WriteReport
<1>11. ASSUME Killed PROVE TruthInv'
  BY <1>11, EndTruth DEF Killed
<1>12. ASSUME GrantToken \/ UNCHANGED vars PROVE TruthInv'
  <2>1. UNCHANGED <<cite, page, day, good, rec, run>>
    BY <1>12 DEF GrantToken, vars
  <2>2. AnchoredShows' /\ FoundIsTrue' /\ AutoDateIsTrue'
    BY <2>1 DEF TruthInv, AnchoredShows, Shown, Blind, Shows, FoundIsTrue, ShownBy,
                AutoDateIsTrue
  <2> QED
    BY <2>1, <2>2, InsideTruth
<1> QED
  BY <1>1, <1>2, <1>3, <1>4, <1>5, <1>6, <1>7, <1>8, <1>9, <1>10, <1>11, <1>12 DEF Next

\* An automatic date is true: the source showed the cited document and its
\* value on that day or the next, however sources change, unless it is a PDF
\* that has no value to look for (evaluate_candidate).
THEOREM DatesAreTrue == Spec => []AutoDateIsTrue
<1>1. CeilingInv /\ CeilingInv' /\ TruthInv /\ [Next]_vars => TruthInv'
  BY NextTruth DEF CeilingInv
<1>2. TruthInv => AutoDateIsTrue
  BY DEF TruthInv
<1> QED
  BY <1>1, <1>2, InitTruth, CeilingAlways, PTL DEF Spec
=============================================================================
