-------------------------- MODULE ReverifyJobProofs --------------------------
(***************************************************************************)
(* Proofs about ReverifyJob, for every set of records and jobs and for     *)
(* every bound: types, the lock file of job.py, and, as long as no lock is *)
(* taken from a job at work, everything a run promises about main and the  *)
(* status file.                                                            *)
(***************************************************************************)
EXTENDS ReverifyJob, FiniteSetTheorems, TLAPS

-----------------------------------------------------------------------------
(* What the runner does to a document.                                     *)

LEMMA BlankTyped == Blank \in RecordType
BY RecordAssumption DEF Blank, RecordType

\* advance_as_of leaves a document, and moves its date forward or not at all.
LEMMA AsOfTyped ==
    ASSUME NEW doc \in Doc
    PROVE  WithAsOf(doc) \in Doc
<1> DEFINE later == {d \in {doc.rec[i].date : i \in Cpa} :
                       /\ d > doc.asOf
                       /\ \A i \in Cpa : d <= doc.rec[i].date}
<1>1. \A i \in Cpa : doc.rec[i].date \in Nat
  BY RecordAssumption DEF Doc, RecordType
<1>2. later \subseteq Nat
  BY <1>1
<1>3. WithAsOf(doc) = [doc EXCEPT !.asOf = IF later = {} THEN @
                                           ELSE CHOOSE d \in later : TRUE]
  BY DEF WithAsOf
<1>4. later # {} => (CHOOSE d \in later : TRUE) \in Nat
  BY <1>2
<1> HIDE DEF later
<1> QED
  BY <1>3, <1>4 DEF Doc

LEMMA StampTyped ==
    ASSUME NEW doc \in Doc, NEW S, NEW d \in Nat
    PROVE  Stamp(doc, S, d) \in Doc
<1> DEFINE new == [i \in Rec |-> IF i \in S /\ Stampable(doc.rec[i])
                                 THEN Stamped(doc.rec[i], d) ELSE doc.rec[i]]
<1>1. new \in [Rec -> RecordType]
  BY DEF Doc, RecordType, Stamped
<1>2. [doc EXCEPT !.rec = new] \in Doc
  BY <1>1 DEF Doc
<1> QED
  BY <1>2, AsOfTyped DEF Stamp

\* What a run selects are records.
LEMMA SelectedTyped ==
    ASSUME NEW doc, NEW failing, NEW d
    PROVE  Selected(doc, failing, d) \subseteq Rec
<1>1. \A S, n : Oldest(doc, S, n) \subseteq S
  BY DEF Oldest
<1>2. Automatable \subseteq Rec
  BY DEF Automatable
<1>3. Tranche(doc, failing) \subseteq Rec
  <2>1. \A ds : Oldest(doc, ds \ failing, Quota(ds)) \subseteq ds
    BY <1>1
  <2> QED
    BY <1>2, <2>1 DEF Tranche
<1>4. \A todo : CapCpa(doc, todo, d) \subseteq todo
  BY <1>1 DEF CapCpa
<1> QED
  BY <1>2, <1>3, <1>4 DEF Selected

LEMMA DatesTyped ==
    ASSUME NEW doc \in Doc
    PROVE  Dates(doc) \in [Rec -> Nat]
BY DEF Dates, Doc, RecordType

LEMMA IdleTyped == IdleJob \in JobType
BY BlankTyped, LimitAssumption DEF IdleJob, JobType, Doc

-----------------------------------------------------------------------------
(* Types.                                                                  *)

LEMMA InitTyped == Init => TypeOK
<1> SUFFICES ASSUME Init PROVE TypeOK
  OBVIOUS
<1>1. main \in Doc
  BY BlankTyped DEF Init, Doc, RecordType
<1>2. tree \in TreeType
  BY <1>1 DEF Init, TreeType
<1>3. status \in StatusType /\ pending \in StatusType
  BY <1>1, DatesTyped DEF Init, StatusType
<1> QED
  BY <1>1, <1>2, <1>3, IdleTyped DEF Init, TypeOK

\* The other people's steps keep the types.
LEMMA PeopleTyped ==
    ASSUME TypeOK, People
    PROVE  TypeOK'
<1>1. ASSUME NEW i \in Rec, NEW r \in RecordType, Land(i, r),
             stamps' \subseteq Rec, edits' \in Nat
      PROVE  TypeOK'
  <2>1. main' \in Doc
    BY <1>1 DEF Land, TypeOK, Doc
  <2>2. tree' \in TreeType
    <3>1. CASE \E j \in Job : Inside(j)
      BY <1>1, <3>1 DEF Land, TypeOK, TreeType
    <3>2. CASE ~ \E j \in Job : Inside(j)
      <4>1. tree' = [files |-> main', head |-> main', origin |-> main',
                     behind |-> FALSE]
        BY <1>1, <3>2 DEF Land, CleanTree
      <4> QED
        BY <2>1, <4>1 DEF TreeType
    <3> QED
      BY <3>1, <3>2
  <2> QED
    BY <1>1, <2>1, <2>2 DEF Land, TypeOK
<1>2. ASSUME NEW i \in Rec, HandStamp(i) PROVE TypeOK'
  <2>1. [main.rec[i] EXCEPT !.date = day, !.gap = "none"] \in RecordType
    BY DEF TypeOK, Doc, RecordType
  <2> QED
    BY <1>1, <1>2, <2>1 DEF HandStamp, TypeOK
<1>3. ASSUME NEW i \in Rec, Edit(i) PROVE TypeOK'
  <2>1. edits' \in Nat /\ stamps' \subseteq Rec
    BY <1>3 DEF Edit, TypeOK
  <2>2. /\ \A v \in Value : [main.rec[i] EXCEPT !.val = v] \in RecordType
        /\ [main.rec[i] EXCEPT !.gap = "held"] \in RecordType
    BY DEF TypeOK, Doc, RecordType
  <2>3. PICK r \in RecordType : Land(i, r)
    BY <1>3, <2>2, Zenon DEF Edit
  <2> QED
    BY <1>1, <2>1, <2>3
<1> QED
  BY <1>2, <1>3 DEF People

LEMMA CleanTyped == ASSUME TypeOK PROVE CleanTree \in TreeType
BY DEF TypeOK, CleanTree, TreeType

\* What the helpers of a job do to its locals.
LEMMA BecomeTyped ==
    ASSUME TypeOK, NEW j \in Job, NEW local \in JobType, Become(j, local)
    PROVE  job' \in [Job -> JobType]
BY DEF TypeOK, Become

LEMMA GotoTyped ==
    ASSUME TypeOK, NEW j \in Job,
           NEW pc \in {"idle", "takeover", "fetch", "dump", "gate", "commit", "push",
                       "parent", "load"},
           Goto(j, pc)
    PROVE  job' \in [Job -> JobType]
<1> DEFINE local == [job[j] EXCEPT !.pc = pc]
<1>1. local \in JobType
  BY DEF TypeOK, JobType
<1>2. Become(j, local)
  BY DEF Goto
<1> HIDE DEF local
<1> QED
  BY <1>1, <1>2, BecomeTyped

\* The steps of a job up to the commit.
LEMMA EarlyStepTyped ==
    ASSUME TypeOK, NEW j \in Job,
           \/ Enter(j) \/ FindStale(j) \/ TakeOver(j) \/ NothingToTakeOver(j)
           \/ Refused(j) \/ Fetch(j) \/ Relaunch(j) \/ Load(j)
           \/ Gates(j) \/ Commit(j)
    PROVE  TypeOK'
<1>1. CASE Enter(j) \/ FindStale(j) \/ NothingToTakeOver(j)
  <2>1. \E pc \in {"fetch", "takeover", "parent", "idle"} : Goto(j, pc)
    BY <1>1 DEF Enter, FindStale, NothingToTakeOver
  <2>2. job' \in [Job -> JobType]
    BY <2>1, GotoTyped
  <2> QED
    BY <1>1, <2>2 DEF Enter, FindStale, NothingToTakeOver, TypeOK, people
<1>0. CASE TakeOver(j)
  <2>1. robbed' \subseteq Job
    BY <1>0 DEF TakeOver, Others, TypeOK
  <2> QED
    BY <1>0, <2>1, GotoTyped DEF TakeOver, TypeOK, people
<1>2. CASE Refused(j)
  BY <1>2, GotoTyped DEF Refused, TypeOK, people
<1>3. CASE Fetch(j)
  BY <1>3, GotoTyped, CleanTyped DEF Fetch, TypeOK, people
<1>4. ASSUME Relaunch(j) PROVE TypeOK'
  <2> DEFINE local == [job[j] EXCEPT !.pc = "child", !.nested = TRUE]
  <2>1. local \in JobType
    BY DEF TypeOK, JobType
  <2>2. Become(j, local)
    BY <1>4 DEF Relaunch
  <2> HIDE DEF local
  <2>3. job' \in [Job -> JobType]
    BY <2>1, <2>2, BecomeTyped
  <2>4. robbed' \subseteq Job
    BY <1>4 DEF Relaunch, Others, TypeOK
  <2> QED
    BY <1>4, <2>3, <2>4, CleanTyped DEF Relaunch, TypeOK, people
<1>5. ASSUME Load(j) PROVE TypeOK'
  <2> DEFINE todo == Selected(tree.files, pending.failing, day)
             local == [job[j] EXCEPT !.pc = "dump", !.data = tree.files,
                                     !.on = day, !.todo = todo]
  <2>1. todo \in SUBSET Rec
    BY SelectedTyped
  <2>2. Become(j, local)
    BY <1>5 DEF Load
  <2> HIDE DEF todo
  <2>3. job[j] \in JobType /\ tree.files \in Doc /\ day \in Nat
    BY DEF TypeOK, TreeType
  <2>4. local \in JobType
    BY <2>1, <2>3 DEF JobType
  <2> HIDE DEF local
  <2>5. job' \in [Job -> JobType]
    BY <2>2, <2>4, BecomeTyped
  <2> QED
    BY <1>5, <2>5 DEF Load, TypeOK, people
<1>6. ASSUME Gates(j) PROVE TypeOK'
  <2> DEFINE out(b) == [job[j] EXCEPT !.pc = "publish", !.deployed = b]
  <2>1. \A b \in BOOLEAN : out(b) \in JobType
    BY DEF TypeOK, JobType
  <2>2. (\E b \in BOOLEAN : Become(j, out(b))) \/ Goto(j, "commit")
    BY <1>6 DEF Gates
  <2> HIDE DEF out
  <2>3. job' \in [Job -> JobType]
    BY <2>1, <2>2, BecomeTyped, GotoTyped
  <2>4. tree' \in TreeType
    BY <1>6 DEF Gates, TypeOK, TreeType
  <2> QED
    BY <1>6, <2>3, <2>4 DEF Gates, TypeOK, people
<1>7. ASSUME Commit(j) PROVE TypeOK'
  <2>1. tree' \in TreeType
    BY <1>7 DEF Commit, TypeOK, TreeType
  <2> QED
    BY <1>7, <2>1, GotoTyped DEF Commit, TypeOK, people
<1> QED
  BY <1>0, <1>1, <1>2, <1>3, <1>4, <1>5, <1>6, <1>7

\* What the fetches found.
LEMMA DumpTyped ==
    ASSUME TypeOK, NEW j \in Job, Dump(j)
    PROVE  TypeOK'
<1> DEFINE todo == job[j].todo
           old == job[j].data
<1>1. PICK good \in SUBSET todo, bad \in SUBSET todo :
          LET ok == {i \in good : Stampable(old.rec[i])}
              new == Stamp(old, good, job[j].on)
          IN  /\ tree' = [tree EXCEPT !.files = new]
              /\ found' = [i \in Rec |-> IF i \in ok THEN old.rec[i].val
                                                     ELSE NoValue]
              /\ pending' = [pending EXCEPT
                               !.seen = Dates(new),
                               !.failing = (@ \ ok) \cup bad]
              /\ IF new = tree.head
                 THEN Become(j, [job[j] EXCEPT !.pc = "publish", !.todo = {},
                                               !.deployed = TRUE])
                 ELSE Become(j, [job[j] EXCEPT !.pc = "gate", !.todo = {}])
  BY Zenon DEF Dump
<1> DEFINE ok == {i \in good : Stampable(old.rec[i])}
           new == Stamp(old, good, job[j].on)
           done == [job[j] EXCEPT !.pc = "publish", !.todo = {}, !.deployed = TRUE]
           more == [job[j] EXCEPT !.pc = "gate", !.todo = {}]
<1>2. old \in Doc /\ todo \subseteq Rec /\ job[j].on \in Nat
  BY DEF TypeOK, JobType
<1>3. new \in Doc
  BY <1>2, StampTyped
<1>4. done \in JobType /\ more \in JobType
  BY DEF TypeOK, JobType
<1>5. Become(j, done) \/ Become(j, more)
  BY <1>1
<1>6. tree' = [tree EXCEPT !.files = new]
  BY <1>1
<1>7. found' \in [Rec -> Value \cup {NoValue}]
  <2>1. \A i \in Rec : old.rec[i].val \in Value
    BY <1>2 DEF Doc, RecordType
  <2> QED
    BY <1>1, <2>1
<1>8. pending' = [pending EXCEPT !.seen = Dates(new), !.failing = (@ \ ok) \cup bad]
  BY <1>1
<1> HIDE DEF done, more, new
<1>9. Dates(new) \in [Rec -> Nat]
  BY <1>3, DatesTyped
<1>10. pending' \in StatusType
  BY <1>2, <1>8, <1>9 DEF TypeOK, StatusType
<1>11. tree' \in TreeType
  BY <1>3, <1>6 DEF TypeOK, TreeType
<1>12. job' \in [Job -> JobType]
  BY <1>4, <1>5, BecomeTyped
<1> QED
  BY <1>7, <1>10, <1>11, <1>12 DEF Dump, TypeOK, people

\* The steps of a job from the push on.
LEMMA LateStepTyped ==
    ASSUME TypeOK, NEW j \in Job,
           \/ Push(j) \/ PushRejected(j) \/ Replay(j) \/ Publish(j) \/ Raises(j)
           \/ Exit(j) \/ Kill(j)
    PROVE  TypeOK'
<1> DEFINE out(b) == [job[j] EXCEPT !.pc = "publish", !.deployed = b]
           again == [job[j] EXCEPT !.pc = "replay", !.try = @ + 1]
           left == [IdleJob EXCEPT !.pc = "exit", !.nested = job[j].nested]
<1>a. \A b \in BOOLEAN : out(b) \in JobType
  BY DEF TypeOK, JobType
<1>b. left \in JobType
  BY IdleTyped DEF TypeOK, JobType
<1>c. ASSUME job[j].try < Attempts PROVE again \in JobType
  <2>1. job[j] \in JobType
    BY DEF TypeOK
  <2>2. job[j].try + 1 \in 1 .. Attempts
    BY <1>c, <2>1, LimitAssumption DEF JobType
  <2> QED
    BY <2>1, <2>2 DEF JobType
<1> HIDE DEF out, again, left
<1>1. CASE Push(j)
  <2>1. Become(j, out(TRUE))
    BY <1>1 DEF Push, out
  <2>2. main' \in Doc /\ tree' \in TreeType
    BY <1>1 DEF Push, TypeOK, TreeType
  <2> QED
    BY <1>1, <1>a, <2>1, <2>2, BecomeTyped DEF Push, TypeOK, people
<1>2. CASE PushRejected(j)
  <2>1. \/ job[j].try < Attempts /\ Become(j, again)
        \/ Become(j, out(FALSE))
    BY <1>2 DEF PushRejected, AfterRejection, again, out
  <2>2. job' \in [Job -> JobType]
    BY <1>a, <1>c, <2>1, BecomeTyped
  <2> QED
    BY <1>2, <2>2 DEF PushRejected, TypeOK, people
<1>3. CASE Replay(j)
  <2> DEFINE S == Replayable(job[j].data, main)
             new == Stamp(main, S, job[j].on)
  <2>1. new \in Doc
    BY StampTyped DEF TypeOK, JobType
  <2>2. Become(j, out(FALSE)) \/ Goto(j, "gate")
    BY <1>3 DEF Replay, out
  <2>3. tree' = CleanTree \/ tree' = [CleanTree EXCEPT !.files = new]
    BY <1>3 DEF Replay
  <2> HIDE DEF new
  <2>4. tree' \in TreeType
    BY <2>1, <2>3, CleanTyped DEF TreeType
  <2> QED
    BY <1>3, <1>a, <2>2, <2>4, BecomeTyped, GotoTyped DEF Replay, TypeOK, people
<1>4. CASE Publish(j)
  <2>1. Become(j, left)
    BY <1>4 DEF Publish, left
  <2>2. Dates(tree.origin) \in [Rec -> Nat]
    BY DatesTyped DEF TypeOK, TreeType
  <2>3. status' \in StatusType
    <3>1. job[j].deployed \in BOOLEAN
      BY DEF TypeOK, JobType
    <3> QED
      BY <1>4, <2>2, <3>1 DEF Publish, TypeOK, StatusType
  <2> QED
    BY <1>4, <1>b, <2>1, <2>3, BecomeTyped DEF Publish, TypeOK, people
<1>5. CASE Raises(j)
  <2>1. Become(j, left)
    BY <1>5 DEF Raises, left
  <2> QED
    BY <1>5, <1>b, <2>1, BecomeTyped DEF Raises, TypeOK, people
<1>6. ASSUME Over(j)
      PROVE  /\ job' \in [Job -> JobType] /\ tree' \in TreeType
             /\ found' \in [Rec -> Value \cup {NoValue}]
             /\ pending' \in StatusType
  <2>1. job' \in [Job -> JobType]
    BY <1>6, IdleTyped, BecomeTyped DEF Over
  <2> QED
    BY <1>6, <2>1, CleanTyped DEF Over, TypeOK
<1>7. CASE Exit(j)
  <2>1. robbed' \subseteq Job
    BY <1>7 DEF Exit, Others, TypeOK
  <2>2. CASE job[j].pc = "exit" /\ job[j].nested
    BY <1>7, <2>1, <2>2, GotoTyped DEF Exit, TypeOK, people
  <2>3. CASE ~ (job[j].pc = "exit" /\ job[j].nested)
    BY <1>6, <1>7, <2>1, <2>3 DEF Exit, TypeOK, people
  <2> QED
    BY <2>2, <2>3
<1>8. CASE Kill(j)
  <2>1. robbed' \subseteq Job
    BY <1>8 DEF Kill, TypeOK
  <2> QED
    BY <1>6, <1>8, <2>1 DEF Kill, TypeOK, people
<1> QED
  BY <1>1, <1>2, <1>3, <1>4, <1>5, <1>7, <1>8

\* Every file and every local keeps the shape the scripts give it (TypeOK).
THEOREM FilesTypeCorrect == Spec => []TypeOK
<1>1. TypeOK /\ [Next]_vars => TypeOK'
  <2> SUFFICES ASSUME TypeOK, [Next]_vars PROVE TypeOK'
    OBVIOUS
  <2>1. CASE NextDay
    BY <2>1 DEF NextDay, TypeOK
  <2>2. CASE LockAges
    BY <2>2 DEF LockAges, TypeOK, people
  <2>3. CASE People
    BY <2>3, PeopleTyped
  <2>4. ASSUME NEW j \in Job, JobStep(j) PROVE TypeOK'
    BY <2>4, EarlyStepTyped, DumpTyped, LateStepTyped DEF JobStep
  <2>5. CASE UNCHANGED vars
    BY <2>5 DEF vars, TypeOK
  <2> QED
    BY <2>1, <2>2, <2>3, <2>4, <2>5 DEF Next
<1> QED
  BY <1>1, InitTyped, PTL DEF Spec

-----------------------------------------------------------------------------
(* The lock.                                                               *)

\* A job at work that nobody robbed has its lock file on disk.
LockHeld == \A j \in Job : Inside(j) /\ j \notin robbed => lock # "free"

\* A step of one job leaves the others where they are.
LEMMA OneMoves ==
    ASSUME TypeOK, NEW j \in Job, NEW local, Become(j, local)
    PROVE  /\ job'[j] = local
           /\ \A k \in Job \ {j} : job'[k] = job[k]
BY DEF TypeOK, Become

\* Between its entry and its exit a job does not touch the lock.
LEMMA AtWorkSafe ==
    ASSUME TypeOK, LockHeld, OneAtATime, NEW j \in Job, NEW local,
           Become(j, local), Inside(j), UNCHANGED <<lock, robbed>>
    PROVE  LockHeld' /\ OneAtATime'
<1>1. \A k \in Job : Inside(k)' => Inside(k)
  BY OneMoves DEF Inside
<1> QED
  BY <1>1 DEF LockHeld, OneAtATime

\* A job that leaves takes the lock file with it, whoever's it is.
LEMMA LeavingSafe ==
    ASSUME TypeOK, LockHeld, OneAtATime, NEW j \in Job, NEW local,
           Become(j, local), local.pc \in {"idle", "child", "parent"},
           \/ lock' = "free" /\ robbed' = (robbed \cup Others(j)) \ {j}
           \/ lock' = lock /\ robbed' = robbed \ {j}
    PROVE  LockHeld' /\ OneAtATime'
<1>1. \A k \in Job : Inside(k)' => Inside(k) /\ k # j
  BY OneMoves DEF Inside
<1>2. \A k \in Job : Inside(k)' /\ k \in robbed => k \in robbed'
  BY <1>1
<1>3. LockHeld'
  <2>1. CASE lock' = "free" /\ robbed' = (robbed \cup Others(j)) \ {j}
    BY <1>1, <2>1 DEF LockHeld, Others
  <2>2. CASE lock' = lock /\ robbed' = robbed \ {j}
    BY <1>1, <2>2 DEF LockHeld
  <2> QED
    BY <2>1, <2>2
<1>4. OneAtATime'
  BY <1>1, <1>2 DEF OneAtATime
<1> QED
  BY <1>3, <1>4

\* A job that takes a lock either finds none, and then whoever is at work was
\* robbed before, or robs whoever is at work.
LEMMA EnterSafe ==
    ASSUME TypeOK, LockHeld, OneAtATime, NEW j \in Job, Enter(j) \/ TakeOver(j)
    PROVE  LockHeld' /\ OneAtATime'
<1>1. \A k \in Job \ {j} : Inside(k)' => Inside(k)
  BY OneMoves DEF Inside, Enter, TakeOver, Goto
<1>2. lock' = "held" /\ robbed \subseteq robbed'
  BY DEF Enter, TakeOver
<1>3. \A k \in Job \ {j} : Inside(k)' => k \in robbed'
  BY <1>1, <1>2 DEF Enter, TakeOver, LockIsFree, LockHeld, Others
<1>4. OneAtATime'
  BY <1>3 DEF OneAtATime
<1> QED
  BY <1>2, <1>4 DEF LockHeld

\* The lock file, and the jobs at work, whatever happens.
LEMMA LockHolds == Spec => [](LockHeld /\ OneAtATime)
<1> DEFINE Inv == TypeOK /\ LockHeld /\ OneAtATime
<1>1. Init => LockHeld /\ OneAtATime
  BY DEF Init, IdleJob, Inside, LockHeld, OneAtATime
<1>2. Inv /\ [Next]_vars => LockHeld' /\ OneAtATime'
  <2> SUFFICES ASSUME Inv, [Next]_vars PROVE LockHeld' /\ OneAtATime'
    OBVIOUS
  <2>1. CASE NextDay \/ LockAges \/ People
    <3>1. UNCHANGED <<job, robbed>> /\ lock' \in {lock, "stale"}
      BY <2>1 DEF NextDay, LockAges, People, HandStamp, Edit, Land, people
    <3> QED
      BY <3>1 DEF LockHeld, OneAtATime, Inside
  <2>2. ASSUME NEW j \in Job,
               \/ Fetch(j) \/ Load(j) \/ Dump(j) \/ Gates(j) \/ Commit(j)
               \/ Push(j) \/ PushRejected(j) \/ Replay(j) \/ Publish(j)
               \/ Raises(j)
        PROVE  LockHeld' /\ OneAtATime'
    <3>1. UNCHANGED <<lock, robbed>> /\ Inside(j)
      BY <2>2 DEF Inside, Fetch, Load, Dump, Gates, Commit, Push, PushRejected,
                  Replay, Publish, Raises
    <3>2. \E local : Become(j, local)
      BY <2>2, Zenon DEF Goto, Fetch, Load, Dump, Gates, Commit, Push,
                  PushRejected, AfterRejection, Replay, Publish, Raises
    <3> QED
      BY <3>1, <3>2, AtWorkSafe
  <2>3. ASSUME NEW j \in Job, Enter(j) \/ TakeOver(j) PROVE LockHeld' /\ OneAtATime'
    BY <2>3, EnterSafe
  <2>4. ASSUME NEW j \in Job, FindStale(j) \/ NothingToTakeOver(j) \/ Refused(j)
        PROVE  LockHeld' /\ OneAtATime'
    <3>1. \A k \in Job : Inside(k)' => Inside(k)
      <4> DEFINE local(pc) == [job[j] EXCEPT !.pc = pc]
      <4>1. \A pc : local(pc).pc = pc
        BY DEF TypeOK, JobType
      <4>2. \E pc \in {"takeover", "parent", "idle"} : Become(j, local(pc))
        BY <2>4 DEF FindStale, NothingToTakeOver, Refused, Goto
      <4> HIDE DEF local
      <4> QED
        BY <4>1, <4>2, OneMoves DEF Inside
    <3> QED
      BY <2>4, <3>1 DEF FindStale, NothingToTakeOver, Refused, LockHeld, OneAtATime
  <2>5. ASSUME NEW j \in Job, Relaunch(j) \/ Exit(j) \/ Kill(j)
        PROVE  LockHeld' /\ OneAtATime'
    <3> DEFINE child == [job[j] EXCEPT !.pc = "child", !.nested = TRUE]
               parent == [job[j] EXCEPT !.pc = "parent"]
    <3>1. child.pc = "child" /\ parent.pc = "parent" /\ IdleJob.pc = "idle"
      BY DEF TypeOK, JobType, IdleJob
    <3>2. Become(j, child) \/ Become(j, parent) \/ Become(j, IdleJob)
      BY <2>5 DEF Relaunch, Exit, Kill, Over, Goto
    <3>3. \/ lock' = "free" /\ robbed' = (robbed \cup Others(j)) \ {j}
          \/ lock' = lock /\ robbed' = robbed \ {j}
      BY <2>5 DEF Relaunch, Exit, Kill
    <3> HIDE DEF child, parent
    <3> QED
      BY <3>1, <3>2, <3>3, LeavingSafe
  <2>6. CASE UNCHANGED vars
    BY <2>6 DEF vars, LockHeld, OneAtATime, Inside
  <2> QED
    BY <2>1, <2>2, <2>3, <2>4, <2>5, <2>6 DEF Next, JobStep
<1>3. Spec => []TypeOK
  BY FilesTypeCorrect
<1> QED
  BY <1>1, <1>2, <1>3, PTL DEF Spec

\* job.py's lock keeps two jobs apart (OneAtATime), for any number of jobs,
\* whoever is killed, re-launched or refused, until one job loses its lock to
\* the six-hour rule, to the exit of another, or to one that found the same old
\* lock file.
THEOREM LockKeepsApart == Spec => []OneAtATime
BY LockHolds, PTL

-----------------------------------------------------------------------------
(* What the one job at work knows.  All of it holds as long as no lock has *)
(* been lost: two jobs in one worktree overwrite each other's files.       *)

AutomaticOn(doc, d) == {i \in Automatable \cap Cpa : doc.rec[i].date = d}
ByHandOn(doc, d) == {i \in Manual \cap Cpa : doc.rec[i].date = d}

\* A version of the data files that main may have had, up to day t.
Sound(doc, t) ==
    /\ \A i \in Rec : doc.rec[i].date <= t
    /\ \A i \in Cpa : doc.asOf <= doc.rec[i].date
    /\ \A d \in 1..t : /\ Cardinality(AutomaticOn(doc, d)) <= MaxShared - Margin
                       /\ Cardinality(ByHandOn(doc, d)) <= HandStamps

\* Every copy of the files, and the hand stamps of the day.
Copies ==
    /\ Sound(main, day) /\ Sound(tree.files, day) /\ Sound(tree.head, day)
    /\ Sound(tree.origin, day)
    /\ \A i \in Rec : tree.origin.rec[i].date <= main.rec[i].date

ByHand ==
    /\ day > 0
    /\ Cardinality(stamps) <= HandStamps
    /\ {i \in Manual : main.rec[i].date = day} \subseteq stamps

Found == {i \in Rec : found[i] # NoValue}

\* doc is main as it was, but for what others committed since.
Read(doc) ==
    /\ \A i \in Rec \ raced : doc.rec[i] = main.rec[i]
    /\ \A i \in Automatable : doc.rec[i].date = main.rec[i].date

\* The automatic cohort of day d, if a run stamps all of S then.
Cohort(doc, d, S) == {i \in Automatable \cap Cpa : doc.rec[i].date = d \/ i \in S}

Fits(j, S) ==
    /\ S \subseteq Automatable
    /\ Cardinality(Cohort(job[j].data, job[j].on, S)) <= MaxShared - Margin

\* doc keeps everything that old says, and stamps what the fetch confirmed.
Advances(old, doc) ==
    /\ doc.asOf >= old.asOf
    /\ \A i \in Rec :
         /\ doc.rec[i].val = old.rec[i].val
         /\ doc.rec[i].date >= old.rec[i].date
         /\ old.rec[i].gap = "held" => doc.rec[i] = old.rec[i]
         /\ doc.rec[i].date # old.rec[i].date => i \in Found /\ doc.rec[i].val = found[i]

\* What the results file and the pending status say of the run.
Results(j) ==
    \A i \in Rec :
        IF i \in Found
        THEN /\ found[i] = job[j].data.rec[i].val
             /\ Stampable(job[j].data.rec[i])
             /\ pending.seen[i] = job[j].on
        ELSE pending.seen[i] = job[j].data.rec[i].date

\* doc is ready for main.
Ready(doc) ==
    /\ ~tree.behind => Advances(main, doc)
    /\ \A i \in Rec \ raced : pending.seen[i] <= doc.rec[i].date

Dated(j) ==
    /\ Sound(job[j].data, day) /\ job[j].on <= day
    /\ \A i \in Rec : job[j].data.rec[i].date <= job[j].on

Work(j) ==
    /\ job[j].pc \in {"load", "dump", "gate", "commit"} => tree.head = tree.origin
    /\ job[j].pc = "load" => Read(tree.files) /\ (~tree.behind => tree.files = main)
    /\ job[j].pc = "dump" =>
         Read(job[j].data) /\ (~tree.behind => job[j].data = main) /\ Fits(j, job[j].todo)
    /\ job[j].pc \in {"gate", "commit", "push", "replay"} =>
         Read(job[j].data) /\ Fits(j, Found) /\ Results(j)
    /\ job[j].pc \in {"gate", "commit"} => Ready(tree.files)
    /\ job[j].pc = "push" => Ready(tree.head)
    /\ job[j].pc = "publish" /\ job[j].deployed =>
         \A i \in Rec \ raced : pending.seen[i] <= main.rec[i].date

\* The inductive invariant of all of it.
JobInv ==
    /\ Copies /\ ByHand /\ StatusIsLive
    /\ \A j \in Job : Dated(j) /\ Work(j)

-----------------------------------------------------------------------------
(* Counting records.                                                       *)

\* Records are finitely many, and of fewer there are no more.
LEMMA RecordsCounted ==
    ASSUME NEW S \in SUBSET Rec
    PROVE  /\ IsFiniteSet(S) /\ Cardinality(S) \in Nat
           /\ \A T \in SUBSET S : Cardinality(T) <= Cardinality(S)
<1>1. IsFiniteSet(S)
  BY RecordAssumption, FS_Subset
<1>2. Cardinality(S) \in Nat
  BY <1>1, FS_CardinalityType
<1>3. \A T \in SUBSET S : Cardinality(T) <= Cardinality(S)
  BY <1>1, FS_Subset
<1> QED
  BY <1>1, <1>2, <1>3

\* Older orders the records: by date, and by their tie-break on one date.
LEMMA OlderOrders ==
    ASSUME NEW doc \in Doc
    PROVE  \A i, k, l \in Rec :
             /\ ~ Older(doc, i, i)
             /\ i # k => Older(doc, i, k) \/ Older(doc, k, i)
             /\ Older(doc, i, k) /\ Older(doc, k, l) => Older(doc, i, l)
<1>1. \A i \in Rec : doc.rec[i].date \in Nat /\ i \in Nat
  BY RecordAssumption DEF Doc, RecordType
<1> QED
  BY <1>1 DEF Older

\* The n oldest are at most n: each has a rank of its own below n.
LEMMA OldestFew ==
    ASSUME NEW doc \in Doc, NEW S \in SUBSET Rec, NEW n \in Nat
    PROVE  Cardinality(Oldest(doc, S, n)) <= n
<1> DEFINE before(i) == {k \in S : Older(doc, k, i)}
           few == Oldest(doc, S, n)
           rank == [i \in few |-> Cardinality(before(i))]
           ranks == 0 .. n - 1
<1>1. \A i : before(i) \in SUBSET Rec /\ Cardinality(before(i)) \in Nat
  BY RecordsCounted
<1>2. few \subseteq S /\ \A i \in few : Cardinality(before(i)) < n
  BY DEF Oldest
<1>3. rank \in [few -> ranks]
  BY <1>1, <1>2
<1>4. ASSUME NEW i \in few, NEW k \in few, Older(doc, i, k)
      PROVE  rank[i] # rank[k]
  <2>1. before(i) \in SUBSET before(k) /\ i \in before(k) /\ i \notin before(i)
    <3>1. \A l \in before(i) : Older(doc, l, k)
      BY <1>2, <1>4, OlderOrders
    <3> QED
      BY <1>2, <1>4, <3>1, OlderOrders
  <2>2. IsFiniteSet(before(k))
    BY <1>1, RecordsCounted
  <2> HIDE DEF before, few
  <2>3. Cardinality(before(i)) # Cardinality(before(k))
    BY <2>1, <2>2, FS_Subset
  <2> QED
    BY <2>3
<1>5. \A i, k \in few : i # k => rank[i] # rank[k]
  <2>1. \A i, k \in few : i # k => Older(doc, i, k) \/ Older(doc, k, i)
    BY <1>2, OlderOrders
  <2> HIDE DEF few, rank
  <2> QED
    BY <1>4, <2>1
<1> HIDE DEF before, few, rank
<1>6. rank \in Injection(few, ranks)
  BY <1>3, <1>5 DEF Injection, IsInjective
<1>7. IsFiniteSet(ranks) /\ Cardinality(ranks) = n
  BY FS_Interval
<1>8. Cardinality(few) <= Cardinality(ranks)
  BY <1>6, <1>7, FS_Injection
<1> QED
  BY <1>7, <1>8 DEF few

\* cap_cpa: a run may stamp everything it selects, and its day still has the
\* margin left.
LEMMA SelectedFits ==
    ASSUME NEW doc \in Doc, NEW failing, NEW d \in Nat,
           Cardinality(AutomaticOn(doc, d)) <= MaxShared - Margin
    PROVE  /\ Selected(doc, failing, d) \subseteq Automatable
           /\ Cardinality(Cohort(doc, d, Selected(doc, failing, d)))
                  <= MaxShared - Margin
<1> DEFINE due == Tranche(doc, failing) \cup (failing \cap Automatable)
                      \cup {i \in Automatable : d - doc.rec[i].date > DueDays}
           moving == (due \cap Cpa) \ StampedOn(doc, d)
           room == Room(doc, d)
           moved == Oldest(doc, moving, room)
           cohort == Cohort(doc, d, Selected(doc, failing, d))
           left == StampCap + HandStamps - Cardinality(StampedOn(doc, d))
<1>1. due \subseteq Automatable
  <2>1. \A ds : Oldest(doc, ds \ failing, Quota(ds)) \subseteq ds
    BY DEF Oldest
  <2>2. Tranche(doc, failing) \subseteq Automatable
    BY <2>1 DEF Tranche
  <2> QED
    BY <2>2
<1>2. Selected(doc, failing, d) = (due \ moving) \cup moved
  BY DEF Selected, CapCpa
<1>3. moved \subseteq moving
  BY DEF Oldest
<1>4. Automatable \subseteq Rec
  BY DEF Automatable
<1> HIDE DEF due
<1>5. moving \in SUBSET Rec
  BY <1>1, <1>4
<1>6. StampedOn(doc, d) \in SUBSET Rec
  BY RecordAssumption DEF StampedOn
<1>7. left \in Int /\ room \in Nat
  BY <1>6, RecordsCounted, LimitAssumption DEF Room, StampCap
<1>8. Cardinality(moved) <= room
  BY <1>5, <1>7, OldestFew
<1>9. cohort \subseteq AutomaticOn(doc, d) \cup moved
  BY <1>1, <1>2 DEF AutomaticOn, StampedOn, Cohort
<1>10. /\ AutomaticOn(doc, d) \in SUBSET StampedOn(doc, d)
       /\ AutomaticOn(doc, d) \in SUBSET Rec /\ moved \in SUBSET Rec
  BY <1>3, <1>5, <1>6 DEF AutomaticOn, StampedOn
<1>11. Cardinality(cohort) <= Cardinality(AutomaticOn(doc, d)) + Cardinality(moved)
  <2> DEFINE A == AutomaticOn(doc, d)
             both == A \cup moved
  <2>1. /\ IsFiniteSet(A) /\ IsFiniteSet(moved)
        /\ Cardinality(A) \in Nat /\ Cardinality(moved) \in Nat
    BY <1>10, RecordsCounted
  <2>2. both \in SUBSET Rec /\ A \cap moved \in SUBSET Rec /\ cohort \in SUBSET both
    BY <1>9, <1>10
  <2> HIDE DEF A, moved, cohort
  <2>3. Cardinality(both) = Cardinality(A) + Cardinality(moved) - Cardinality(A \cap moved)
    BY <2>1, FS_Union
  <2> HIDE DEF both
  <2>4. /\ Cardinality(A \cap moved) \in Nat /\ Cardinality(both) \in Nat
        /\ Cardinality(cohort) <= Cardinality(both)
    BY <2>2, RecordsCounted
  <2>5. Cardinality(cohort) \in Nat
    <3>1. cohort \in SUBSET Rec
      BY <2>2
    <3> QED
      BY <3>1, RecordsCounted
  <2>6. Cardinality(cohort) <= Cardinality(A) + Cardinality(moved)
    BY <2>1, <2>3, <2>4, <2>5
  <2> QED
    BY <2>6 DEF A
<1>12. Cardinality(cohort) \in Nat
  <2>1. cohort \in SUBSET Rec
    BY <1>4 DEF Cohort
  <2> QED
    BY <2>1, RecordsCounted
<1>13. Cardinality(cohort) <= MaxShared - Margin
  <2>1. /\ Cardinality(AutomaticOn(doc, d)) <= Cardinality(StampedOn(doc, d))
        /\ Cardinality(AutomaticOn(doc, d)) \in Nat
        /\ Cardinality(StampedOn(doc, d)) \in Nat /\ Cardinality(moved) \in Nat
    BY <1>6, <1>10, RecordsCounted
  <2>2. /\ left < 0 => room = 0
        /\ left >= 0 => room <= left
    BY <1>7 DEF Room, StampCap
  <2>3. left = MaxShared - Margin - Cardinality(StampedOn(doc, d))
    BY <2>1, LimitAssumption DEF StampCap
  <2> HIDE DEF cohort, moved, room, left
  <2>4. CASE left < 0
    BY <1>8, <1>11, <1>12, <2>1, <2>2, <2>4, LimitAssumption
  <2>5. CASE left >= 0
    BY <1>7, <1>8, <1>11, <1>12, <2>1, <2>2, <2>3, <2>5, LimitAssumption
  <2> QED
    BY <1>7, <2>4, <2>5
<1> QED
  BY <1>1, <1>2, <1>3, <1>13

-----------------------------------------------------------------------------
(* What a stamping leaves true of the files.                               *)

LEMMA DocTyped ==
    ASSUME NEW doc \in Doc
    PROVE  /\ doc.asOf \in Nat
           /\ \A i \in Rec : /\ doc.rec[i] \in RecordType /\ doc.rec[i].date \in Nat
                             /\ doc.rec[i].val \in Value
BY DEF Doc, RecordType

\* Only the stamped records change, and only their date and their marker.
LEMMA StampRecords ==
    ASSUME NEW doc \in Doc, NEW S, NEW d \in Nat
    PROVE  \A i \in Rec :
             /\ Stamp(doc, S, d).rec[i].val = doc.rec[i].val
             /\ i \in S /\ Stampable(doc.rec[i]) =>
                  Stamp(doc, S, d).rec[i].date = d
             /\ i \notin S \/ ~ Stampable(doc.rec[i]) =>
                  Stamp(doc, S, d).rec[i] = doc.rec[i]
<1> DEFINE new == [i \in Rec |-> IF i \in S /\ Stampable(doc.rec[i])
                                 THEN Stamped(doc.rec[i], d) ELSE doc.rec[i]]
<1>1. WithAsOf([doc EXCEPT !.rec = new]).rec = new
  BY DEF WithAsOf, Doc
<1>2. Stamp(doc, S, d).rec = new
  BY <1>1 DEF Stamp
<1>3. \A i \in Rec : /\ Stamped(doc.rec[i], d).val = doc.rec[i].val
                     /\ Stamped(doc.rec[i], d).date = d
  BY DocTyped DEF Stamped, RecordType
<1> QED
  BY <1>2, <1>3

\* advance_as_of never moves the date back, nor past a record.
LEMMA StampAsOf ==
    ASSUME NEW doc \in Doc, NEW S, NEW d \in Nat,
           \A i \in Cpa : doc.asOf <= doc.rec[i].date,
           \A i \in S : i \in Rec => doc.rec[i].date <= d
    PROVE  /\ Stamp(doc, S, d).asOf >= doc.asOf
           /\ \A i \in Cpa : Stamp(doc, S, d).asOf <= Stamp(doc, S, d).rec[i].date
<1> DEFINE new == [doc EXCEPT !.rec =
                     [i \in Rec |-> IF i \in S /\ Stampable(doc.rec[i])
                                    THEN Stamped(doc.rec[i], d) ELSE doc.rec[i]]]
           later == {t \in {new.rec[i].date : i \in Cpa} :
                       /\ t > new.asOf
                       /\ \A i \in Cpa : t <= new.rec[i].date}
           out == Stamp(doc, S, d)
<1>1. out \in Doc
  BY StampTyped
<1>2. out.rec = new.rec
  BY DEF Stamp, WithAsOf, Doc
<1>3. new.asOf = doc.asOf
  BY DEF Doc
<1>4. out.asOf = IF later = {} THEN doc.asOf ELSE CHOOSE t \in later : TRUE
  BY <1>3 DEF Stamp, WithAsOf, Doc
<1>5. out.asOf = doc.asOf \/ out.asOf \in later
  <2> HIDE DEF later, out
  <2> QED
    BY <1>4
<1>6. \A i \in Cpa : doc.asOf <= out.rec[i].date
  <2>1. \A i \in Cpa : i \in Rec /\ doc.rec[i].date \in Nat /\ doc.asOf \in Nat
    BY RecordAssumption, DocTyped
  <2>2. \A i \in Cpa : out.rec[i] = doc.rec[i]
                       \/ (i \in S /\ out.rec[i].date = d)
    BY <2>1, StampRecords
  <2> HIDE DEF out
  <2> QED
    BY <2>1, <2>2
<1>7. CASE out.asOf = doc.asOf
  BY <1>6, <1>7, DocTyped
<1>8. CASE out.asOf \in later
  <2>1. out.asOf > new.asOf /\ \A i \in Cpa : out.asOf <= new.rec[i].date
    BY <1>8
  <2> HIDE DEF out, new
  <2>2. out.asOf \in Nat /\ doc.asOf \in Nat
    BY <1>1, DocTyped
  <2> QED
    BY <1>2, <1>3, <2>1, <2>2 DEF out
<1> QED
  BY <1>5, <1>7, <1>8

\* A stamping that its day has room for keeps the files sound.
LEMMA StampSound ==
    ASSUME NEW doc \in Doc, NEW t \in Nat, Sound(doc, t),
           NEW S \in SUBSET Automatable, NEW d \in Nat, d <= t,
           \A i \in S : doc.rec[i].date <= d,
           Cardinality(Cohort(doc, d, S)) <= MaxShared - Margin
    PROVE  Sound(Stamp(doc, S, d), t)
<1> DEFINE out == Stamp(doc, S, d)
           cohort == Cohort(doc, d, S)
<1>0. Automatable \subseteq Rec /\ out \in Doc /\ cohort \in SUBSET Rec
  BY StampTyped DEF Automatable, Cohort
<1>1. \A i \in Rec : out.rec[i] = doc.rec[i] \/ (i \in S /\ out.rec[i].date = d)
  BY StampRecords
<1>2. \A i \in Cpa : out.asOf <= out.rec[i].date
  BY StampAsOf DEF Sound
<1>3. \A i \in Rec : out.rec[i].date <= t
  BY <1>1, DocTyped DEF Sound
<1>4. ASSUME NEW e \in 1..t
      PROVE  /\ Cardinality(AutomaticOn(out, e)) <= MaxShared - Margin
             /\ Cardinality(ByHandOn(out, e)) <= HandStamps
  <2>1. ByHandOn(out, e) = ByHandOn(doc, e)
    BY <1>1, RecordAssumption DEF ByHandOn, Automatable
  <2>2. AutomaticOn(out, e) \in SUBSET cohort \/ AutomaticOn(out, e) \in SUBSET AutomaticOn(doc, e)
    BY <1>0, <1>1 DEF AutomaticOn, Cohort
  <2>3. AutomaticOn(doc, e) \in SUBSET Rec
    BY <1>0 DEF AutomaticOn
  <2> DEFINE A == AutomaticOn(out, e)
             B == AutomaticOn(doc, e)
  <2>4. A \in SUBSET Rec
    BY <1>0 DEF AutomaticOn
  <2>5. Cardinality(B) <= MaxShared - Margin /\ Cardinality(ByHandOn(doc, e)) <= HandStamps
    BY DEF Sound
  <2> HIDE DEF A, B, cohort
  <2>6. /\ Cardinality(cohort) \in Nat /\ Cardinality(A) \in Nat /\ Cardinality(B) \in Nat
        /\ Cardinality(A) <= Cardinality(cohort) \/ Cardinality(A) <= Cardinality(B)
    <3>1. B \in SUBSET Rec /\ (A \in SUBSET cohort \/ A \in SUBSET B)
      BY <2>2, <2>3 DEF A, B
    <3> QED
      BY <1>0, <2>4, <3>1, RecordsCounted
  <2>7. Cardinality(cohort) <= MaxShared - Margin
    BY DEF cohort
  <2>8. Cardinality(A) <= MaxShared - Margin
    BY <2>5, <2>6, <2>7, LimitAssumption
  <2> QED
    BY <2>1, <2>5, <2>8 DEF A
<1> QED
  BY <1>2, <1>3, <1>4 DEF Sound

\* A new day starts with an empty cohort.
LEMMA SoundTomorrow ==
    ASSUME NEW doc \in Doc, NEW t \in Nat, Sound(doc, t)
    PROVE  Sound(doc, t + 1)
<1>1. \A i \in Rec : doc.rec[i].date <= t /\ doc.rec[i].date \in Nat
  BY DocTyped DEF Sound
<1>2. AutomaticOn(doc, t + 1) = {} /\ ByHandOn(doc, t + 1) = {}
  <2>1. \A i \in Rec : doc.rec[i].date # t + 1
    BY <1>1
  <2> QED
    BY <2>1, RecordAssumption DEF AutomaticOn, ByHandOn, Automatable
<1>3. Cardinality({}) <= MaxShared - Margin /\ Cardinality({}) <= HandStamps
  BY FS_EmptySet, LimitAssumption
<1>4. \A d \in 1 .. t + 1 : d \in 1 .. t \/ d = t + 1
  OBVIOUS
<1>5. \A d \in 1 .. t + 1 : /\ Cardinality(AutomaticOn(doc, d)) <= MaxShared - Margin
                            /\ Cardinality(ByHandOn(doc, d)) <= HandStamps
  BY <1>2, <1>3, <1>4 DEF Sound
<1>6. \A i \in Rec : doc.rec[i].date <= t + 1
  BY <1>1
<1> QED
  BY <1>5, <1>6 DEF Sound

\* Someone else's commit keeps main sound.
LEMMA LandSound ==
    ASSUME NEW doc \in Doc, NEW t \in Nat, Sound(doc, t), NEW i \in Rec,
           NEW r \in RecordType, NEW new \in Doc, new = [doc EXCEPT !.rec[i] = r],
           \/ r.date = doc.rec[i].date
           \/ /\ i \in Manual /\ r.date = t
              /\ Cardinality({k \in Manual : new.rec[k].date = t}) <= HandStamps
    PROVE  Sound(new, t)
<1>1. /\ new.asOf = doc.asOf /\ new.rec[i] = r
      /\ \A k \in Rec \ {i} : new.rec[k] = doc.rec[k]
  BY DEF Doc
<1>2. \A k \in Rec : new.rec[k].date \in Nat /\ doc.rec[k].date \in Nat
  BY DocTyped
<1>3. \A k \in Rec : doc.rec[k].date <= t
  BY DEF Sound
<1>4. \A k \in Rec : new.rec[k].date <= t /\ new.rec[k].date >= doc.rec[k].date
  BY <1>1, <1>2, <1>3
<1>5. \A k \in Cpa : new.asOf <= new.rec[k].date
  BY <1>1, <1>2, <1>4, RecordAssumption, DocTyped DEF Sound
<1>6. ASSUME NEW d \in 1..t
      PROVE  /\ Cardinality(AutomaticOn(new, d)) <= MaxShared - Margin
             /\ Cardinality(ByHandOn(new, d)) <= HandStamps
  <2>1. AutomaticOn(new, d) = AutomaticOn(doc, d)
    BY <1>1 DEF AutomaticOn, Automatable
  <2>2. \/ ByHandOn(new, d) \in SUBSET ByHandOn(doc, d)
        \/ /\ ByHandOn(new, d) \in SUBSET {k \in Manual : new.rec[k].date = t}
           /\ Cardinality({k \in Manual : new.rec[k].date = t}) <= HandStamps
    BY <1>1, RecordAssumption DEF ByHandOn
  <2>3. /\ ByHandOn(doc, d) \in SUBSET Rec /\ ByHandOn(new, d) \in SUBSET Rec
        /\ {k \in Manual : new.rec[k].date = t} \in SUBSET Rec
    BY RecordAssumption DEF ByHandOn
  <2> DEFINE A == ByHandOn(doc, d)
             B == ByHandOn(new, d)
             C == {k \in Manual : new.rec[k].date = t}
  <2>4. Cardinality(A) <= HandStamps
    BY DEF Sound
  <2> HIDE DEF A, B, C
  <2>5. /\ Cardinality(A) \in Nat /\ Cardinality(B) \in Nat /\ Cardinality(C) \in Nat
        /\ \/ Cardinality(B) <= Cardinality(A)
           \/ Cardinality(B) <= Cardinality(C) /\ Cardinality(C) <= HandStamps
    <3>1. \/ B \in SUBSET A
          \/ B \in SUBSET C /\ Cardinality(C) <= HandStamps
      BY <2>2 DEF A, B, C
    <3>2. A \in SUBSET Rec /\ B \in SUBSET Rec /\ C \in SUBSET Rec
      BY <2>3 DEF A, B, C
    <3> QED
      BY <3>1, <3>2, RecordsCounted
  <2>6. Cardinality(B) <= HandStamps
    BY <2>4, <2>5, LimitAssumption
  <2> QED
    BY <2>1, <2>6 DEF B, Sound
<1> QED
  BY <1>4, <1>5, <1>6 DEF Sound

-----------------------------------------------------------------------------
(* The steps of a job that keeps its lock.                                 *)

\* Of a job that is not at work nothing is asked.
LEMMA IdleWorks ==
    ASSUME NEW k \in Job, ~ Inside(k)'
    PROVE  Work(k)'
BY DEF Inside, Work

\* While one job works, the others do nothing.
LEMMA OthersKeep ==
    ASSUME TypeOK, JobInv, OneAtATime', robbed' = {}, NEW j \in Job, NEW local,
           Become(j, local), Inside(j)', day' = day
    PROVE  \A k \in Job \ {j} : Dated(k)' /\ Work(k)'
<1>1. \A k \in Job \ {j} : ~ Inside(k)'
  BY DEF OneAtATime
<1>2. \A k \in Job \ {j} : Work(k)'
  BY <1>1, IdleWorks
<1>3. \A k \in Job \ {j} : job'[k] = job[k]
  BY OneMoves
<1>4. \A k \in Job \ {j} : Dated(k)'
  BY <1>3 DEF JobInv, Dated
<1> QED
  BY <1>2, <1>4

\* What a job's move leaves of its locals.
LEMMA GotoLocals ==
    ASSUME TypeOK, NEW j \in Job, NEW pc, Goto(j, pc)
    PROVE  /\ \E local : Become(j, local)
           /\ job'[j].pc = pc /\ job'[j].data = job[j].data
           /\ job'[j].on = job[j].on /\ job'[j].todo = job[j].todo
<1> DEFINE local == [job[j] EXCEPT !.pc = pc]
<1>1. /\ local.pc = pc /\ local.data = job[j].data
      /\ local.on = job[j].on /\ local.todo = job[j].todo
  BY DEF TypeOK, JobType
<1>2. Become(j, local)
  BY DEF Goto
<1> HIDE DEF local
<1> QED
  BY <1>1, <1>2, OneMoves

\* The lock is taken.
LEMMA EnterKeeps ==
    ASSUME TypeOK, JobInv, OneAtATime', robbed' = {}, NEW j \in Job,
           Enter(j) \/ TakeOver(j)
    PROVE  JobInv'
<1>1. Goto(j, "fetch") /\ UNCHANGED <<day, main, tree, found, pending, status, people>>
  BY DEF Enter, TakeOver
<1>2. /\ \E local : Become(j, local)
      /\ job'[j].pc = "fetch" /\ job'[j].data = job[j].data /\ job'[j].on = job[j].on
  BY <1>1, GotoLocals
<1>3. Dated(j)' /\ Work(j)'
  BY <1>1, <1>2 DEF JobInv, Dated, Work
<1>4. Inside(j)'
  BY <1>2 DEF Inside
<1>5. \A k \in Job : Dated(k)' /\ Work(k)'
  BY <1>1, <1>2, <1>3, <1>4, OthersKeep
<1> QED
  BY <1>1, <1>5 DEF JobInv, Copies, ByHand, StatusIsLive, people

\* The worktree is reset to main.
LEMMA CleanCopies ==
    ASSUME TypeOK, Copies, tree' = CleanTree, UNCHANGED <<main, day>>
    PROVE  Copies'
<1>1. tree'.files = main /\ tree'.head = main /\ tree'.origin = main
  BY DEF CleanTree
<1>2. \A i \in Rec : main.rec[i].date <= main.rec[i].date
  BY DocTyped DEF TypeOK
<1> QED
  BY <1>1, <1>2 DEF Copies

LEMMA FetchKeeps ==
    ASSUME TypeOK, JobInv, OneAtATime', robbed' = {}, NEW j \in Job, Fetch(j)
    PROVE  JobInv'
<1>1. /\ Goto(j, "load") /\ tree' = CleanTree
      /\ UNCHANGED <<day, main, found, status, people>>
  BY DEF Fetch
<1>2. /\ \E local : Become(j, local)
      /\ job'[j].pc = "load" /\ job'[j].data = job[j].data /\ job'[j].on = job[j].on
  BY <1>1, GotoLocals
<1>3. Dated(j)'
  BY <1>1, <1>2 DEF JobInv, Dated
<1>4. Work(j)'
  <2>1. tree'.files = main /\ tree'.head = main /\ tree'.origin = main
    BY <1>1 DEF CleanTree
  <2> QED
    BY <1>1, <1>2, <2>1 DEF Work, Read, people
<1>5. Inside(j)'
  BY <1>2 DEF Inside
<1>6. \A k \in Job : Dated(k)' /\ Work(k)'
  BY <1>1, <1>2, <1>3, <1>4, <1>5, OthersKeep
<1> QED
  BY <1>1, <1>6, CleanCopies DEF JobInv, ByHand, StatusIsLive, people

\* The records are selected.
LEMMA LoadKeeps ==
    ASSUME TypeOK, JobInv, OneAtATime', robbed' = {}, NEW j \in Job, Load(j)
    PROVE  JobInv'
<1> DEFINE todo == Selected(tree.files, pending.failing, day)
           local == [job[j] EXCEPT !.pc = "dump", !.data = tree.files, !.on = day,
                                   !.todo = todo]
<1>1. /\ job[j].pc = "load" /\ Become(j, local)
      /\ UNCHANGED <<day, main, tree, found, pending, status, people>>
  BY DEF Load
<1>2. job'[j] = local
  BY <1>1, OneMoves
<1>3. /\ job'[j].pc = "dump" /\ job'[j].data = tree.files /\ job'[j].on = day
      /\ job'[j].todo = todo
  BY <1>2 DEF TypeOK, JobType
<1>4. tree.files \in Doc /\ Sound(tree.files, day) /\ day \in Nat /\ day > 0
  BY DEF TypeOK, TreeType, JobInv, Copies, ByHand
<1> HIDE DEF local, todo
<1>5. Dated(j)'
  BY <1>1, <1>3, <1>4 DEF Dated, Sound
<1>6. Fits(j, job[j].todo)'
  <2>1. Cardinality(AutomaticOn(tree.files, day)) <= MaxShared - Margin
    BY <1>4 DEF Sound
  <2>2. /\ todo \subseteq Automatable
        /\ Cardinality(Cohort(tree.files, day, todo)) <= MaxShared - Margin
    BY <1>4, <2>1, SelectedFits DEF todo
  <2> QED
    BY <1>3, <2>2 DEF Fits
<1>7. Work(j)'
  BY <1>1, <1>3, <1>6 DEF JobInv, Work, Read, people
<1>8. Inside(j)'
  BY <1>3 DEF Inside
<1>9. \A k \in Job : Dated(k)' /\ Work(k)'
  BY <1>1, <1>5, <1>7, <1>8, OthersKeep
<1> QED
  BY <1>1, <1>9 DEF JobInv, Copies, ByHand, StatusIsLive, people

\* Stamping fewer records fills the day no further.
LEMMA FewerFit ==
    ASSUME NEW doc, NEW d, NEW S, NEW T \in SUBSET S,
           Cardinality(Cohort(doc, d, S)) <= MaxShared - Margin
    PROVE  Cardinality(Cohort(doc, d, T)) <= MaxShared - Margin
<1> DEFINE A == Cohort(doc, d, S)
           B == Cohort(doc, d, T)
<1>1. A \in SUBSET Rec /\ B \in SUBSET A
  BY DEF Automatable, Cohort
<1> HIDE DEF A, B
<1>2. /\ Cardinality(A) \in Nat /\ Cardinality(B) \in Nat
      /\ Cardinality(B) <= Cardinality(A)
  BY <1>1, RecordsCounted
<1>3. Cardinality(A) <= MaxShared - Margin
  BY DEF A
<1>4. Cardinality(B) <= MaxShared - Margin
  BY <1>2, <1>3, LimitAssumption
<1> QED
  BY <1>4 DEF B

\* What the fetches confirmed is in the data, the results and the status.
LEMMA DumpKeeps ==
    ASSUME TypeOK, JobInv, OneAtATime', robbed' = {}, NEW j \in Job, Dump(j)
    PROVE  JobInv'
<1> DEFINE todo == job[j].todo
           old == job[j].data
           on == job[j].on
<1>1. /\ job[j].pc = "dump"
      /\ UNCHANGED <<day, main, lock, status, people, robbed>>
  BY DEF Dump
<1>2. PICK good \in SUBSET todo, bad \in SUBSET todo :
          LET ok == {i \in good : Stampable(old.rec[i])}
              new == Stamp(old, good, on)
          IN  /\ tree' = [tree EXCEPT !.files = new]
              /\ found' = [i \in Rec |-> IF i \in ok THEN old.rec[i].val
                                                     ELSE NoValue]
              /\ pending' = [pending EXCEPT
                               !.seen = Dates(new),
                               !.failing = (@ \ ok) \cup bad]
              /\ IF new = tree.head
                 THEN Become(j, [job[j] EXCEPT !.pc = "publish", !.todo = {},
                                               !.deployed = TRUE])
                 ELSE Become(j, [job[j] EXCEPT !.pc = "gate", !.todo = {}])
  BY Zenon DEF Dump
<1> DEFINE ok == {i \in good : Stampable(old.rec[i])}
           new == Stamp(old, good, on)
           done == [job[j] EXCEPT !.pc = "publish", !.todo = {}, !.deployed = TRUE]
           more == [job[j] EXCEPT !.pc = "gate", !.todo = {}]
<1>3. /\ old \in Doc /\ on \in Nat /\ todo \subseteq Rec /\ day \in Nat
      /\ Sound(old, day) /\ on <= day /\ \A i \in Rec : old.rec[i].date <= on
  BY DEF TypeOK, JobType, JobInv, Dated
<1>4. /\ tree.head = tree.origin /\ Read(old) /\ (~tree.behind => old = main)
      /\ Fits(j, todo)
  BY <1>1 DEF JobInv, Work
<1>5. new \in Doc
  BY <1>3, StampTyped
<1>6. \A i \in Rec :
        /\ new.rec[i].val = old.rec[i].val
        /\ i \in ok => new.rec[i].date = on
        /\ i \notin ok => new.rec[i] = old.rec[i]
  <2>1. \A i \in Rec : i \notin ok => i \notin good \/ ~ Stampable(old.rec[i])
    OBVIOUS
  <2> QED
    BY <1>3, <2>1, StampRecords
<1>7. /\ good \in SUBSET Automatable /\ \A i \in good : old.rec[i].date <= on
      /\ Cardinality(Cohort(old, on, good)) <= MaxShared - Margin
  BY <1>3, <1>4, FewerFit DEF Fits
<1>8. Sound(new, day)
  BY <1>3, <1>7, StampSound
<1>9. new.asOf >= old.asOf
  BY <1>3, StampAsOf DEF Sound
<1>10. /\ tree'.files = new /\ tree'.head = tree.head /\ tree'.origin = tree.origin
       /\ tree'.behind = tree.behind
  BY <1>2 DEF TypeOK, TreeType
<1>11. pending'.seen = Dates(new)
  BY <1>2 DEF TypeOK, StatusType
<1>12. \A i \in Rec : pending'.seen[i] = new.rec[i].date
  BY <1>11 DEF Dates
<1>13. found' = [i \in Rec |-> IF i \in ok THEN old.rec[i].val ELSE NoValue]
  BY <1>2
<1>14. \A i \in Rec : i \in Found' <=> i \in ok
  BY <1>3, <1>13, RecordAssumption, DocTyped DEF Found
<1>15. /\ done.pc = "publish" /\ done.data = old /\ done.on = on
       /\ more.pc = "gate" /\ more.data = old /\ more.on = on
  BY DEF TypeOK, JobType
<1>16. \/ new = tree.head /\ Become(j, done)
       \/ Become(j, more)
  BY <1>2
<1> HIDE DEF done, more, new, ok
<1>17. /\ \E local : Become(j, local)
       /\ job'[j].data = old /\ job'[j].on = on
       /\ \/ job'[j].pc = "publish" /\ new = tree.head
          \/ job'[j].pc = "gate"
  BY <1>15, <1>16, OneMoves
<1>18. Dated(j)'
  BY <1>1, <1>3, <1>17 DEF Dated
<1>19. Copies'
  BY <1>1, <1>8, <1>10 DEF JobInv, Copies
<1>20. raced' = raced /\ main' = main
  BY <1>1 DEF people
<1>21. CASE job'[j].pc = "publish" /\ new = tree.head
  <2>1. \A i \in Rec : pending'.seen[i] <= main.rec[i].date
    BY <1>4, <1>12, <1>21 DEF JobInv, Copies
  <2>2. Work(j)'
    BY <1>20, <1>21, <2>1 DEF Work
  <2>3. Inside(j)'
    BY <1>21 DEF Inside
  <2>4. \A k \in Job : Dated(k)' /\ Work(k)'
    BY <1>1, <1>17, <1>18, <2>2, <2>3, OthersKeep
  <2> QED
    BY <1>1, <1>19, <2>4 DEF JobInv, ByHand, StatusIsLive, people
<1>22. CASE job'[j].pc = "gate"
  <2>1. Read(job[j].data)'
    BY <1>4, <1>17, <1>20 DEF Read
  <2>2. Fits(j, Found)'
    <3>1. Found' = ok
      BY <1>3, <1>14 DEF Found, ok
    <3>2. ok \in SUBSET good
      BY DEF ok
    <3>3. Cardinality(Cohort(old, on, ok)) <= MaxShared - Margin
      BY <1>7, <3>2, FewerFit
    <3> QED
      BY <1>7, <1>17, <3>1, <3>2, <3>3 DEF Fits
  <2>3. Results(j)'
    <3>1. \A i \in ok : found'[i] = old.rec[i].val /\ Stampable(old.rec[i])
      BY <1>3, <1>13 DEF ok
    <3> QED
      BY <1>6, <1>12, <1>14, <1>17, <3>1 DEF Results
  <2>4. Ready(tree.files)'
    <3>1. \A i \in Rec : pending'.seen[i] <= new.rec[i].date
      BY <1>5, <1>12, DocTyped
    <3>2. ASSUME ~ tree.behind
          PROVE  \A i \in Rec :
                   /\ new.rec[i].val = main.rec[i].val
                   /\ new.rec[i].date >= main.rec[i].date
                   /\ main.rec[i].gap = "held" => new.rec[i] = main.rec[i]
                   /\ new.rec[i].date # main.rec[i].date =>
                        i \in Found' /\ new.rec[i].val = found'[i]
      <4>1. old = main
        BY <1>4, <3>2
      <4>2. TAKE i \in Rec
      <4>3. main.rec[i].date \in Nat /\ main.rec[i].date <= on
        BY <1>3, <4>1, DocTyped
      <4>4. CASE i \in ok
        BY <1>3, <1>6, <1>13, <1>14, <4>1, <4>3, <4>4 DEF ok, Stampable
      <4>5. CASE i \notin ok
        BY <1>6, <4>1, <4>3, <4>5
      <4> QED
        BY <4>4, <4>5
    <3> QED
      BY <1>4, <1>9, <1>10, <1>20, <3>1, <3>2 DEF Ready, Advances
  <2>5. Work(j)'
    BY <1>4, <1>10, <1>22, <2>1, <2>2, <2>3, <2>4 DEF Work
  <2>6. Inside(j)'
    BY <1>22 DEF Inside
  <2>7. \A k \in Job : Dated(k)' /\ Work(k)'
    BY <1>1, <1>17, <1>18, <2>5, <2>6, OthersKeep
  <2> QED
    BY <1>1, <1>19, <2>7 DEF JobInv, ByHand, StatusIsLive, people
<1> QED
  BY <1>17, <1>21, <1>22

\* The gates let the files pass, put them back, or find nothing new.
LEMMA GatesKeep ==
    ASSUME TypeOK, JobInv, OneAtATime', robbed' = {}, NEW j \in Job, Gates(j)
    PROVE  JobInv'
<1> DEFINE out(b) == [job[j] EXCEPT !.pc = "publish", !.deployed = b]
<1>1. job[j].pc = "gate" /\ UNCHANGED <<day, main, found, pending, status, people>>
  BY DEF Gates
<1>2. /\ tree.head = tree.origin /\ Read(job[j].data) /\ Fits(j, Found)
      /\ Results(j) /\ Ready(tree.files)
  BY <1>1 DEF JobInv, Work
<1>3. \A b \in BOOLEAN : /\ out(b).pc = "publish" /\ out(b).deployed = b
                         /\ out(b).data = job[j].data /\ out(b).on = job[j].on
  BY DEF TypeOK, JobType
<1>4. \/ tree.files = tree.head /\ tree' = tree /\ Become(j, out(TRUE))
      \/ tree' = tree /\ Goto(j, "commit")
      \/ tree' = [tree EXCEPT !.files = tree.head] /\ Become(j, out(FALSE))
  BY DEF Gates
<1> HIDE DEF out
<1>5. /\ tree'.head = tree.head /\ tree'.origin = tree.origin
      /\ tree'.behind = tree.behind
      /\ tree'.files \in {tree.files, tree.head}
  BY <1>4 DEF TypeOK, TreeType
<1>6. Copies'
  BY <1>1, <1>5 DEF JobInv, Copies
<1>7. /\ \E local : Become(j, local)
      /\ job'[j].data = job[j].data /\ job'[j].on = job[j].on
      /\ \/ /\ tree.files = tree.head /\ tree' = tree
            /\ job'[j].pc = "publish" /\ job'[j].deployed
         \/ tree' = tree /\ job'[j].pc = "commit"
         \/ job'[j].pc = "publish" /\ ~ job'[j].deployed
  <2>1. CASE tree.files = tree.head /\ tree' = tree /\ Become(j, out(TRUE))
    BY <1>3, <2>1, OneMoves
  <2>2. CASE tree' = tree /\ Goto(j, "commit")
    BY <2>2, GotoLocals
  <2>3. CASE Become(j, out(FALSE))
    BY <1>3, <2>3, OneMoves
  <2> QED
    BY <1>4, <2>1, <2>2, <2>3
<1>8. Inside(j)'
  BY <1>7 DEF Inside
<1>9. Dated(j)'
  BY <1>1, <1>7 DEF JobInv, Dated
<1>10. raced' = raced
  BY <1>1 DEF people
<1>11. Work(j)'
  <2>1. CASE tree.files = tree.head /\ job'[j].pc = "publish" /\ job'[j].deployed
    <3>1. \A i \in Rec \ raced : /\ pending.seen[i] <= tree.origin.rec[i].date
                                 /\ tree.origin.rec[i].date <= main.rec[i].date
      BY <1>2, <2>1 DEF JobInv, Copies, Ready
    <3>2. \A i \in Rec : /\ pending.seen[i] \in Nat
                         /\ tree.origin.rec[i].date \in Nat
                         /\ main.rec[i].date \in Nat
      BY DocTyped DEF TypeOK, StatusType, TreeType
    <3>3. \A i \in Rec \ raced : pending.seen[i] <= main.rec[i].date
      BY <3>1, <3>2
    <3> QED
      BY <1>1, <1>10, <2>1, <3>3 DEF Work
  <2>2. CASE tree' = tree /\ job'[j].pc = "commit"
    <3>1. Read(job[j].data)' /\ Ready(tree.files)'
      BY <1>1, <1>2, <1>7, <1>10, <2>2 DEF Read, Ready, Advances, Found
    <3>2. Fits(j, Found)' /\ Results(j)'
      BY <1>1, <1>2, <1>7 DEF Fits, Results, Found
    <3> QED
      BY <1>2, <2>2, <3>1, <3>2 DEF Work
  <2>3. CASE job'[j].pc = "publish" /\ ~ job'[j].deployed
    BY <2>3 DEF Work
  <2> QED
    BY <1>7, <2>1, <2>2, <2>3
<1>12. \A k \in Job : Dated(k)' /\ Work(k)'
  BY <1>1, <1>7, <1>8, <1>9, <1>11, OthersKeep
<1> QED
  BY <1>1, <1>6, <1>12 DEF JobInv, ByHand, StatusIsLive, people

LEMMA CommitKeeps ==
    ASSUME TypeOK, JobInv, OneAtATime', robbed' = {}, NEW j \in Job, Commit(j)
    PROVE  JobInv'
<1>1. /\ job[j].pc = "commit" /\ Goto(j, "push")
      /\ tree' = [tree EXCEPT !.head = tree.files]
      /\ UNCHANGED <<day, main, found, pending, status, people>>
  BY DEF Commit
<1>2. Read(job[j].data) /\ Fits(j, Found) /\ Results(j) /\ Ready(tree.files)
  BY <1>1 DEF JobInv, Work
<1>3. /\ \E local : Become(j, local)
      /\ job'[j].pc = "push" /\ job'[j].data = job[j].data /\ job'[j].on = job[j].on
  BY <1>1, GotoLocals
<1>4. /\ tree'.head = tree.files /\ tree'.files = tree.files
      /\ tree'.origin = tree.origin /\ tree'.behind = tree.behind
  BY <1>1 DEF TypeOK, TreeType
<1>5. raced' = raced
  BY <1>1 DEF people
<1>6. Read(job[j].data)' /\ Fits(j, Found)' /\ Results(j)'
  BY <1>1, <1>2, <1>3, <1>5 DEF Read, Fits, Results, Found
<1>7. Ready(tree.head)'
  BY <1>1, <1>2, <1>4, <1>5 DEF Ready, Advances, Found
<1>8. Work(j)'
  BY <1>3, <1>6, <1>7 DEF Work
<1>9. Inside(j)'
  BY <1>3 DEF Inside
<1>10. Dated(j)'
  BY <1>1, <1>3 DEF JobInv, Dated
<1>11. \A k \in Job : Dated(k)' /\ Work(k)'
  BY <1>1, <1>3, <1>8, <1>9, <1>10, OthersKeep
<1> QED
  BY <1>1, <1>4, <1>11 DEF JobInv, Copies, ByHand, StatusIsLive, people

\* The push puts the stamped files on main.
LEMMA PushKeeps ==
    ASSUME TypeOK, JobInv, OneAtATime', robbed' = {}, NEW j \in Job, Push(j)
    PROVE  JobInv' /\ Advances(main, main')
<1> DEFINE local == [job[j] EXCEPT !.pc = "publish", !.deployed = TRUE]
<1>1. /\ job[j].pc = "push" /\ ~ tree.behind /\ main' = tree.head
      /\ tree' = [tree EXCEPT !.origin = tree.head, !.behind = FALSE]
      /\ Become(j, local)
      /\ UNCHANGED <<day, found, pending, status, people>>
  BY DEF Push, FastForward
<1>2. Fits(j, Found) /\ Ready(tree.head)
  BY <1>1 DEF JobInv, Work
<1>3. Advances(main, main')
  BY <1>1, <1>2 DEF Ready
<1>4. job'[j] = local
  BY <1>1, OneMoves
<1>5. /\ job'[j].pc = "publish" /\ job'[j].data = job[j].data /\ job'[j].on = job[j].on
  BY <1>4 DEF TypeOK, JobType
<1>6. /\ tree'.files = tree.files /\ tree'.head = main' /\ tree'.origin = main'
  BY <1>1 DEF TypeOK, TreeType
<1>7. \A i \in Rec : /\ main.rec[i].date \in Nat /\ main'.rec[i].date \in Nat
                     /\ main.rec[i].date <= main'.rec[i].date
  BY <1>1, <1>3, DocTyped DEF Advances, TypeOK, TreeType
<1>8. Copies'
  BY <1>1, <1>6, <1>7 DEF JobInv, Copies
<1>9. raced' = raced /\ stamps' = stamps
  BY <1>1 DEF people
<1>10. ByHand'
  <2>1. \A i \in Manual : main'.rec[i].date = main.rec[i].date
    BY <1>2, <1>3, RecordAssumption DEF Advances, Fits, Automatable
  <2> QED
    BY <1>1, <1>9, <2>1 DEF JobInv, ByHand
<1>11. StatusIsLive'
  <2>1. \A i \in Rec : status.seen[i] \in Nat
    BY DEF TypeOK, StatusType
  <2> QED
    BY <1>1, <1>7, <1>9, <2>1 DEF JobInv, StatusIsLive
<1>12. Work(j)'
  BY <1>1, <1>2, <1>5, <1>9 DEF Work, Ready
<1>13. Inside(j)'
  BY <1>5 DEF Inside
<1>14. Dated(j)'
  BY <1>1, <1>5 DEF JobInv, Dated
<1>15. \A k \in Job : Dated(k)' /\ Work(k)'
  BY <1>1, <1>12, <1>13, <1>14, OthersKeep
<1> QED
  BY <1>3, <1>8, <1>10, <1>11, <1>15 DEF JobInv

LEMMA PushRejectedKeeps ==
    ASSUME TypeOK, JobInv, OneAtATime', robbed' = {}, NEW j \in Job, PushRejected(j)
    PROVE  JobInv'
<1> DEFINE again == [job[j] EXCEPT !.pc = "replay", !.try = @ + 1]
           gone == [job[j] EXCEPT !.pc = "publish", !.deployed = FALSE]
<1>1. /\ job[j].pc = "push"
      /\ UNCHANGED <<day, main, tree, found, pending, status, people>>
      /\ Become(j, again) \/ Become(j, gone)
  BY DEF PushRejected, AfterRejection
<1>2. Read(job[j].data) /\ Fits(j, Found) /\ Results(j)
  BY <1>1 DEF JobInv, Work
<1>3. /\ again.pc = "replay" /\ again.data = job[j].data /\ again.on = job[j].on
      /\ gone.pc = "publish" /\ gone.data = job[j].data /\ gone.on = job[j].on
      /\ ~ gone.deployed
  BY DEF TypeOK, JobType
<1> HIDE DEF again, gone
<1>4. /\ \E local : Become(j, local)
      /\ job'[j].data = job[j].data /\ job'[j].on = job[j].on
      /\ \/ job'[j].pc = "replay"
         \/ job'[j].pc = "publish" /\ ~ job'[j].deployed
  BY <1>1, <1>3, OneMoves
<1>5. raced' = raced
  BY <1>1 DEF people
<1>6. Read(job[j].data)' /\ Fits(j, Found)' /\ Results(j)'
  BY <1>1, <1>2, <1>4, <1>5 DEF Read, Fits, Results, Found
<1>7. Work(j)'
  BY <1>4, <1>6 DEF Work
<1>8. Inside(j)'
  BY <1>4 DEF Inside
<1>9. Dated(j)'
  BY <1>1, <1>4 DEF JobInv, Dated
<1>10. \A k \in Job : Dated(k)' /\ Work(k)'
  BY <1>1, <1>4, <1>7, <1>8, <1>9, OthersKeep
<1> QED
  BY <1>1, <1>10 DEF JobInv, Copies, ByHand, StatusIsLive, people

\* The saved confirmations are put on the new main, or the run gives up.
LEMMA ReplayKeeps ==
    ASSUME TypeOK, JobInv, OneAtATime', robbed' = {}, NEW j \in Job, Replay(j)
    PROVE  JobInv'
<1> DEFINE old == job[j].data
           on == job[j].on
           S == Replayable(old, main)
           new == Stamp(main, S, on)
           gone == [job[j] EXCEPT !.pc = "publish", !.deployed = FALSE]
<1>1. /\ job[j].pc = "replay" /\ UNCHANGED <<day, main, found, pending, status, people>>
      /\ \/ tree' = [CleanTree EXCEPT !.files = new] /\ Goto(j, "gate")
         \/ tree' = CleanTree /\ Become(j, gone)
  BY DEF Replay
<1>2. Read(old) /\ Fits(j, Found) /\ Results(j)
  BY <1>1 DEF JobInv, Work
<1>3. raced' = raced
  BY <1>1 DEF people
<1>4. CASE tree' = CleanTree /\ Become(j, gone)
  <2>1. job'[j] = gone
    BY <1>4, OneMoves
  <2>2. /\ job'[j].pc = "publish" /\ ~ job'[j].deployed
        /\ job'[j].data = old /\ job'[j].on = on
    BY <2>1 DEF TypeOK, JobType
  <2>3. Dated(j)' /\ Work(j)'
    BY <1>1, <2>2 DEF JobInv, Dated, Work
  <2>4. Inside(j)'
    BY <2>2 DEF Inside
  <2>5. \A k \in Job : Dated(k)' /\ Work(k)'
    BY <1>1, <1>4, <2>3, <2>4, OthersKeep
  <2> QED
    BY <1>1, <1>4, <2>5, CleanCopies DEF JobInv, ByHand, StatusIsLive, people
<1>5. CASE tree' = [CleanTree EXCEPT !.files = new] /\ Goto(j, "gate")
  <2>1. /\ tree'.files = new /\ tree'.head = main /\ tree'.origin = main
        /\ ~ tree'.behind
    BY <1>5 DEF CleanTree
  <2>2. /\ \E local : Become(j, local)
        /\ job'[j].pc = "gate" /\ job'[j].data = old /\ job'[j].on = on
    BY <1>5, GotoLocals
  <2>3. /\ main \in Doc /\ old \in Doc /\ on \in Nat /\ day \in Nat /\ on <= day
        /\ Sound(main, day) /\ \A i \in Rec : old.rec[i].date <= on
    BY DEF TypeOK, JobType, JobInv, Copies, Dated
  <2>4. S \in SUBSET Found /\ Found \subseteq Automatable
    BY <1>2 DEF Replayable, Found, Fits
  <2>5. \A i \in S : main.rec[i].date <= on
    BY <1>2, <2>3, <2>4 DEF Read, Automatable
  <2>6. Sound(new, day)
    <3>1. Cohort(main, on, S) = Cohort(old, on, S)
      BY <1>2 DEF Cohort, Read
    <3>2. Cardinality(Cohort(old, on, S)) <= MaxShared - Margin
      BY <1>2, <2>4, FewerFit DEF Fits
    <3>3. S \in SUBSET Automatable
      BY <2>4
    <3> HIDE DEF S, on
    <3> QED
      BY <2>3, <2>5, <3>1, <3>2, <3>3, StampSound
  <2>7. new.asOf >= main.asOf
    BY <2>3, <2>5, StampAsOf DEF Sound
  <2>8. \A i \in Rec : /\ new.rec[i].val = main.rec[i].val
                       /\ i \in S /\ Stampable(main.rec[i]) => new.rec[i].date = on
                       /\ i \notin S \/ ~ Stampable(main.rec[i]) =>
                            new.rec[i] = main.rec[i]
    BY <2>3, StampRecords
  <2> HIDE DEF new
  <2>9. Advances(main, new)
    <3>1. \A i \in S : found[i] = main.rec[i].val
      BY <1>2, <2>4 DEF Replayable, Unchanged, Results
    <3>2. ASSUME NEW i \in Rec
          PROVE  /\ new.rec[i].val = main.rec[i].val
                 /\ new.rec[i].date >= main.rec[i].date
                 /\ main.rec[i].gap = "held" => new.rec[i] = main.rec[i]
                 /\ new.rec[i].date # main.rec[i].date =>
                      i \in Found /\ new.rec[i].val = found[i]
      <4>1. main.rec[i].date \in Nat
        BY <2>3, DocTyped
      <4> HIDE DEF S
      <4>2. CASE i \in S /\ Stampable(main.rec[i])
        BY <2>3, <2>4, <2>5, <2>8, <3>1, <4>1, <4>2 DEF Stampable
      <4>3. CASE ~ (i \in S /\ Stampable(main.rec[i]))
        BY <2>8, <4>1, <4>3
      <4> QED
        BY <4>2, <4>3
    <3> QED
      BY <2>7, <3>2 DEF Advances
  <2>10. \A i \in Rec \ raced : pending.seen[i] <= new.rec[i].date
    <3> TAKE i \in Rec \ raced
    <3>1. main.rec[i] = old.rec[i] /\ main.rec[i].date \in Nat
      BY <1>2, <2>3, DocTyped DEF Read
    <3>2. CASE i \in Found
      <4>1. i \in S /\ Stampable(main.rec[i]) /\ pending.seen[i] = on
        BY <1>2, <3>1, <3>2 DEF Results, Replayable, Unchanged, Rejudged, Found
      <4> HIDE DEF S
      <4> QED
        BY <2>3, <2>8, <4>1
    <3>3. CASE i \notin Found
      BY <1>2, <2>4, <2>8, <3>1, <3>3 DEF Results
    <3> QED
      BY <3>2, <3>3
  <2>11. Read(job[j].data)' /\ Fits(j, Found)' /\ Results(j)'
    BY <1>1, <1>2, <1>3, <2>2 DEF Read, Fits, Results, Found
  <2>12. Ready(tree.files)'
    BY <1>1, <1>3, <2>1, <2>9, <2>10 DEF Ready, Advances, Found
  <2>13. Work(j)'
    BY <2>1, <2>2, <2>11, <2>12 DEF Work
  <2>14. Inside(j)'
    BY <2>2 DEF Inside
  <2>15. Dated(j)'
    BY <1>1, <2>2 DEF JobInv, Dated
  <2>16. \A k \in Job : Dated(k)' /\ Work(k)'
    BY <1>1, <2>2, <2>13, <2>14, <2>15, OthersKeep
  <2>17. Copies'
    <3>1. \A i \in Rec : main.rec[i].date <= main.rec[i].date
      BY <2>3, DocTyped
    <3> QED
      BY <1>1, <2>1, <2>3, <2>6, <3>1 DEF Copies
  <2> QED
    BY <1>1, <2>16, <2>17 DEF JobInv, ByHand, StatusIsLive, people
<1> QED
  BY <1>1, <1>4, <1>5

\* Files that nobody verified yet are true on any day.
LEMMA BlankSound ==
    ASSUME NEW t \in Nat, NEW doc, doc.asOf = 0, \A i \in Rec : doc.rec[i].date = 0
    PROVE  Sound(doc, t)
<1>1. Cardinality({}) <= MaxShared - Margin /\ Cardinality({}) <= HandStamps
  BY FS_EmptySet, LimitAssumption
<1>2. ASSUME NEW d \in 1..t
      PROVE  /\ Cardinality(AutomaticOn(doc, d)) <= MaxShared - Margin
             /\ Cardinality(ByHandOn(doc, d)) <= HandStamps
  <2>1. \A i \in Rec : doc.rec[i].date # d
    OBVIOUS
  <2>2. AutomaticOn(doc, d) = {} /\ ByHandOn(doc, d) = {}
    BY <2>1, RecordAssumption DEF AutomaticOn, ByHandOn, Automatable
  <2> QED
    BY <1>1, <2>2
<1>3. /\ \A i \in Rec : doc.rec[i].date <= t
      /\ \A i \in Cpa : doc.asOf <= doc.rec[i].date
  BY RecordAssumption
<1> QED
  BY <1>2, <1>3 DEF Sound

LEMMA IdleSound ==
    ASSUME NEW t \in Nat
    PROVE  /\ Sound(IdleJob.data, t) /\ IdleJob.on = 0
           /\ \A i \in Rec : IdleJob.data.rec[i].date = 0
<1> DEFINE doc == IdleJob.data
<1>1. /\ doc.asOf = 0 /\ IdleJob.on = 0 /\ \A i \in Rec : doc.rec[i].date = 0
  BY DEF IdleJob, Blank
<1> HIDE DEF doc
<1>2. Sound(doc, t)
  BY <1>1, BlankSound
<1> QED
  BY <1>1, <1>2 DEF doc

\* A job that finishes publishes nothing that is not live.
LEMMA PublishKeeps ==
    ASSUME TypeOK, JobInv, OneAtATime', robbed' = {}, NEW j \in Job,
           Publish(j) \/ Raises(j)
    PROVE  JobInv'
<1> DEFINE left == [IdleJob EXCEPT !.pc = "exit", !.nested = job[j].nested]
<1>1. /\ Become(j, left)
      /\ UNCHANGED <<day, main, tree, people>>
  BY DEF Publish, Raises
<1>2. left.pc = "exit" /\ left.data = IdleJob.data /\ left.on = IdleJob.on
  BY DEF IdleJob
<1> HIDE DEF left
<1>3. /\ \E local : Become(j, local)
      /\ job'[j].pc = "exit" /\ job'[j].data = IdleJob.data /\ job'[j].on = IdleJob.on
  BY <1>1, <1>2, OneMoves
<1>4. Dated(j)' /\ Work(j)'
  <2>1. day \in Nat
    BY DEF TypeOK
  <2> QED
    BY <1>1, <1>3, <2>1, IdleSound DEF Dated, Work
<1>5. Inside(j)'
  BY <1>3 DEF Inside
<1>6. \A k \in Job : Dated(k)' /\ Work(k)'
  BY <1>1, <1>3, <1>4, <1>5, OthersKeep
<1>7. raced' = raced
  BY <1>1 DEF people
<1>8. StatusIsLive'
  <2>1. CASE Raises(j)
    BY <1>1, <1>7, <2>1 DEF Raises, JobInv, StatusIsLive
  <2>2. CASE Publish(j)
    <3>1. /\ job[j].pc = "publish"
          /\ status'.seen = IF job[j].deployed THEN pending.seen ELSE Dates(tree.origin)
      BY <2>2 DEF Publish, TypeOK, StatusType
    <3>2. CASE job[j].deployed
      BY <1>1, <1>7, <3>1, <3>2 DEF JobInv, Work, StatusIsLive
    <3>3. CASE ~ job[j].deployed
      BY <1>1, <1>7, <3>1, <3>3 DEF JobInv, Copies, StatusIsLive, Dates
    <3> QED
      BY <3>2, <3>3
  <2> QED
    BY <2>1, <2>2
<1> QED
  BY <1>1, <1>6, <1>8 DEF JobInv, Copies, ByHand, people

\* An invocation that ends, waits or hands over leaves nobody at work alone
\* with its files.
LEMMA LeaveKeeps ==
    ASSUME TypeOK, JobInv, robbed = {}, robbed' = {}, NEW j \in Job,
           \/ FindStale(j) \/ NothingToTakeOver(j) \/ Refused(j)
           \/ Relaunch(j) \/ Exit(j) \/ Kill(j)
    PROVE  JobInv'
<1> DEFINE child == [job[j] EXCEPT !.pc = "child", !.nested = TRUE]
<1>1. /\ UNCHANGED <<day, main, status, people>>
      /\ \/ /\ \E pc \in {"takeover", "parent", "idle"} : Goto(j, pc)
            /\ UNCHANGED <<tree, found, pending>>
         \/ /\ Become(j, child) /\ tree' = CleanTree /\ UNCHANGED <<found, pending>>
            /\ Others(j) = {}
         \/ Over(j)
  BY DEF FindStale, NothingToTakeOver, Refused, Relaunch, Exit, Kill, Others
<1>2. Exit(j) \/ Relaunch(j) => Others(j) = {}
  BY DEF Exit, Relaunch, Others
<1>3. /\ child.pc = "child" /\ child.data = job[j].data /\ child.on = job[j].on
  BY DEF TypeOK, JobType
<1> HIDE DEF child
<1>4. /\ \A k \in Job \ {j} : job'[k] = job[k]
      /\ job'[j].pc \in {"parent", "child", "takeover", "idle"}
      /\ \/ job'[j].data = job[j].data /\ job'[j].on = job[j].on
         \/ job'[j].data = IdleJob.data /\ job'[j].on = IdleJob.on
  <2>1. CASE \E pc \in {"takeover", "parent", "idle"} : Goto(j, pc)
    BY <2>1, GotoLocals, OneMoves
  <2>2. CASE Become(j, child)
    BY <1>3, <2>2, OneMoves
  <2>3. CASE Over(j)
    <3>1. job'[j] = IdleJob /\ \A k \in Job \ {j} : job'[k] = job[k]
      BY <2>3, OneMoves DEF Over
    <3> QED
      BY <3>1 DEF IdleJob
  <2> QED
    BY <1>1, <2>1, <2>2, <2>3
<1>5. \/ UNCHANGED <<tree, found, pending>>
      \/ tree' = CleanTree /\ Others(j) = {}
  BY <1>1 DEF Over
<1>6. ~ Inside(j)'
  BY <1>4 DEF Inside
<1>7. \A k \in Job : Dated(k)'
  <2>1. day \in Nat
    BY DEF TypeOK
  <2>2. Dated(j)'
    BY <1>1, <1>4, <2>1, IdleSound DEF JobInv, Dated
  <2> QED
    BY <1>1, <1>4, <2>2 DEF JobInv, Dated
<1>8. ASSUME NEW k \in Job PROVE Work(k)'
  <2>1. CASE ~ Inside(k)'
    BY <2>1, IdleWorks
  <2>2. CASE Inside(k)'
    <3>1. k # j /\ job'[k] = job[k] /\ Inside(k)
      BY <1>4, <1>6, <2>2 DEF Inside
    <3>2. UNCHANGED <<tree, found, pending>>
      BY <1>5, <3>1 DEF Others
    <3>3. main' = main /\ raced' = raced
      BY <1>1 DEF people
    <3>4. /\ Read(tree.files)' = Read(tree.files)
          /\ Read(job[k].data)' = Read(job[k].data)
      BY <3>1, <3>2, <3>3 DEF Read
    <3>5. /\ Fits(k, job[k].todo)' = Fits(k, job[k].todo)
          /\ Fits(k, Found)' = Fits(k, Found)
      BY <3>1, <3>2 DEF Fits, Found
    <3>6. Results(k)' = Results(k)
      BY <3>1, <3>2 DEF Results, Found
    <3>7. /\ Ready(tree.files)' = Ready(tree.files)
          /\ Ready(tree.head)' = Ready(tree.head)
      BY <3>2, <3>3 DEF Ready, Advances, Found
    <3>8. Work(k)
      BY DEF JobInv
    <3> QED
      BY <3>1, <3>2, <3>3, <3>4, <3>5, <3>6, <3>7, <3>8 DEF Work
  <2> QED
    BY <2>1, <2>2
<1>9. Copies'
  BY <1>1, <1>5, CleanCopies DEF JobInv, Copies
<1> QED
  BY <1>1, <1>7, <1>8, <1>9 DEF JobInv, ByHand, StatusIsLive, people

-----------------------------------------------------------------------------
(* The steps of everyone else.                                             *)

LEMMA InitKeeps == Init => JobInv
<1> SUFFICES ASSUME Init PROVE JobInv
  OBVIOUS
<1>1. /\ day = 1 /\ main.asOf = 0 /\ \A i \in Rec : main.rec[i].date = 0
      /\ tree.files = main /\ tree.head = main /\ tree.origin = main
      /\ stamps = {}
  BY DEF Init, Blank
<1>2. Sound(main, day)
  BY <1>1, BlankSound
<1>3. Copies
  BY <1>1, <1>2 DEF Copies
<1>4. ByHand
  <2>1. \A i \in Manual : main.rec[i].date # day
    BY <1>1, RecordAssumption
  <2>2. {i \in Manual : main.rec[i].date = day} = {}
    BY <2>1
  <2> QED
    BY <1>1, <2>2, FS_EmptySet, LimitAssumption DEF ByHand
<1>5. StatusIsLive
  <2>1. status.seen = Dates(main)
    BY DEF Init
  <2> QED
    BY <1>1, <2>1 DEF StatusIsLive, Dates
<1>6. ASSUME NEW j \in Job PROVE Dated(j) /\ Work(j)
  <2>1. job[j] = IdleJob /\ IdleJob.pc = "idle"
    BY DEF Init, IdleJob
  <2>2. IdleJob.on = 0 /\ Sound(IdleJob.data, day) /\ \A i \in Rec : IdleJob.data.rec[i].date = 0
    BY <1>1, IdleSound
  <2> QED
    BY <1>1, <2>1, <2>2 DEF Dated, Work
<1> QED
  BY <1>3, <1>4, <1>5, <1>6 DEF JobInv

LEMMA NextDayKeeps ==
    ASSUME TypeOK, JobInv, NextDay
    PROVE  JobInv'
<1>1. /\ day' = day + 1 /\ day \in Nat /\ stamps' = {}
      /\ UNCHANGED <<main, lock, tree, found, pending, status, job, edits, raced, robbed>>
  BY DEF NextDay, TypeOK
<1>2. Copies'
  <2>1. /\ main \in Doc /\ tree.files \in Doc /\ tree.head \in Doc /\ tree.origin \in Doc
    BY DEF TypeOK, TreeType
  <2> QED
    BY <1>1, <2>1, SoundTomorrow DEF JobInv, Copies
<1>3. ByHand'
  <2>1. \A i \in Rec : main.rec[i].date \in Nat /\ main.rec[i].date <= day
    BY DocTyped DEF TypeOK, JobInv, Copies, Sound
  <2>2. ASSUME NEW i \in Manual PROVE main.rec[i].date # day + 1
    <3>1. i \in Rec
      BY RecordAssumption
    <3>2. main.rec[i].date \in Nat /\ main.rec[i].date <= day
      BY <2>1, <3>1
    <3> QED
      BY <1>1, <3>2
  <2>3. {i \in Manual : main.rec[i].date = day + 1} = {}
    BY <2>2
  <2> QED
    BY <1>1, <2>3, FS_EmptySet, LimitAssumption DEF ByHand
<1>4. ASSUME NEW j \in Job PROVE Dated(j)' /\ Work(j)'
  <2>1. job[j].data \in Doc /\ job[j].on \in Nat /\ Dated(j) /\ Work(j)
    BY DEF TypeOK, JobType, JobInv
  <2>2. Dated(j)'
    BY <1>1, <2>1, SoundTomorrow DEF Dated
  <2>3. Work(j)' = Work(j)
    BY <1>1 DEF Work, Read, Fits, Results, Ready, Advances, Found
  <2> QED
    BY <2>1, <2>2, <2>3
<1> QED
  BY <1>1, <1>2, <1>3, <1>4 DEF JobInv, StatusIsLive

\* Someone else's commit puts the push of the job at work behind.
LEMMA LandKeeps ==
    ASSUME TypeOK, TypeOK', JobInv, NEW i \in Rec, NEW r \in RecordType, Land(i, r),
           \/ r.date = main.rec[i].date /\ stamps' = stamps
           \/ /\ i \in Manual /\ r.date = day
              /\ stamps' = stamps \cup {i} /\ Cardinality(stamps') <= HandStamps
    PROVE  JobInv'
<1>1. /\ main' = [main EXCEPT !.rec[i] = r]
      /\ UNCHANGED <<day, lock, found, pending, status, job, robbed>>
  BY DEF Land
<1>2. /\ main \in Doc /\ main' \in Doc /\ day \in Nat
      /\ stamps \in SUBSET Rec /\ stamps' \in SUBSET Rec
  BY DEF TypeOK
<1>3. /\ main'.rec[i] = r /\ \A k \in Rec \ {i} : main'.rec[k] = main.rec[k]
  BY <1>1, <1>2 DEF Doc
<1>4. Sound(main, day) /\ ByHand
  BY DEF JobInv, Copies
<1>5. \A k \in Rec : main'.rec[k].date \in Nat /\ main.rec[k].date \in Nat
  BY <1>2, DocTyped
<1>6. \A k \in Rec : main.rec[k].date <= main'.rec[k].date
  BY <1>3, <1>4, <1>5 DEF Sound
<1>7. ByHand'
  <2>1. {k \in Manual : main'.rec[k].date = day} \subseteq stamps'
    BY <1>3, <1>4, RecordAssumption DEF ByHand
  <2>2. Cardinality(stamps') <= HandStamps
    BY <1>4 DEF ByHand
  <2> QED
    BY <1>1, <1>4, <2>1, <2>2 DEF ByHand
<1>8. Sound(main', day)
  <2>1. CASE r.date = main.rec[i].date
    BY <1>1, <1>2, <1>4, <2>1, LandSound
  <2>2. CASE i \in Manual /\ r.date = day
    <3> DEFINE A == {k \in Manual : main'.rec[k].date = day}
    <3>1. A \in SUBSET stamps' /\ A \in SUBSET Rec /\ Cardinality(stamps') <= HandStamps
      BY <1>1, <1>7, RecordAssumption DEF ByHand
    <3> HIDE DEF A
    <3>2. Cardinality(A) \in Nat /\ Cardinality(stamps') \in Nat
          /\ Cardinality(A) <= Cardinality(stamps')
      BY <1>2, <3>1, RecordsCounted
    <3>3. Cardinality(A) <= HandStamps
      BY <3>1, <3>2, LimitAssumption
    <3> QED
      BY <1>1, <1>2, <1>4, <2>2, <3>3, LandSound DEF A
  <2> QED
    BY <2>1, <2>2
<1>9. StatusIsLive'
  <2>1. raced \subseteq raced'
    BY DEF Land
  <2>2. \A k \in Rec : status.seen[k] \in Nat
    BY DEF TypeOK, StatusType
  <2> QED
    BY <1>1, <1>5, <1>6, <2>1, <2>2 DEF JobInv, StatusIsLive
<1>10. \A j \in Job : Dated(j)'
  BY <1>1 DEF JobInv, Dated
<1>11. CASE ~ \E j \in Job : Inside(j)
  <2>1. tree'.files = main' /\ tree'.head = main' /\ tree'.origin = main'
    <3>1. tree' = [files |-> main', head |-> main', origin |-> main', behind |-> FALSE]
      BY <1>11 DEF Land, CleanTree
    <3> QED
      BY <3>1
  <2>2. \A k \in Rec : main'.rec[k].date <= main'.rec[k].date
    BY <1>5
  <2>3. Copies'
    BY <1>1, <1>8, <2>1, <2>2 DEF Copies
  <2>4. \A j \in Job : ~ Inside(j)'
    BY <1>1, <1>11 DEF Inside
  <2> QED
    BY <1>7, <1>9, <1>10, <2>3, <2>4, IdleWorks DEF JobInv
<1>12. CASE \E j \in Job : Inside(j)
  <2>1. /\ tree' = [tree EXCEPT !.behind = TRUE] /\ raced' = raced \cup {i}
    BY <1>12 DEF Land
  <2>2. /\ tree'.files = tree.files /\ tree'.head = tree.head
        /\ tree'.origin = tree.origin /\ tree'.behind
    BY <2>1 DEF TypeOK, TreeType
  <2>3. Copies'
    <3>1. \A k \in Rec : tree.origin.rec[k].date \in Nat
      BY DocTyped DEF TypeOK, TreeType
    <3>2. \A k \in Rec : tree.origin.rec[k].date <= main.rec[k].date
      BY DEF JobInv, Copies
    <3>3. \A k \in Rec : tree.origin.rec[k].date <= main'.rec[k].date
      BY <1>5, <1>6, <3>1, <3>2
    <3> QED
      BY <1>1, <1>8, <2>2, <3>3 DEF JobInv, Copies
  <2>4. ASSUME NEW doc, Read(doc)
        PROVE  /\ \A k \in Rec \ raced' : doc.rec[k] = main'.rec[k]
               /\ \A k \in Automatable : doc.rec[k].date = main'.rec[k].date
    BY <1>3, <2>1, <2>4 DEF Read, Automatable
  <2>5. ASSUME NEW j \in Job PROVE Work(j)'
    <3>1. Work(j)
      BY DEF JobInv
    <3>2. /\ Read(tree.files) => Read(tree.files)'
          /\ Read(job[j].data) => Read(job[j].data)'
      BY <1>1, <2>2, <2>4 DEF Read
    <3>3. /\ Fits(j, job[j].todo) => Fits(j, job[j].todo)'
          /\ Fits(j, Found) => Fits(j, Found)'
          /\ Results(j) => Results(j)'
      BY <1>1 DEF Fits, Found, Results
    <3>4. /\ Ready(tree.files) => Ready(tree.files)'
          /\ Ready(tree.head) => Ready(tree.head)'
      BY <1>1, <2>1, <2>2 DEF Ready
    <3>5. ASSUME job[j].pc = "publish" /\ job[j].deployed,
                 NEW k \in Rec \ raced'
          PROVE  pending.seen[k] <= main'.rec[k].date
      BY <1>3, <2>1, <3>1, <3>5 DEF Work
    <3> QED
      BY <1>1, <2>2, <3>1, <3>2, <3>3, <3>4, <3>5 DEF Work
  <2> QED
    BY <1>7, <1>9, <1>10, <2>3, <2>5 DEF JobInv
<1> QED
  BY <1>11, <1>12

LEMMA PeopleKeep ==
    ASSUME TypeOK, TypeOK', JobInv, People
    PROVE  JobInv'
<1>1. ASSUME NEW i \in Rec, HandStamp(i) PROVE JobInv'
  <2> DEFINE r == [main.rec[i] EXCEPT !.date = day, !.gap = "none"]
  <2>1. /\ i \in Manual /\ i \notin stamps /\ Cardinality(stamps) < HandStamps
        /\ stamps' = stamps \cup {i} /\ Land(i, r)
    BY <1>1, Zenon DEF HandStamp
  <2>2. r \in RecordType /\ r.date = day
    <3>1. main.rec[i] \in RecordType /\ day \in Nat
      BY DEF TypeOK, Doc
    <3> QED
      BY <3>1 DEF RecordType
  <2> HIDE DEF r
  <2>3. Cardinality(stamps') <= HandStamps
    <3>1. IsFiniteSet(stamps) /\ Cardinality(stamps) \in Nat
      BY RecordsCounted DEF TypeOK
    <3>2. Cardinality(stamps \cup {i}) = Cardinality(stamps) + 1
      BY <2>1, <3>1, FS_AddElement
    <3> QED
      BY <2>1, <3>1, <3>2, LimitAssumption
  <2> QED
    BY <2>1, <2>2, <2>3, LandKeeps
<1>2. ASSUME NEW i \in Rec, Edit(i) PROVE JobInv'
  <2>1. /\ \A v \in Value : /\ [main.rec[i] EXCEPT !.val = v] \in RecordType
                            /\ [main.rec[i] EXCEPT !.val = v].date = main.rec[i].date
        /\ [main.rec[i] EXCEPT !.gap = "held"] \in RecordType
        /\ [main.rec[i] EXCEPT !.gap = "held"].date = main.rec[i].date
    BY DEF TypeOK, Doc, RecordType
  <2>2. PICK r \in RecordType : Land(i, r) /\ r.date = main.rec[i].date
    BY <1>2, <2>1, Zenon DEF Edit
  <2>3. stamps' = stamps
    BY <1>2 DEF Edit
  <2> QED
    BY <2>2, <2>3, LandKeeps
<1> QED
  BY <1>1, <1>2 DEF People

-----------------------------------------------------------------------------
(* What the job promises as long as no lock is lost.                       *)

LEMMA JobKeeps ==
    ASSUME TypeOK, TypeOK', OneAtATime', robbed = {}, robbed' = {}, JobInv, [Next]_vars
    PROVE  /\ JobInv'
           /\ Pushes => Advances(main, main')
<1>1. NextDay => JobInv'
  BY NextDayKeeps
<1>2. ASSUME LockAges \/ UNCHANGED vars PROVE JobInv'
  <2>1. UNCHANGED <<day, main, tree, found, pending, status, job, people>>
    BY <1>2 DEF LockAges, vars, people
  <2>2. ASSUME NEW j \in Job PROVE Work(j)' = Work(j)
    BY <2>1 DEF Work, Read, Fits, Results, Ready, Advances, Found, people
  <2> QED
    BY <2>1, <2>2 DEF JobInv, Copies, ByHand, StatusIsLive, Dated, people
<1>3. People => JobInv'
  BY PeopleKeep
<1>4. ASSUME NEW j \in Job, JobStep(j) PROVE JobInv'
  BY <1>4, EnterKeeps, FetchKeeps, LoadKeeps, DumpKeeps, GatesKeep, CommitKeeps,
     PushKeeps, PushRejectedKeeps, ReplayKeeps, PublishKeeps, LeaveKeeps DEF JobStep
<1>5. JobInv'
  BY <1>1, <1>2, <1>3, <1>4 DEF Next
<1> QED
  BY <1>5, PushKeeps DEF Pushes

\* From the types, the lock and JobInv at the start.
LEMMA JobInvHolds == Spec /\ [](robbed = {}) => []JobInv
<1> DEFINE Quiet == robbed = {}
<1>1. TypeOK /\ TypeOK' /\ OneAtATime' /\ Quiet /\ Quiet' /\ JobInv /\ [Next]_vars
        => JobInv'
  BY JobKeeps
<1> HIDE DEF Quiet
<1>2. Spec /\ []Quiet => []JobInv
  BY <1>1, InitKeeps, FilesTypeCorrect, LockKeepsApart, PTL DEF Spec
<1> QED
  BY <1>2 DEF Quiet

\* STALE-5, for any records, job runs and days: as_of_date never reads fresher
\* than the oldest record under it (AsOfNotFresher).
THEOREM AsOfStaysBehind == Spec /\ [](robbed = {}) => []AsOfNotFresher
<1>1. JobInv => AsOfNotFresher
  BY DEF JobInv, Copies, Sound, AsOfNotFresher
<1> QED
  BY <1>1, JobInvHolds, PTL

\* The watchdog is never shown a verification that is not live, except of a
\* record that was edited while a job was running (StatusIsLive).
THEOREM StatusStaysLive == Spec /\ [](robbed = {}) => []StatusIsLive
<1>1. JobInv => StatusIsLive
  BY DEF JobInv
<1> QED
  BY <1>1, JobInvHolds, PTL

\* The day's cohort is what runs stamp and what people stamp by hand.
LEMMA CohortCounted ==
    ASSUME HandStamps <= Margin, NEW t \in Nat, NEW doc \in Doc, Sound(doc, t),
           NEW d \in 1..t
    PROVE  Cardinality(StampedOn(doc, d)) <= MaxShared
<1> DEFINE A == AutomaticOn(doc, d)
           B == ByHandOn(doc, d)
<1>1. A \in SUBSET Rec /\ B \in SUBSET Rec /\ A \cap B = {}
  BY RecordAssumption DEF AutomaticOn, ByHandOn, Automatable
<1>2. StampedOn(doc, d) = A \cup B
  BY RecordAssumption DEF StampedOn, AutomaticOn, ByHandOn, Automatable
<1>3. Cardinality(A) <= MaxShared - Margin /\ Cardinality(B) <= HandStamps
  BY DEF Sound
<1> HIDE DEF A, B
<1>4. /\ IsFiniteSet(A) /\ IsFiniteSet(B)
      /\ Cardinality(A) \in Nat /\ Cardinality(B) \in Nat
  BY <1>1, RecordsCounted
<1>5. Cardinality(A \cup B) = Cardinality(A) + Cardinality(B) - Cardinality(A \cap B)
  BY <1>4, FS_Union
<1>6. Cardinality(A \cap B) = 0
  BY <1>1, FS_EmptySet
<1> QED
  BY <1>2, <1>3, <1>4, <1>5, <1>6, LimitAssumption

\* STALE-33/53, with a margin for a day's hand stamps, as runner.py has it: no
\* number of runs and hand stamps makes a day's cohort outgrow the cap of the
\* ship gate, on main or in the worktree (CohortUnderCap).
THEOREM CohortStaysUnderCap ==
    ASSUME HandStamps <= Margin
    PROVE  Spec /\ [](robbed = {}) => []CohortUnderCap
<1>1. TypeOK /\ JobInv => CohortUnderCap
  <2> SUFFICES ASSUME TypeOK, JobInv PROVE CohortUnderCap
    OBVIOUS
  <2>1. /\ main \in Doc /\ tree.files \in Doc /\ day \in Nat
        /\ Sound(main, day) /\ Sound(tree.files, day)
    BY DEF TypeOK, TreeType, JobInv, Copies
  <2>2. \A d \in 1..day : /\ Cardinality(StampedOn(main, d)) <= MaxShared
                          /\ Cardinality(StampedOn(tree.files, d)) <= MaxShared
    BY <2>1, CohortCounted
  <2> QED
    BY <2>2 DEF CohortUnderCap, CohortsFit
<1> QED
  BY <1>1, FilesTypeCorrect, JobInvHolds, PTL

\* A push takes nothing back that someone else committed (PushLosesNothing).
THEOREM PushesLoseNothing == Spec /\ [](robbed = {}) => PushLosesNothing
<1> DEFINE Quiet == robbed = {}
           Keeps == Pushes =>
                      /\ main'.asOf >= main.asOf
                      /\ \A i \in Rec :
                           /\ main'.rec[i].val = main.rec[i].val
                           /\ main'.rec[i].date >= main.rec[i].date
                           /\ main.rec[i].gap = "held" => main'.rec[i] = main.rec[i]
<1>1. TypeOK /\ TypeOK' /\ OneAtATime' /\ Quiet /\ Quiet' /\ JobInv /\ [Next]_vars
        => Keeps
  <2> SUFFICES ASSUME TypeOK, TypeOK', OneAtATime', Quiet, Quiet', JobInv, [Next]_vars
               PROVE  Keeps
    OBVIOUS
  <2>1. Pushes => Advances(main, main')
    BY JobKeeps
  <2> QED
    BY <2>1 DEF Advances
<1> HIDE DEF Quiet, Keeps
<1>2. Spec /\ []Quiet => [][Keeps]_vars
  BY <1>1, FilesTypeCorrect, LockKeepsApart, JobInvHolds, PTL DEF Spec, Quiet
<1> QED
  BY <1>2 DEF Quiet, Keeps, PushLosesNothing

\* REPLAY-1: a verification date that a push moves stands on a record that says
\* what the run's own fetch confirmed (StampsWhatWasFetched).
THEOREM StampsAreTheFetchs == Spec /\ [](robbed = {}) => StampsWhatWasFetched
<1> DEFINE Quiet == robbed = {}
           Says == Pushes => \A i \in Rec : main'.rec[i].date # main.rec[i].date =>
                                                main'.rec[i].val = found[i]
<1>1. TypeOK /\ TypeOK' /\ OneAtATime' /\ Quiet /\ Quiet' /\ JobInv /\ [Next]_vars
        => Says
  <2> SUFFICES ASSUME TypeOK, TypeOK', OneAtATime', Quiet, Quiet', JobInv, [Next]_vars
               PROVE  Says
    OBVIOUS
  <2>1. Pushes => Advances(main, main')
    BY JobKeeps
  <2> QED
    BY <2>1 DEF Advances
<1> HIDE DEF Quiet, Says
<1>2. Spec /\ []Quiet => [][Says]_vars
  BY <1>1, FilesTypeCorrect, LockKeepsApart, JobInvHolds, PTL DEF Spec, Quiet
<1> QED
  BY <1>2 DEF Quiet, Says, StampsWhatWasFetched

-----------------------------------------------------------------------------
(* When no lock is lost.                                                   *)

\* Nobody waits for a child, and an old lock file is a dead job's.
Tidy ==
    /\ robbed = {}
    /\ \A j \in Job : job[j].pc \notin {"child", "parent"} /\ ~ job[j].nested
    /\ lock = "stale" => \A j \in Job : ~ Inside(j)

\* A job at work goes on, or leaves with its own lock file.
LEMMA TidyWork ==
    ASSUME TypeOK, OneAtATime, Tidy, NEW j \in Job, NEW local, Become(j, local),
           Inside(j), local.pc \notin {"child", "parent"}, ~ local.nested,
           \/ UNCHANGED <<lock, robbed>>
           \/ lock' = "free" /\ robbed' = (robbed \cup Others(j)) \ {j}
           \/ lock' = lock /\ robbed' = robbed \ {j}
    PROVE  Tidy'
<1>1. /\ job'[j] = local /\ \A k \in Job \ {j} : job'[k] = job[k]
  BY OneMoves
<1>2. Others(j) = {}
  BY DEF OneAtATime, Others, Tidy
<1>3. robbed' = {}
  BY <1>2 DEF Tidy
<1>4. \A k \in Job : job'[k].pc \notin {"child", "parent"} /\ ~ job'[k].nested
  BY <1>1 DEF Tidy
<1>5. lock' # "stale"
  BY DEF Tidy
<1> QED
  BY <1>3, <1>4, <1>5 DEF Tidy

\* Whoever is about to take an old lock file over still finds it old: nobody
\* else has taken it, or made a new one, since it was looked at.
Uncontested == \A j \in Job : job[j].pc = "takeover" => lock # "held"

\* What the promises above ask for: if no run takes six hours, a run keeps the
\* job.py it began with, and no two jobs race for the file a killed one left
\* behind, no lock is ever taken from a job at work, however many are started,
\* killed and refused.
THEOREM LockNeverLost ==
    ASSUME ~ Slow, ~ CodeChanges
    PROVE  Spec /\ []Uncontested => [](robbed = {})
<1>1. Init => Tidy
  BY DEF Init, IdleJob, Tidy
<1>2. TypeOK /\ LockHeld /\ OneAtATime /\ Uncontested /\ Tidy /\ [Next]_vars => Tidy'
  <2> SUFFICES ASSUME TypeOK, LockHeld, OneAtATime, Uncontested, Tidy, [Next]_vars
               PROVE  Tidy'
    OBVIOUS
  <2>1. CASE NextDay \/ People \/ UNCHANGED vars
    <3>1. UNCHANGED <<job, robbed, lock>>
      BY <2>1 DEF NextDay, People, HandStamp, Edit, Land, vars, people
    <3> QED
      BY <3>1 DEF Tidy, Inside
  <2>2. CASE LockAges
    BY <2>2 DEF LockAges, Tidy, Inside
  <2>3. ASSUME NEW j \in Job, Enter(j) \/ TakeOver(j) PROVE Tidy'
    <3>1. Others(j) = {}
      BY <2>3 DEF Enter, TakeOver, LockIsFree, LockHeld, Tidy, Others, Uncontested, TypeOK
    <3>2. lock' = "held" /\ robbed' = {}
      BY <2>3, <3>1 DEF Enter, TakeOver, Tidy
    <3>3. job'[j].pc = "fetch" /\ job'[j].nested = job[j].nested
      BY <2>3 DEF Enter, TakeOver, Goto, Become, TypeOK, JobType
    <3>4. \A k \in Job \ {j} : job'[k] = job[k]
      BY <2>3, OneMoves DEF Enter, TakeOver, Goto
    <3> QED
      BY <3>2, <3>3, <3>4 DEF Tidy
  <2>7. ASSUME NEW j \in Job, FindStale(j) \/ NothingToTakeOver(j) PROVE Tidy'
    <3> DEFINE local(pc) == [job[j] EXCEPT !.pc = pc]
    <3>1. \A pc : local(pc).pc = pc /\ local(pc).nested = job[j].nested
      BY DEF TypeOK, JobType
    <3>2. \E pc \in {"takeover", "idle"} : Become(j, local(pc))
      BY <2>7 DEF FindStale, NothingToTakeOver, Goto, Tidy
    <3>3. UNCHANGED <<lock, robbed>>
      BY <2>7 DEF FindStale, NothingToTakeOver
    <3> HIDE DEF local
    <3> QED
      BY <3>1, <3>2, <3>3, OneMoves DEF Tidy, Inside
  <2>4. ASSUME NEW j \in Job, Refused(j) \/ Relaunch(j) PROVE FALSE
    BY <2>4 DEF Refused, Relaunch, Tidy
  <2>5. ASSUME NEW j \in Job,
               \/ Fetch(j) \/ Load(j) \/ Dump(j) \/ Gates(j) \/ Commit(j)
               \/ Push(j) \/ PushRejected(j) \/ Replay(j) \/ Publish(j)
               \/ Raises(j)
        PROVE  Tidy'
    <3>1. UNCHANGED <<lock, robbed>> /\ Inside(j)
      BY <2>5 DEF Inside, Fetch, Load, Dump, Gates, Commit, Push, PushRejected,
                  Replay, Publish, Raises
    <3> DEFINE load == [job[j] EXCEPT !.pc = "dump", !.data = tree.files, !.on = day,
                           !.todo = Selected(tree.files, pending.failing, day)]
               done == [job[j] EXCEPT !.pc = "publish", !.todo = {}, !.deployed = TRUE]
               more == [job[j] EXCEPT !.pc = "gate", !.todo = {}]
               again == [job[j] EXCEPT !.pc = "replay", !.try = @ + 1]
               left == [IdleJob EXCEPT !.pc = "exit", !.nested = job[j].nested]
               goto(pc) == [job[j] EXCEPT !.pc = pc]
               out(b) == [job[j] EXCEPT !.pc = "publish", !.deployed = b]
    <3>2. /\ load.pc = "dump" /\ done.pc = "publish" /\ more.pc = "gate"
          /\ again.pc = "replay" /\ left.pc = "exit"
          /\ \A pc : goto(pc).pc = pc /\ goto(pc).nested = job[j].nested
          /\ \A b \in BOOLEAN : out(b).pc = "publish" /\ out(b).nested = job[j].nested
          /\ \A local \in {load, done, more, again, left} : local.nested = job[j].nested
      BY DEF TypeOK, JobType, IdleJob
    <3>3. \/ \E local \in {load, done, more, again, left} : Become(j, local)
          \/ \E b \in BOOLEAN : Become(j, out(b))
          \/ \E pc \in {"load", "commit", "push", "gate"} : Become(j, goto(pc))
      <4>1. CASE Fetch(j) \/ Load(j) \/ Commit(j)
        BY <4>1 DEF Fetch, Load, Commit, Goto
      <4>2. CASE Dump(j)
        <5>1. Become(j, done) \/ Become(j, more)
          BY <4>2, Zenon DEF Dump
        <5> QED
          BY <5>1
      <4>3. CASE Gates(j)
        BY <4>3 DEF Gates, Goto
      <4>4. CASE Push(j)
        BY <4>4 DEF Push
      <4>5. CASE PushRejected(j)
        BY <4>5 DEF PushRejected, AfterRejection
      <4>6. CASE Replay(j)
        BY <4>6 DEF Replay, Goto
      <4>7. CASE Publish(j) \/ Raises(j)
        BY <4>7 DEF Publish, Raises
      <4> QED
        BY <2>5, <4>1, <4>2, <4>3, <4>4, <4>5, <4>6, <4>7
    <3> HIDE DEF load, done, more, again, left, goto, out
    <3>4. \E local : /\ Become(j, local) /\ local.pc \notin {"child", "parent"}
                     /\ local.nested = job[j].nested
      BY <3>2, <3>3
    <3> QED
      BY <3>1, <3>4, TidyWork DEF Tidy
  <2>6. ASSUME NEW j \in Job, Exit(j) \/ Kill(j) PROVE Tidy'
    <3>1. Become(j, IdleJob)
      BY <2>6 DEF Exit, Kill, Over, Tidy
    <3>2. IdleJob.pc = "idle" /\ ~ IdleJob.nested
      BY DEF IdleJob
    <3>4. \/ lock' = "free" /\ robbed' = (robbed \cup Others(j)) \ {j}
          \/ lock' = lock /\ robbed' = robbed \ {j}
      BY <2>6 DEF Exit, Kill
    <3>5. CASE Inside(j)
      BY <3>1, <3>2, <3>4, <3>5, TidyWork
    <3>6. CASE ~ Inside(j)
      <4>1. lock' = lock /\ robbed' = {}
        BY <2>6, <3>6 DEF Exit, Kill, Inside, Tidy
      <4> QED
        BY <3>1, <3>2, <4>1, OneMoves DEF Tidy, Inside
    <3> QED
      BY <3>5, <3>6
  <2> QED
    BY <2>1, <2>2, <2>3, <2>4, <2>5, <2>6, <2>7 DEF Next, JobStep
<1>3. Tidy => robbed = {}
  BY DEF Tidy
<1> QED
  BY <1>1, <1>2, <1>3, LockHolds, FilesTypeCorrect, PTL DEF Spec
=============================================================================
