----------------------------- MODULE ReverifyJob -----------------------------
(***************************************************************************)
(* The unattended re-verification job of scripts/reverify: job.py (lock,   *)
(* worktree, gates, push), runner.py (which records are due, what a fetch  *)
(* proves, the replay after a lost push race) and the status file that     *)
(* watchdog_check.py reads.                                                *)
(*                                                                         *)
(* The job fetches for minutes on a snapshot of origin/main while people   *)
(* go on committing there: they re-verify MANUAL records by hand, correct  *)
(* values and flag records a human must look at.  All jobs share one       *)
(* worktree, one results file and one status file; a lock file is meant to *)
(* keep them apart.  Dates are day numbers.                                *)
(***************************************************************************)
EXTENDS Integers, FiniteSets

CONSTANTS
    Rec,          \* records; their order is the tie-break (sha256 of the id)
    Cpa,          \* records of cpa_deadlines, the dataset with the cohort cap
    Manual,       \* records without an automatic recipe
    TextOnly,     \* records whose recipe compares text and no stored number
    Tooling,      \* records whose gap marker declares a tooling failure
    Value,        \* what a record can say
    NoValue,      \* "not confirmed" in the results file
    Job,          \* invocations of job.py (scheduled, or by hand)
    MaxShared,    \* CPA_DEADLINES_MAX_SHARED_VERIFICATION_DATE
    HandStamps,   \* HAND_STAMPS_PER_DAY
    Margin,       \* CPA_MARGIN
    Cycle,        \* TRANCHE_CYCLE_DAYS
    DueDays,      \* DUE_DAYS
    Attempts,     \* pushes tried per run
    CodeChanges,  \* may main carry a newer job.py than the one running?
    Slow,         \* may a job still be running six hours after it began?
    LastDay,      \* bound: the last day explored
    MaxEdits      \* bound: corrections and flags people commit

ASSUME RecordAssumption ==
    /\ Rec \subseteq Nat /\ IsFiniteSet(Rec)
    /\ Value # {} /\ NoValue \notin Value
    /\ Cpa \subseteq Rec /\ Manual \subseteq Rec /\ TextOnly \subseteq Rec
    /\ Tooling \subseteq Rec

ASSUME LimitAssumption ==
    /\ HandStamps \in Nat /\ Margin \in Nat /\ MaxShared \in Nat
    /\ HandStamps + Margin <= MaxShared
    /\ Cycle \in Nat \ {0} /\ DueDays \in Nat /\ Attempts \in Nat \ {0}
    /\ LastDay \in Nat /\ MaxEdits \in Nat
    /\ CodeChanges \in BOOLEAN /\ Slow \in BOOLEAN

VARIABLES
    day,      \* today
    main,     \* the data files on origin/main
    lock,     \* reverify.lock: "free", "held", or "stale" (six hours old)
    tree,     \* the job worktree: files, HEAD, its origin/main, and whether
              \* main has moved since HEAD's parent was fetched
    found,    \* results.json: the value the fetch confirmed, or NoValue
    pending,  \* reverify_pending/reverify_status.json
    status,   \* reverify_status.json, what the watchdog reads
    job,      \* the local state of each invocation
    stamps,   \* history: records stamped by hand today
    edits,    \* history: corrections and flags so far
    raced,    \* history: records edited on main while a job was running
    robbed    \* history: running jobs whose lock someone else took or freed

vars == <<day, main, lock, tree, found, pending, status, job, stamps, edits,
          raced, robbed>>
people == <<stamps, edits, raced>>

-----------------------------------------------------------------------------
(* Which records a run checks (runner.py).                                 *)

Automatable == Rec \ Manual

Older(doc, i, k) ==
    \/ doc.rec[i].date < doc.rec[k].date
    \/ doc.rec[i].date = doc.rec[k].date /\ i < k

Oldest(doc, S, n) == {i \in S : Cardinality({k \in S : Older(doc, k, i)}) < n}

Quota(S) == (Cardinality(S) + Cycle - 1) \div Cycle

\* tranche: of each dataset, a Cycle-th of its automatable records, oldest
\* first.  A failing record is retried anyway and takes no one's turn.
Tranche(doc, failing) ==
    UNION {Oldest(doc, ds \ failing, Quota(ds)) : ds \in {Automatable \cap Cpa, Automatable \ Cpa}}

StampedOn(doc, d) == {i \in Cpa : doc.rec[i].date = d}

StampCap == MaxShared - HandStamps - Margin

\* Mutant: the room of a run ignores what the day's cohort already holds.
RoomPerRun(doc, d) == StampCap

\* How many more cpa_deadlines records a run may move onto day d.
Room(doc, d) ==
    LET left == StampCap + HandStamps - Cardinality(StampedOn(doc, d))
    IN  IF left < 0 THEN 0 ELSE IF left < StampCap THEN left ELSE StampCap

\* cap_cpa: the oldest Room of them, and any that carry the date already.
CapCpa(doc, todo, d) ==
    LET moving == (todo \cap Cpa) \ StampedOn(doc, d)
    IN  (todo \ moving) \cup Oldest(doc, moving, Room(doc, d))

Selected(doc, failing, d) ==
    CapCpa(doc,
           Tranche(doc, failing) \cup (failing \cap Automatable)
               \cup {i \in Automatable : d - doc.rec[i].date > DueDays},
           d)

-----------------------------------------------------------------------------
(* What a confirmation does to a record (apply_confirmed, advance_as_of).  *)

\* A marker a person left holds the record; a tooling failure is cleared.
Stampable(r) == r.gap # "held"

Stamped(r, d) == [r EXCEPT !.date = d, !.gap = "none"]

\* Mutant: as_of_date follows the newest record.
WithAsOfNewest(doc) ==
    LET later == {d \in {doc.rec[i].date : i \in Cpa} : d > doc.asOf}
    IN  [doc EXCEPT !.asOf = IF later = {} THEN @ ELSE CHOOSE d \in later : TRUE]

\* advance_as_of: to the oldest record's date, and only ever forward.
WithAsOf(doc) ==
    LET later == {d \in {doc.rec[i].date : i \in Cpa} :
                    /\ d > doc.asOf
                    /\ \A i \in Cpa : d <= doc.rec[i].date}
    IN  [doc EXCEPT !.asOf = IF later = {} THEN @ ELSE CHOOSE d \in later : TRUE]

Stamp(doc, S, d) ==
    WithAsOf([doc EXCEPT !.rec =
                [i \in Rec |-> IF i \in S /\ Stampable(doc.rec[i])
                               THEN Stamped(doc.rec[i], d) ELSE doc.rec[i]]])

\* Mutant: the replay without REPLAY-1's comparison with the base commit.
ReplayableAnyway(i, old, new) == TRUE

\* replay: the record still says what it said when the fetch ran.
Unchanged(i, old, new) == old.rec[i].val = new.rec[i].val

\* The belt-and-braces re-judging against the current number.
Rejudged(i, new) == i \in TextOnly \/ new.rec[i].val = found[i]

Replayable(old, new) ==
    {i \in Rec : /\ found[i] # NoValue
                 /\ Unchanged(i, old, new)
                 /\ Rejudged(i, new)}

-----------------------------------------------------------------------------
(* Types and the initial state.                                            *)

RecordType == [val : Value, date : Nat, gap : {"none", "tooling", "held"}]
Doc == [rec : [Rec -> RecordType], asOf : Nat]
StatusType == [seen : [Rec -> Nat], failing : SUBSET Rec, deployed : BOOLEAN]
TreeType == [files : Doc, head : Doc, origin : Doc, behind : BOOLEAN]
JobType == [pc : {"idle", "child", "takeover", "fetch", "load", "dump", "gate", "commit",
                  "push", "replay", "publish", "exit", "parent"},
            data : Doc,        \* the files as the runner, or --base, has them
            on : Nat,          \* the run date
            todo : SUBSET Rec,
            try : 1..Attempts,
            deployed : BOOLEAN,
            nested : BOOLEAN]  \* re-launched by a parent that waits

Blank == [val |-> CHOOSE v \in Value : TRUE, date |-> 0, gap |-> "none"]

IdleJob == [pc |-> "idle",
            data |-> [rec |-> [i \in Rec |-> Blank], asOf |-> 0],
            on |-> 0, todo |-> {}, try |-> 1, deployed |-> FALSE, nested |-> FALSE]

Dates(doc) == [i \in Rec |-> doc.rec[i].date]

Init ==
    /\ day = 1
    /\ main = [rec |-> [i \in Rec |-> [Blank EXCEPT !.gap =
                            IF i \in Tooling THEN "tooling" ELSE "none"]],
               asOf |-> 0]
    /\ lock = "free"
    /\ tree = [files |-> main, head |-> main, origin |-> main, behind |-> FALSE]
    /\ found = [i \in Rec |-> NoValue]
    /\ status = [seen |-> Dates(main), failing |-> {}, deployed |-> TRUE]
    /\ pending = status
    /\ job = [j \in Job |-> IdleJob]
    /\ stamps = {} /\ edits = 0 /\ raced = {} /\ robbed = {}

-----------------------------------------------------------------------------
(* The world around the job.                                               *)

Inside(j) == job[j].pc \notin {"idle", "child", "takeover", "parent"}

Others(j) == {k \in Job \ {j} : Inside(k)}

NextDay ==
    /\ day < LastDay
    /\ day' = day + 1
    /\ stamps' = {}
    /\ UNCHANGED <<main, lock, tree, found, pending, status, job, edits, raced,
                   robbed>>

CleanTree == [files |-> main, head |-> main, origin |-> main, behind |-> FALSE]

\* Someone else's commit lands on main.
Land(i, r) ==
    /\ main' = [main EXCEPT !.rec[i] = r]
    /\ IF \E j \in Job : Inside(j)
       THEN /\ tree' = [tree EXCEPT !.behind = TRUE]
            /\ raced' = raced \cup {i}
       ELSE /\ tree' = CleanTree'
            /\ UNCHANGED raced
    /\ UNCHANGED <<day, lock, found, pending, status, job, robbed>>

\* AssetLab re-verifies a MANUAL record: HandStamps of them a day.
HandStamp(i) ==
    /\ i \in Manual /\ i \notin stamps
    /\ Cardinality(stamps) < HandStamps
    /\ stamps' = stamps \cup {i}
    /\ Land(i, [main.rec[i] EXCEPT !.date = day, !.gap = "none"])
    /\ UNCHANGED edits

\* A correction, or a gap marker that asks for a human's judgement.
Edit(i) ==
    /\ edits < MaxEdits
    /\ edits' = edits + 1
    /\ \/ \E v \in Value \ {main.rec[i].val} :
              Land(i, [main.rec[i] EXCEPT !.val = v])
       \/ /\ main.rec[i].gap # "held"
          /\ Land(i, [main.rec[i] EXCEPT !.gap = "held"])
    /\ UNCHANGED stamps

\* Six hours pass, and the job that made the lock file is dead, or still at it.
LockAges ==
    /\ lock = "held"
    /\ Slow \/ \A j \in Job : ~Inside(j)
    /\ lock' = "stale"
    /\ UNCHANGED <<day, main, tree, found, pending, status, job, people, robbed>>

-----------------------------------------------------------------------------
(* One invocation of job.py.                                               *)

Become(j, local) == job' = [job EXCEPT ![j] = local]
Goto(j, pc) == Become(j, [job[j] EXCEPT !.pc = pc])

\* Mutant: the lock file is opened without O_EXCL.
LockIsFreeAnyway == TRUE

\* O_CREAT | O_EXCL.
LockIsFree == lock = "free"

Enter(j) ==
    /\ job[j].pc \in {"idle", "child"}
    /\ LockIsFree
    /\ lock' = "held"
    /\ Goto(j, "fetch")
    /\ UNCHANGED <<day, main, tree, found, pending, status, people, robbed>>

\* A lock file that is six hours old: getmtime says so ...
FindStale(j) ==
    /\ job[j].pc \in {"idle", "child"}
    /\ lock = "stale"
    /\ Goto(j, "takeover")
    /\ UNCHANGED <<day, main, lock, tree, found, pending, status, people, robbed>>

\* ... and os.utime touches whatever file is there by now, also one that
\* another job has taken over, or made anew, since.
TakeOver(j) ==
    /\ job[j].pc = "takeover"
    /\ lock # "free"
    /\ lock' = "held"
    /\ robbed' = robbed \cup Others(j)
    /\ Goto(j, "fetch")
    /\ UNCHANGED <<day, main, tree, found, pending, status, people>>

\* The file is gone: os.utime raises outside of the try, and that is all.
NothingToTakeOver(j) ==
    /\ job[j].pc = "takeover"
    /\ lock = "free"
    /\ Goto(j, IF job[j].nested THEN "parent" ELSE "idle")
    /\ UNCHANGED <<day, main, lock, tree, found, pending, status, people, robbed>>

\* Refused: exit code 4 without touching the lock; a waiting parent goes on.
Refused(j) ==
    /\ job[j].pc = "child"
    /\ lock = "held"
    /\ Goto(j, "parent")
    /\ UNCHANGED <<day, main, lock, tree, found, pending, status, people, robbed>>

\* ensure_worktree, then the status is copied for the runner.
Fetch(j) ==
    /\ job[j].pc = "fetch"
    /\ tree' = CleanTree
    /\ pending' = status
    /\ Goto(j, "load")
    /\ UNCHANGED <<day, main, lock, found, status, people, robbed>>

\* The reset brought a new job.py: free the lock and run that one instead.
Relaunch(j) ==
    /\ CodeChanges
    /\ job[j].pc = "fetch" /\ ~job[j].nested
    /\ tree' = CleanTree
    /\ lock' = "free"
    /\ robbed' = (robbed \cup Others(j)) \ {j}
    /\ Become(j, [job[j] EXCEPT !.pc = "child", !.nested = TRUE])
    /\ UNCHANGED <<day, main, found, pending, status, people>>

\* runner.py --apply loads the data and decides what is due ...
Load(j) ==
    /\ job[j].pc = "load"
    /\ Become(j, [job[j] EXCEPT !.pc = "dump", !.data = tree.files, !.on = day,
                                !.todo = Selected(tree.files, pending.failing, day)])
    /\ UNCHANGED <<day, main, lock, tree, found, pending, status, people, robbed>>

\* ... fetches every source, and writes data, results and status.  A source
\* confirms the record, contradicts it (CHANGED, or HELD by a marker: the
\* record stays as it is) or cannot be read.
Dump(j) ==
    LET todo == job[j].todo
        old == job[j].data
    IN  /\ job[j].pc = "dump"
        /\ \E good \in SUBSET todo : \E bad \in SUBSET (todo \ good) :
             LET ok == {i \in good : Stampable(old.rec[i])}
                 new == Stamp(old, good, job[j].on)
             IN  /\ tree' = [tree EXCEPT !.files = new]
                 /\ found' = [i \in Rec |-> IF i \in ok THEN old.rec[i].val
                                                        ELSE NoValue]
                 /\ pending' = [pending EXCEPT
                                  !.seen = Dates(new),
                                  !.failing = (@ \ ok) \cup bad]
                 /\ IF new = tree.head
                    THEN Become(j, [job[j] EXCEPT !.pc = "publish", !.todo = {},
                                                  !.deployed = TRUE])
                    ELSE Become(j, [job[j] EXCEPT !.pc = "gate", !.todo = {}])
        /\ UNCHANGED <<day, main, lock, status, people, robbed>>

\* The verification-date ratchet of preship_gate.py, on this run's data: no
\* date since the baseline was recorded (day 0) is over the cap.
CohortsFit(doc) ==
    \A d \in 1..day : Cardinality(StampedOn(doc, d)) <= MaxShared

\* _gate_commit up to the commit.  Any gate may fail for reasons of its own.
Gates(j) ==
    /\ job[j].pc = "gate"
    /\ \/ /\ tree.files = tree.head
          /\ Become(j, [job[j] EXCEPT !.pc = "publish", !.deployed = TRUE])
          /\ UNCHANGED tree
       \/ /\ tree.files # tree.head
          /\ CohortsFit(tree.files)
          /\ Goto(j, "commit")
          /\ UNCHANGED tree
       \/ /\ tree.files # tree.head
          /\ tree' = [tree EXCEPT !.files = tree.head]
          /\ Become(j, [job[j] EXCEPT !.pc = "publish", !.deployed = FALSE])
    /\ UNCHANGED <<day, main, lock, found, pending, status, people, robbed>>

Commit(j) ==
    /\ job[j].pc = "commit"
    /\ tree' = [tree EXCEPT !.head = tree.files]
    /\ Goto(j, "push")
    /\ UNCHANGED <<day, main, lock, found, pending, status, people, robbed>>

\* Mutant: git push --force.
FastForwardForced == TRUE

FastForward == ~tree.behind

Push(j) ==
    /\ job[j].pc = "push"
    /\ FastForward
    /\ main' = tree.head
    /\ tree' = [tree EXCEPT !.origin = tree.head, !.behind = FALSE]
    /\ Become(j, [job[j] EXCEPT !.pc = "publish", !.deployed = TRUE])
    /\ UNCHANGED <<day, lock, found, pending, status, people, robbed>>

\* Mutant: a run that gives up reports itself as deployed.
AfterRejectionSaysDeployed(j) ==
    Become(j, [job[j] EXCEPT !.pc = "publish", !.deployed = TRUE])

\* Rejected (or the network failed): again, or give up after the last try.
AfterRejection(j) ==
    IF job[j].try < Attempts
    THEN Become(j, [job[j] EXCEPT !.pc = "replay", !.try = @ + 1])
    ELSE Become(j, [job[j] EXCEPT !.pc = "publish", !.deployed = FALSE])

PushRejected(j) ==
    /\ job[j].pc = "push"
    /\ AfterRejection(j)
    /\ UNCHANGED <<day, main, lock, tree, found, pending, status, people, robbed>>

\* Reset to the new main and put the saved confirmations on it; --base is
\* the commit the fetch ran against.  A replay that fails ends the attempts.
Replay(j) ==
    /\ job[j].pc = "replay"
    /\ \/ /\ tree' = [CleanTree EXCEPT !.files =
                        Stamp(main, Replayable(job[j].data, main), job[j].on)]
          /\ Goto(j, "gate")
       \/ /\ tree' = CleanTree
          /\ Become(j, [job[j] EXCEPT !.pc = "publish", !.deployed = FALSE])
    /\ UNCHANGED <<day, main, lock, found, pending, status, people, robbed>>

\* _publish_status.  A run that did not deploy takes the dates from
\* origin/main as it was last fetched.
Publish(j) ==
    /\ job[j].pc = "publish"
    /\ status' = [pending EXCEPT
                    !.deployed = job[j].deployed,
                    !.seen = IF job[j].deployed THEN @ ELSE Dates(tree.origin)]
    /\ Become(j, [IdleJob EXCEPT !.pc = "exit", !.nested = job[j].nested])
    /\ UNCHANGED <<day, main, lock, tree, found, pending, people, robbed>>

\* An exception, or a runner that exits non-zero: a note, nothing published.
Raises(j) ==
    /\ Inside(j) /\ job[j].pc # "exit"
    /\ Become(j, [IdleJob EXCEPT !.pc = "exit", !.nested = job[j].nested])
    /\ UNCHANGED <<day, main, lock, tree, found, pending, status, people, robbed>>

\* The invocation is over.  No later one reads the scratch files before it
\* has written them, so they are forgotten, unless another job is at work.
Over(j) ==
    /\ Become(j, IdleJob)
    /\ IF Others(j) # {}
       THEN UNCHANGED <<tree, found, pending>>
       ELSE /\ tree' = CleanTree
            /\ found' = [i \in Rec |-> NoValue]
            /\ pending' = status

\* finally: os.remove(LOCK), whoever's it is by now; a re-launched job's
\* parent does the same once more.
Exit(j) ==
    /\ job[j].pc \in {"exit", "parent"}
    /\ lock' = "free"
    /\ robbed' = (robbed \cup Others(j)) \ {j}
    /\ IF job[j].pc = "exit" /\ job[j].nested
       THEN Goto(j, "parent") /\ UNCHANGED <<tree, found, pending>>
       ELSE Over(j)
    /\ UNCHANGED <<day, main, status, people>>

\* The machine goes down: the lock file stays.
Kill(j) ==
    /\ job[j].pc # "idle"
    /\ Over(j)
    /\ robbed' = robbed \ {j}
    /\ UNCHANGED <<day, main, lock, status, people>>

-----------------------------------------------------------------------------
JobStep(j) ==
    \/ Enter(j) \/ FindStale(j) \/ TakeOver(j) \/ NothingToTakeOver(j)
    \/ Refused(j) \/ Fetch(j) \/ Relaunch(j) \/ Load(j) \/ Dump(j) \/ Gates(j)
    \/ Commit(j) \/ Push(j) \/ PushRejected(j) \/ Replay(j)
    \/ Publish(j) \/ Raises(j) \/ Exit(j) \/ Kill(j)

People == \E i \in Rec : HandStamp(i) \/ Edit(i)

Next == NextDay \/ LockAges \/ People \/ \E j \in Job : JobStep(j)

Spec == Init /\ [][Next]_vars

-----------------------------------------------------------------------------
(* Properties.                                                             *)

\* Every file and local keeps the shape the scripts give it.
TypeOK ==
    /\ day \in Nat /\ main \in Doc /\ lock \in {"free", "held", "stale"}
    /\ tree \in TreeType
    /\ found \in [Rec -> Value \cup {NoValue}]
    /\ pending \in StatusType /\ status \in StatusType
    /\ job \in [Job -> JobType]
    /\ stamps \subseteq Rec /\ edits \in Nat
    /\ raced \subseteq Rec /\ robbed \subseteq Job

\* job.py's lock: two jobs only ever work in the one worktree at the same time
\* if one of them lost its lock: to the other's six-hour rule, to the exit of
\* a re-launched job, or to another that had found the same lock file of a
\* killed job stale before it was taken over -- never because of kills alone
\* or an ordinary refusal.
OneAtATime ==
    \A j, k \in Job : Inside(j) /\ Inside(k) => j = k \/ {j, k} \cap robbed # {}

Pushes == \E j \in Job : Push(j)

\* REPLAY-1: a verification date that a push moves stands on a record that
\* says what the run's own fetch confirmed, however main moved meanwhile.
StampsWhatWasFetched ==
    [][Pushes => \A i \in Rec : main'.rec[i].date # main.rec[i].date =>
                                    main'.rec[i].val = found[i]]_vars

\* A push takes nothing back that someone else committed: no value, no later
\* date and no marker that holds a record for a human.
PushLosesNothing ==
    [][Pushes => /\ main'.asOf >= main.asOf
                 /\ \A i \in Rec :
                      /\ main'.rec[i].val = main.rec[i].val
                      /\ main'.rec[i].date >= main.rec[i].date
                      /\ main.rec[i].gap = "held" => main'.rec[i] = main.rec[i]]_vars

\* STALE-33/53: run after run on one day, and with the day's hand stamps
\* landing before, between or during them, no day's cpa_deadlines cohort
\* outgrows the cap at which the gate refuses the whole night's work.
CohortUnderCap == CohortsFit(main) /\ CohortsFit(tree.files)

\* STALE-5: as_of_date never reads fresher than the oldest record under it.
AsOfNotFresher == \A i \in Cpa : main.asOf <= main.rec[i].date

\* The watchdog is never shown a verification that is not live, except of a
\* record that was edited on main while a job was running.
StatusIsLive == \A i \in Rec \ raced : status.seen[i] <= main.rec[i].date

=============================================================================
