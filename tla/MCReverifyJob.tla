---------------------------- MODULE MCReverifyJob ----------------------------
(* Small instances of ReverifyJob for TLC.                                  *)
EXTENDS ReverifyJob, TLC

CONSTANTS j1, j2, j3

JobSymmetry == Permutations(Job)

Started == {j \in Job : job[j].pc # "idle"}
Nested == {j \in Started : job[j].nested}

(* One job at a time over days of other people's commits, or two jobs, and  *)
(* re-launched ones, on a morning when nobody has pushed yet.  Once a lock  *)
(* is lost two jobs share the worktree, and nothing is promised any more.   *)
OneOrQuiet ==
    /\ robbed = {}
    /\ \/ Cardinality(Started) <= 1 /\ Nested = {} /\ (Started = {} \/ lock = "held")
       \/ /\ day = 1 /\ edits = 0 /\ pending.failing = {}
          /\ \A i \in Rec : main.rec[i].date = 0

=============================================================================
