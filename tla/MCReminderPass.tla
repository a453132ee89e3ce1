---------------------------- MODULE MCReminderPass ----------------------------
(* Small instances of ReminderPass for TLC.                                 *)
EXTENDS ReminderPass, TLC

CONSTANTS p1, p2, r1, r2

PassSymmetry == Permutations(Pass)

(* The dashboard edits on the first day only; what follows is explored.     *)
EarlyEdits ==
    \A r \in Row : draft[r] # {} => day = 1 /\ row[r].cycle = 1

(* D1 throws on the first day, on r1: one bad record, and the row beside it. *)
OneBadRecord ==
    /\ lost[r2] = {}
    /\ lost[r1] # {} => day = 1
    /\ \A p \in Pass : pass[p].caught => day = 1 /\ pass[p].cur = r1

=============================================================================
