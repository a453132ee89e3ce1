---------------------------- MODULE RemindOnce ----------------------------
(***************************************************************************)
(* What the reminder pass promises a subscriber, without passes, claims,   *)
(* snapshots, counters or faults: in one renewal cycle each email is about *)
(* a tier more urgent than every tier the subscriber was told of before.   *)
(* The promise is given up, until the next cycle, for a row that something *)
(* else rewrites while an email about it is on its way.                    *)
(***************************************************************************)
EXTENDS Integers

CONSTANTS Row,    \* subscriber rows
          Tiers   \* days before the deadline, the smaller the more urgent

VARIABLES told,   \* the tiers the subscriber was told of in this cycle
          twice,  \* rows told of some tier more than once in this cycle
          waived  \* rows the promise is given up for

vars == <<told, twice, waived>>

Init == /\ told = [r \in Row |-> {}]
        /\ twice = {}
        /\ waived = {}

(* An email the promise covers. *)
Remind(r, t) ==
    /\ \A u \in told[r] : t < u
    /\ told' = [told EXCEPT ![r] = @ \cup {t}]
    /\ UNCHANGED <<twice, waived>>

(* An email about a row the promise is given up for: any tier, even again. *)
RemindWaived(r, t) ==
    /\ r \in waived
    /\ told' = [told EXCEPT ![r] = @ \cup {t}]
    /\ twice' \in {twice, twice \cup {r}}
    /\ UNCHANGED waived

Waive(r) ==
    /\ waived' = waived \cup {r}
    /\ UNCHANGED <<told, twice>>

(* A new cycle, which may begin while an email of the old one is on its way. *)
NewCycle(r) ==
    /\ told' = [told EXCEPT ![r] = {}]
    /\ twice' = twice \ {r}
    /\ waived' \in {waived \cup {r}, waived \ {r}}

Next == \E r \in Row : \/ Waive(r) \/ NewCycle(r)
                       \/ \E t \in Tiers : Remind(r, t) \/ RemindWaived(r, t)

Spec == Init /\ [][Next]_vars
=============================================================================
