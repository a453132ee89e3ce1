------------------------------ MODULE MCSeatGate ------------------------------
(* Small instances of SeatGate for TLC.                                     *)
EXTENDS SeatGate, TLC

CONSTANTS q1, q2, q3, ann, bob, cat, dan, ga, tx, nc

(* Sound where adders and editors are the same requests or different ones.  *)
RequestSymmetry == Permutations(Adder) \cup Permutations(Editor)

Staff(w, st) == [who |-> w, state |-> st, entity |-> FALSE]
Permit(w, st) == [who |-> w, state |-> st, entity |-> TRUE]

StartPermit == <<Staff(ann, ga), Permit(ann, tx)>>
AskAny == {f \in Fields : f.entity => f.who = bob}
=============================================================================
