---------------------------- MODULE MCLocalReminders ----------------------------
(* One address and three states, seen on the last days before a deadline: in *)
(* ohio it is today and no other follows, so that a first reminder tomorrow  *)
(* is a late one; in texas it is today and comes back every two days; in     *)
(* utah it is in two days, so that one tier follows the other.               *)
EXTENDS LocalReminders

MCFirstDue == [s \in Slug |-> IF s = "utah" THEN 2 ELSE 0]
MCPeriod == [s \in Slug |-> IF s = "texas" THEN 2 ELSE 0]
=============================================================================
