---------------------------- MODULE MCFirmBilling ----------------------------
(***************************************************************************)
(* The instance of FirmBilling that TLC explores: two checkout sessions    *)
(* and two webhook deliveries at once.  No action tells two sessions or    *)
(* two deliveries apart.                                                   *)
(***************************************************************************)
EXTENDS FirmBilling, TLC

Symmetry == Permutations(Sub) \union Permutations(Worker)

=============================================================================
