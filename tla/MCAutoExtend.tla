---------------------------- MODULE MCAutoExtend ----------------------------
(* The kinds of citation in the datasets: a page or a PDF with a fee or a   *)
(* number of hours (cpe_hours, renewal_fees, reinstatement), one of them at *)
(* an override, one without a specific anchor, and a page and a PDF of      *)
(* cpa_deadlines, which has no value to look for.                           *)
EXTENDS AutoExtend

Html == [pdf |-> FALSE, valued |-> TRUE, anchored |-> TRUE, overridden |-> FALSE]

MCKind == {Html,
           [Html EXCEPT !.pdf = TRUE],
           [Html EXCEPT !.pdf = TRUE, !.overridden = TRUE],
           [Html EXCEPT !.anchored = FALSE],
           [Html EXCEPT !.valued = FALSE],
           [Html EXCEPT !.pdf = TRUE, !.valued = FALSE]}

=============================================================================
