----------------------------- MODULE MCDeadlines -----------------------------
(* The rules of the states that scheduler.py lists, over a few years.       *)
EXTENDS Deadlines

CONSTANTS NoDate

Plain == [kind |-> "incomplete", m |-> 0, d |-> 0, parity |-> 0, term |-> 0,
          anchor |-> At(2023, 1, 1)]

MCRule ==
    {Plain}
    \* Texas, Oklahoma, New Mexico; California, Arizona
    \cup {[Plain EXCEPT !.kind = "birth_month", !.m = m] : m \in {1, 2, 12}}
    \cup {[Plain EXCEPT !.kind = "birth_month_parity", !.m = m, !.parity = p] :
              m \in {2, 12}, p \in {0, 1}}
    \* Kansas, Oregon
    \cup {[Plain EXCEPT !.kind = "fixed_day_parity", !.m = md[1], !.d = md[2],
                        !.parity = p] : md \in {<<7, 1>>, <<6, 30>>}, p \in {0, 1}}
    \* Washington, Puerto Rico
    \cup {[Plain EXCEPT !.kind = "anchor_year", !.m = md[1], !.d = md[2], !.term = 3,
                        !.anchor = At(y, 1, 1)] :
              md \in {<<6, 30>>, <<12, 1>>}, y \in 2021..2025}
    \* New Hampshire, Northern Mariana Islands
    \cup {[Plain EXCEPT !.kind = "anchor_date", !.term = n, !.anchor = a] :
              n \in {2, 3},
              a \in {At(2024, 2, 29), At(2023, 2, 28), At(2022, 12, 31), At(2025, 6, 1)}}
    \* Florida, individuals
    \cup {[Plain EXCEPT !.kind = "certificate_date", !.anchor = a] :
              a \in {At(2021, 6, 29), At(2021, 6, 30), At(2022, 7, 1), At(2023, 12, 31)}}
    \* Guam
    \cup {[Plain EXCEPT !.kind = "chosen_term", !.term = n, !.anchor = At(y, 1, 1)] :
              n \in 1..3, y \in {2022, 2024}}
    \* records with a stored date: Colorado, Minnesota, Maryland, South Carolina
    \cup {[Plain EXCEPT !.kind = "record", !.term = n, !.anchor = a] :
              n \in 0..3, a \in {At(2022, 8, 31), At(2024, 2, 1), At(2024, 2, 29)}}
    \* Ohio
    \cup {[Plain EXCEPT !.kind = "cohort", !.anchor = At(y, 12, 31)] : y \in {2023, 2026}}

MCWalkStart == At(2023, 12, 30)
MCWalkEnd == At(2028, 3, 2)
=============================================================================
