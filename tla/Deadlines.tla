------------------------------ MODULE Deadlines ------------------------------
(***************************************************************************)
(* The deadline arithmetic of generate.py, which the site is built with    *)
(* and which reminders/scheduler.py calls (worker/src/deadline.ts is its   *)
(* port): for a subscriber's rule and the fields they gave, the next       *)
(* deadline on or after a day.  The day walks through the calendar, and    *)
(* pages and emails go on showing a date computed on an earlier day.       *)
(*                                                                         *)
(* A loop that tries one year after the other is the first of the dates it *)
(* would try; the two loops that move a date by replace(year=...) depend   *)
(* on the date they reached before and are recursive functions.            *)
(***************************************************************************)
EXTENDS Integers

CONSTANTS
    Rule,       \* the subscribers' rules and fields, records of RuleType
    None,       \* "no deadline can be computed"
    WalkStart,  \* bound: the first day of the walk
    WalkEnd,    \* bound: the last
    Horizon     \* bound: periods a loop may have to go through in that time

-----------------------------------------------------------------------------
(* The calendar.                                                           *)

Date == [y : Nat, m : 1..12, d : 1..31]

At(y, m, d) == [y |-> y, m |-> m, d |-> d]

Before(a, b) ==
    \/ a.y < b.y
    \/ a.y = b.y /\ a.m < b.m
    \/ a.y = b.y /\ a.m = b.m /\ a.d < b.d

Leap(y) == y % 4 = 0 /\ (y % 100 # 0 \/ y % 400 = 0)

MonthLastDay(y, m) ==
    IF m = 2 THEN IF Leap(y) THEN 29 ELSE 28
    ELSE IF m \in {4, 6, 9, 11} THEN 30 ELSE 31

InCalendar(t) == t.d <= MonthLastDay(t.y, t.m)

MonthEnd(y, m) == At(y, m, MonthLastDay(y, m))

Tomorrow(t) ==
    IF t.d < MonthLastDay(t.y, t.m) THEN [t EXCEPT !.d = @ + 1]
    ELSE IF t.m < 12 THEN At(t.y, t.m + 1, 1)
    ELSE At(t.y + 1, 1, 1)

\* d.replace(year=...), and day 28 when that raises (February 29).
InYear(a, y) == IF a.d > MonthLastDay(y, a.m) THEN At(y, a.m, 28) ELSE At(y, a.m, a.d)

-----------------------------------------------------------------------------
(* The loops.                                                              *)

First(S) == CHOOSE a \in S : \A b \in S : ~Before(b, a)

\* Mutant: a deadline that is today has passed.
ReachedTomorrow(a, asOf) == Before(asOf, a)

\* "A date due today has not passed."
Reached(a, asOf) == ~Before(a, asOf)

\* Years of the right parity a loop from asOf's year can end in.
ParityYears(asOf, parity) == {y \in asOf.y .. asOf.y + 3 : y % 2 = parity}

NextBirthMonthParityDate(asOf, m, parity) ==
    First({a \in {MonthEnd(y, m) : y \in ParityYears(asOf, parity)} : Reached(a, asOf)})

NextFixedDateParity(asOf, m, d, parity) ==
    First({a \in {At(y, m, d) : y \in ParityYears(asOf, parity)} : Reached(a, asOf)})

NextAnnualMonthEnd(asOf, m) ==
    IF Reached(MonthEnd(asOf.y, m), asOf) THEN MonthEnd(asOf.y, m)
                                          ELSE MonthEnd(asOf.y + 1, m)

NextAnchorYearTerm(anchorYear, m, d, term, asOf) ==
    First({a \in {At(anchorYear + k * term, m, d) : k \in 0..Horizon} :
              Reached(a, asOf)})

NextAnchorDatePlusTerm(anchor, term, asOf) ==
    LET step[k \in 0..Horizon] ==
            IF k = 0 THEN anchor ELSE InYear(step[k - 1], step[k - 1].y + term)
    IN  First({a \in {step[k] : k \in 0..Horizon} : Reached(a, asOf)})

\* Mutant: the first period end on or after the certificate date counts.
FirstFollowingOrSame(cert, m, d) ==
    IF ~Before(At(cert.y, m, d), cert) THEN cert.y ELSE cert.y + 1

\* The year of the first period end strictly after the certificate date.
FirstFollowingYear(cert, m, d) ==
    IF Before(cert, At(cert.y, m, d)) THEN cert.y ELSE cert.y + 1

NextCertificateDateInitialTerm(cert, periods, term, endM, endD, asOf, m, d) ==
    NextAnchorYearTerm(FirstFollowingYear(cert, endM, endD) + (periods - 1),
                       m, d, term, asOf)

\* _roll_forward_recurring_deadline: only a record that says how it recurs.
RollForward(rule, asOf) ==
    IF rule.term = 0 THEN rule.anchor
    ELSE NextAnchorDatePlusTerm(rule.anchor, rule.term, asOf)

-----------------------------------------------------------------------------
(* compute_subscriber_deadline.                                            *)

RuleType == [kind : {"birth_month", "birth_month_parity", "fixed_day_parity",
                     "anchor_year", "anchor_date", "certificate_date",
                     "chosen_term", "record", "cohort", "incomplete"},
             m : 0..12, d : 0..31, parity : 0..1, term : Nat, anchor : Date]

\* Every stored date is one of the calendar, and a rule that always renews
\* after some years does so after at least one.
ASSUME RuleAssumption ==
    /\ Rule \subseteq RuleType
    /\ \A r \in Rule : /\ InCalendar(r.anchor)
                       /\ r.kind \in {"anchor_year", "anchor_date"} => r.term > 0

\* The walk is over before a loop runs out of periods.
ASSUME WalkAssumption ==
    /\ WalkStart \in Date /\ InCalendar(WalkStart)
    /\ WalkEnd \in Date /\ WalkStart.y <= WalkEnd.y
    /\ None \notin Date
    /\ Horizon \in Nat
    /\ \A r \in Rule : WalkEnd.y < r.anchor.y + Horizon

ComputeSubscriberDeadline(rule, asOf) ==
    CASE rule.kind = "birth_month" -> NextAnnualMonthEnd(asOf, rule.m)
      [] rule.kind = "birth_month_parity" ->
           NextBirthMonthParityDate(asOf, rule.m, rule.parity)
      [] rule.kind = "fixed_day_parity" ->
           NextFixedDateParity(asOf, rule.m, rule.d, rule.parity)
      [] rule.kind = "anchor_year" ->
           NextAnchorYearTerm(rule.anchor.y, rule.m, rule.d, rule.term, asOf)
      [] rule.kind = "anchor_date" ->
           NextAnchorDatePlusTerm(rule.anchor, rule.term, asOf)
      [] rule.kind = "certificate_date" ->
           NextCertificateDateInitialTerm(rule.anchor, 3, 2, 6, 30, asOf, 12, 31)
      [] rule.kind = "chosen_term" ->
           LET due == At(rule.anchor.y + rule.term, 6, 30)
           IN  IF Reached(due, asOf) THEN due ELSE None
      [] rule.kind = "record" -> RollForward(rule, asOf)
      [] rule.kind = "cohort" -> rule.anchor
      [] OTHER -> None

-----------------------------------------------------------------------------
(* A subscriber's days.                                                    *)

VARIABLES
    rule,    \* the subscriber's rule and fields
    today,
    next,    \* what the scheduler computes today
    shown    \* what a page built, or an email sent, on some earlier day says

walkVars == <<rule, today, next, shown>>

WalkInit ==
    /\ rule \in Rule
    /\ today = WalkStart
    /\ next = ComputeSubscriberDeadline(rule, today)
    /\ shown = next

Wake ==
    /\ Before(today, WalkEnd)
    /\ today' = Tomorrow(today)
    /\ next' = ComputeSubscriberDeadline(rule, today')
    /\ UNCHANGED <<rule, shown>>

\* The site is built (table_clock: on today's date), or an email goes out.
Show ==
    /\ shown' = next
    /\ UNCHANGED <<rule, today, next>>

WalkNext == Wake \/ Show

Walk == WalkInit /\ [][WalkNext]_walkVars

-----------------------------------------------------------------------------
(* Reference: is a day a deadline of the rule, said without a loop?        *)

\* The date n years after a, February 29 falling back to February 28 in a
\* year without one.
Anniversary(a, x) ==
    x.m = a.m /\ (x.d = a.d \/ (a.m = 2 /\ a.d = 29 /\ x.d = 28 /\ ~Leap(x.y)))

EveryTerm(from, x, term) == x.y >= from /\ (x.y - from) % term = 0

\* The period ends strictly after the certificate date, up to the year of x.
PeriodEnds(cert, x) == {y \in cert.y .. x.y : Before(cert, At(y, 6, 30))}

LegalDay(r, x) ==
    CASE r.kind = "birth_month" -> x.m = r.m /\ Tomorrow(x).m # x.m
      [] r.kind = "birth_month_parity" ->
           x.m = r.m /\ Tomorrow(x).m # x.m /\ x.y % 2 = r.parity
      [] r.kind = "fixed_day_parity" ->
           x.m = r.m /\ x.d = r.d /\ x.y % 2 = r.parity
      [] r.kind = "anchor_year" ->
           x.m = r.m /\ x.d = r.d /\ EveryTerm(r.anchor.y, x, r.term)
      [] r.kind = "anchor_date" ->
           Anniversary(r.anchor, x) /\ EveryTerm(r.anchor.y, x, r.term)
      [] r.kind = "certificate_date" ->
           \* the third period end, or an even number of years later
           /\ x.m = 12 /\ x.d = 31
           /\ \E y \in PeriodEnds(r.anchor, x) :
                /\ \E a, b \in PeriodEnds(r.anchor, x) :
                       a < b /\ b < y /\ PeriodEnds(r.anchor, At(y, 6, 30)) = {a, b, y}
                /\ EveryTerm(y, x, 2)
      [] r.kind = "chosen_term" -> x = At(r.anchor.y + r.term, 6, 30)
      [] r.kind = "record" ->
           IF r.term = 0 THEN x = r.anchor
           ELSE Anniversary(r.anchor, x) /\ EveryTerm(r.anchor.y, x, r.term)
      [] r.kind = "cohort" -> x = r.anchor
      [] OTHER -> FALSE

FromLeapDay(r) ==
    r.kind \in {"anchor_date", "record"} /\ r.anchor.m = 2 /\ r.anchor.d = 29

-----------------------------------------------------------------------------
(* Properties.                                                             *)

\* Every deadline day of the rule is announced as today's deadline when it
\* comes, and no other day is: the loops neither skip a period nor add one.
\* (A rule anchored on a February 29 is the exception: carried into a year
\* without one it becomes February 28, and stays that in the next leap year.)
OnTheDay == ~FromLeapDay(rule) => (next = today <=> LegalDay(rule, today))

\* A date that a page or an email shows stays right until it has passed: no
\* rule moves a deadline that is still to come, whatever day it was asked on.
ShownStaysRight == shown # None /\ ~Before(shown, today) => next = shown

=============================================================================
