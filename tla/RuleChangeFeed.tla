---------------------------- MODULE RuleChangeFeed ----------------------------
(***************************************************************************)
(* The public feed of rule changes of one jurisdiction: from the research  *)
(* record and the monitor's event file, through                            *)
(* scripts/build_change_events.py, to the three places that read the feed: *)
(* the /rule-changes/ page (generate.py), the assistant API and the alert  *)
(* mails (worker/src).                                                     *)
(*                                                                         *)
(* Every stage is run by hand, in its own time: the law moves while a      *)
(* record waits to be re-verified, the feed to be rebuilt, the site to be  *)
(* rendered and the Worker, which carries a copy of the feed, to be        *)
(* deployed.  Dates are day numbers in UTC, 0 for none; the build host's   *)
(* own date may still be the day before.                                   *)
(***************************************************************************)
EXTENDS Integers, FiniteSets

CONSTANTS
    MaxEdits,  \* bound: times the record and the file are written
    MaxLaws,   \* bound: times the law moves
    LastDay    \* bound: the last day explored

ASSUME BoundAssumption ==
    MaxEdits \in Nat /\ MaxLaws \in Nat /\ LastDay \in Nat \ {0}

VARIABLES
    day,      \* today, in UTC
    law,      \* what the legislature and the board have decided
    record,   \* the jurisdiction's record in worker/src/mobility_rules.json
    file,     \* the monitor's event file of the same change
    feed,     \* data/reg_change_events.json: one event of each source
    bundle,   \* the copy of it the deployed Worker carries
    page,     \* the /rule-changes/ page as last rendered
    claims,   \* rule_change_notifications: events alerted, of one firm
    mailed,   \* history: alerts sent, with what was true that day
    enacted,  \* history: has the change ever been enacted?
    edits,    \* history: writes of the record and the file
    laws      \* history: moves of the law

vars == <<day, law, record, file, feed, bundle, page, claims, mailed, enacted, edits, laws>>

Source == {"mobility", "regwatch"}
Status == {"ENACTED", "ENACTED_DATE_PENDING", "ADOPTED_RULE", "PROPOSED", "DIED_WITHDRAWN"}
Day == 1..LastDay
Later == {d \in Day : d > day}

-----------------------------------------------------------------------------
(* Building the feed (build_change_events.py).                             *)

NoEvent == [kind |-> "none", eff |-> 0, status |-> "none", verified |-> 0,
            upcoming |-> FALSE, needs |-> FALSE]

\* Mutant: whatever date there is dates the change.
DatedByEither(r, today) == IF r.forward # 0 THEN r.forward ELSE r.recent

\* The date a record's event carries: a change still ahead, or one that was
\* recorded as consummated; never a date that merely went by.
Dated(r, today) == IF r.forward > today THEN r.forward ELSE r.recent

\* The status is authored or the record is withheld.
StatusOf(r) == r.status

\* build(), for the record of the jurisdiction.
MobilityEvent(r, today) ==
    LET eff == Dated(r, today)
    IN  CASE r.flux /\ r.cited /\ eff # 0 /\ StatusOf(r) # "none" ->
               [kind |-> "rule_change", eff |-> eff, status |-> StatusOf(r),
                verified |-> r.verified, upcoming |-> eff > today, needs |-> eff <= today]
          [] r.flux /\ r.cited /\ eff = 0 /\ r.forward = 0 /\ r.conflict ->
               [NoEvent EXCEPT !.kind = "source_conflict", !.verified = r.verified]
          [] OTHER -> NoEvent

\* load_difflab_events(): the monitor's claim to have re-verified counts when
\* it names a date; else a passed effective date asks for re-verification.
RegwatchEvent(f, today) ==
    IF f.status = "none" THEN NoEvent
    ELSE [kind |-> "rule_change", eff |-> f.eff, status |-> f.status, verified |-> f.verified,
          upcoming |-> f.eff > today,
          needs |-> IF f.claim # "none" /\ f.verified # 0 THEN f.claim = "yes"
                    ELSE f.eff # 0 /\ f.eff <= today]

-----------------------------------------------------------------------------
(* Reading the feed.                                                       *)

Adopted(e) == e.status \in {"ENACTED", "ADOPTED_RULE"}

\* Mutant: the page trusts the flag stored when the feed was built.
FlaggedUpcoming(e, d) == e.upcoming

\* generate.py's _is_still_upcoming.
IsStillUpcoming(e, d) == e.upcoming /\ e.eff > d

\* generate.py's _rc_pending_reverification.
PendingReverification(e) ==
    e.needs \/ (e.eff # 0 /\ e.verified # 0 /\ e.verified < e.eff)

\* build_rule_changes_page: the section an event of the feed is shown in.
Section(e, d) ==
    CASE e.kind # "rule_change" -> "none"
      [] e.kind = "rule_change" /\ e.eff = 0 ->
           IF Adopted(e) THEN "enacted, no date" ELSE "proposed, no date"
      [] e.kind = "rule_change" /\ e.eff # 0 /\ IsStillUpcoming(e, d) ->
           IF Adopted(e) THEN "upcoming" ELSE "proposed, with target"
      [] OTHER -> IF PendingReverification(e) THEN "passed, pending" ELSE "passed, confirmed"

\* Mutant: verified before the effective date is verified.
ConfirmedAtAll(e) == e.verified # 0 \/ ~e.needs

\* assistant.ts: neither flagged nor verified before the effective date.
Confirmed(e) == ~e.needs /\ ~(e.verified # 0 /\ e.verified < e.eff)

\* ruleChangeInForceStatus.
InForceStatus(e, d) ==
    CASE e.kind # "rule_change" \/ ~Adopted(e) -> "not_adopted"
      [] e.kind = "rule_change" /\ Adopted(e) /\ e.eff = 0 -> "undated"
      [] e.kind = "rule_change" /\ Adopted(e) /\ e.eff # 0 /\ e.upcoming /\ e.eff > d -> "upcoming"
      [] OTHER -> IF Confirmed(e) THEN "settled" ELSE "pending_reverification"

\* Mutant: the mail trusts the flag in the bundle, however old.
AheadByFlag(e, d) == e.upcoming

\* scheduler.ts's isStillUpcoming.
Ahead(e, d) == e.upcoming /\ e.eff > d

\* isEmailableRuleChangeEvent.
Emailable(e, d) == /\ e.kind = "rule_change" /\ Ahead(e, d)
                   /\ e.status = "ENACTED" /\ ~e.needs

\* event_id: a change that moves to another date is another event.
EventId(s, e) == IF s = "mobility" THEN <<s, e.eff>> ELSE <<s, 0>>

-----------------------------------------------------------------------------

Init ==
    /\ day = 1
    /\ law = [status |-> "none", eff |-> 0]
    /\ record = [flux |-> FALSE, cited |-> TRUE, forward |-> 0, recent |-> 0, status |-> "none",
                 conflict |-> FALSE, verified |-> 1]
    /\ file = [eff |-> 0, status |-> "none", verified |-> 0, claim |-> "none"]
    /\ feed = [s \in Source |-> NoEvent]
    /\ bundle = feed
    /\ page = [s \in Source |-> "none"]
    /\ claims = {} /\ mailed = {}
    /\ enacted = FALSE /\ edits = 0 /\ laws = 0

-----------------------------------------------------------------------------
(* The law (the world outside): a proposal with a target date or none, an  *)
(* enactment, at first perhaps without its date, a delay or a withdrawal.  *)
(* What has taken effect stays.                                            *)

InForce == law.status \in {"ENACTED", "ADOPTED_RULE"} /\ law.eff # 0 /\ law.eff <= day

LawMoves(status, eff) ==
    /\ laws < MaxLaws /\ ~InForce
    /\ CASE status = "PROPOSED" -> law.status = "none"
         [] status = "ENACTED" -> law.status \in {"PROPOSED", "ENACTED_DATE_PENDING", "ENACTED"}
         [] status = "ENACTED_DATE_PENDING" -> law.status = "PROPOSED" /\ eff = 0
         [] status = "ADOPTED_RULE" -> law.status \in {"PROPOSED", "ADOPTED_RULE"}
         [] status = "DIED_WITHDRAWN" -> law.status # "none"
    /\ status # "DIED_WITHDRAWN" => eff \in {0} \cup Later
    /\ status = "DIED_WITHDRAWN" => eff = law.eff
    /\ law.status = status => eff > law.eff
    /\ law' = [status |-> status, eff |-> eff]
    /\ enacted' = (enacted \/ status \in {"ENACTED", "ADOPTED_RULE"})
    /\ laws' = laws + 1
    /\ UNCHANGED <<day, record, file, feed, bundle, page, claims, mailed, edits>>

-----------------------------------------------------------------------------
(* People and the monitor write down what the law is today.  A record may  *)
(* lack its status, or be incomplete ("cited" stands for a citation with   *)
(* its link and a recognised sourcing label); a re-verifying monitor may   *)
(* say that nothing is left to verify, and may leave out the day it did.   *)

Research ==
    /\ edits < MaxEdits /\ law.status # "none"
    /\ \E status \in {law.status, "none"}, cited \in BOOLEAN :
         record' = [flux |-> TRUE, cited |-> cited, status |-> status,
                    forward |-> IF law.eff > day THEN law.eff ELSE 0,
                    recent |-> IF InForce THEN law.eff ELSE 0,
                    conflict |-> FALSE, verified |-> day]
    /\ edits' = edits + 1
    /\ UNCHANGED <<day, law, file, feed, bundle, page, claims, mailed, enacted, laws>>

\* The sources disagree and no date can be given.
ResearchConflict ==
    /\ edits < MaxEdits
    /\ record' = [record EXCEPT !.flux = TRUE, !.forward = 0, !.recent = 0, !.conflict = TRUE,
                                !.verified = day]
    /\ edits' = edits + 1
    /\ UNCHANGED <<day, law, file, feed, bundle, page, claims, mailed, enacted, laws>>

Monitor ==
    /\ edits < MaxEdits /\ law.status # "none"
    /\ \E claim \in {"yes", "no", "none"}, verified \in {0, day} :
         file' = [eff |-> law.eff, status |-> law.status, verified |-> verified, claim |-> claim]
    /\ edits' = edits + 1
    /\ UNCHANGED <<day, law, record, feed, bundle, page, claims, mailed, enacted, laws>>

-----------------------------------------------------------------------------
(* The pipeline.                                                           *)

\* main(): the feed is written anew; `today` is the build host's own date.
Build ==
    /\ \E today \in {day, day - 1} :
         feed' = [s \in Source |-> IF s = "mobility" THEN MobilityEvent(record, today)
                                   ELSE RegwatchEvent(file, today)]
    /\ UNCHANGED <<day, law, record, file, bundle, page, claims, mailed, enacted, edits, laws>>

\* The site is rendered, on the UTC date.
Render ==
    /\ page' = [s \in Source |-> Section(feed[s], day)]
    /\ UNCHANGED <<day, law, record, file, feed, bundle, claims, mailed, enacted, edits, laws>>

Deploy ==
    /\ bundle' = feed
    /\ UNCHANGED <<day, law, record, file, feed, page, claims, mailed, enacted, edits, laws>>

\* runRuleChangeAlertPass for one event and firm: claimed, then sent; a
\* refused send takes the claim back, which leaves everything as it was.
Alert(s) ==
    /\ Emailable(bundle[s], day)
    /\ EventId(s, bundle[s]) \notin claims
    /\ claims' = claims \cup {EventId(s, bundle[s])}
    /\ mailed' = mailed \cup {[eff |-> bundle[s].eff, late |-> InForce]}
    /\ UNCHANGED <<day, law, record, file, feed, bundle, page, enacted, edits, laws>>

NextDay ==
    /\ day < LastDay /\ day' = day + 1
    /\ UNCHANGED <<law, record, file, feed, bundle, page, claims, mailed, enacted, edits, laws>>

Next ==
    \/ \E status \in Status, eff \in {0} \cup Day : LawMoves(status, eff)
    \/ Research \/ ResearchConflict \/ Monitor
    \/ Build \/ Render \/ Deploy \/ NextDay
    \/ \E s \in Source : Alert(s)

Spec == Init /\ [][Next]_vars

-----------------------------------------------------------------------------
(* Properties.                                                             *)

DayOrNone == 0..LastDay

LawType == [status : Status \cup {"none"}, eff : DayOrNone]

RecordType == [flux : BOOLEAN, cited : BOOLEAN, forward : DayOrNone, recent : DayOrNone,
               status : Status \cup {"none"}, conflict : BOOLEAN, verified : DayOrNone]

FileType == [eff : DayOrNone, status : Status \cup {"none"}, verified : DayOrNone,
             claim : {"yes", "no", "none"}]

Event == [kind : {"none", "rule_change", "source_conflict"}, eff : DayOrNone,
          status : Status \cup {"none"}, verified : DayOrNone,
          upcoming : BOOLEAN, needs : BOOLEAN]

\* The feed, the bundle, the page and the claims stay within their types.
TypeOK ==
    /\ day \in DayOrNone /\ day >= 1
    /\ law \in LawType /\ record \in RecordType /\ file \in FileType
    /\ feed \in [Source -> Event] /\ bundle \in [Source -> Event]
    /\ \A s \in Source : feed[s].kind = "source_conflict" => feed[s].eff = 0
    /\ \A s \in Source : feed[s].kind = "rule_change" => feed[s].status \in Status
    /\ claims \subseteq Source \X DayOrNone

\* What the assistant API calls settled did take effect, on that date,
\* however late the record, the feed and the bundle are (assistant.ts:292-303).
\* Excepted is an event the monitor's file dates no verification of: the
\* builder asks for none, and the API takes its absence for no objection.
SettledIsTrue ==
    \A s \in Source :
        InForceStatus(bundle[s], day) = "settled" /\ bundle[s].verified # 0 =>
            InForce /\ law.eff = bundle[s].eff

\* For an adopted rule the page rendered today and the API say the same when
\* they read the same feed (SRC-80, SRC-82; assistant.ts:292-303).
PageMirrorsApi ==
    \A s \in Source :
        feed[s].kind = "rule_change" /\ Adopted(feed[s]) =>
            LET api == InForceStatus(feed[s], day)
                shown == Section(feed[s], day)
            IN  /\ shown = "upcoming" <=> api = "upcoming"
                /\ shown = "passed, confirmed" <=> api = "settled"
                /\ shown = "passed, pending" <=> api = "pending_reverification"

\* No firm is mailed about a coming change that is in force already, whatever
\* the age of the bundle (REGEN-8; scheduler.ts:925-944).
NoOldNewsByMail == \A m \in mailed : ~m.late

\* A change the research record dates in the past did take effect that day:
\* a date that went by while the record waited is not published as a change
\* (build_change_events.py:42-54).
RecentReallyHappened ==
    LET e == feed["mobility"]
    IN  e.kind = "rule_change" /\ Adopted(e) /\ ~e.upcoming => InForce /\ law.eff = e.eff

=============================================================================
