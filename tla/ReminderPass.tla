------------------------------ MODULE ReminderPass ------------------------------
(***************************************************************************)
(* The escalating reminder pass of worker/src/scheduler.ts                 *)
(* (runReminderPass) over the subscribers table of worker/src/store.ts.    *)
(*                                                                         *)
(* Several passes may overlap (the daily cron, a cron retry, a redeploy,   *)
(* a manual run).  A pass reads every confirmed row once, then walks that  *)
(* stale snapshot, most urgent row first, and for each row with a newly    *)
(* due tier: checks suppression, claims the tier by compare-and-swap on    *)
(* reminders_sent, counts the send against the daily cap, and calls the    *)
(* provider.  Every one of those calls is an await, so each is a step of   *)
(* its own here and any other pass, subscriber click, dashboard edit,      *)
(* crash or day change may come between two of them.                       *)
(*                                                                         *)
(* reminders_sent is a JSON list in the code.  A claim appends a tier that *)
(* is smaller than every tier in the list (nextDueThreshold) and an        *)
(* unclaim filters, so the list is always strictly decreasing and the set  *)
(* of its members determines it: it is a set here.                         *)
(***************************************************************************)
EXTENDS Integers

CONSTANTS
    Row,          \* subscriber rows, each of a mailbox of its own
    Pass,         \* pass invocations that may be in flight at the same time
    NoRow,        \* "no row is being worked on"
    Tiers,        \* the default ESCALATION_THRESHOLDS_DAYS
    CustomTiers,  \* a firm's own reminder_thresholds
    CustomRow,    \* rows of a firm that has chosen CustomTiers
    FirmRow,      \* rows on a firm's roster: a dashboard edit can reach them
    UserRow,      \* rows with a "bring your own date" deadline
    Period,       \* length of a renewal period in days
    Grace,        \* GRACE_PERIOD_PAST_DEADLINE_DAYS
    CatchUp,      \* NEVER_NOTIFIED_CATCHUP_WINDOW_DAYS
    SnoozeDays,   \* SNOOZE_DAYS
    Cap,          \* the daily send cap
    LastDay,      \* bound: the last day explored
    MaxCycle,     \* bound: renewals explored per row
    SpansMidnight,\* may a pass still be running when the UTC day changes?
    D1Faults,     \* may a D1 call throw?
    Kills         \* may the Worker be killed in the middle of a pass?

ASSUME RowAssumption == NoRow \notin Row

ASSUME TierAssumption ==
    /\ Tiers \subseteq Nat \ {0}
    /\ CustomTiers \subseteq Tiers
    /\ CustomTiers # {}

ASSUME BoundAssumption ==
    /\ Period \in Nat \ {0} /\ Grace \in Nat /\ CatchUp \in Nat
    /\ SnoozeDays \in Nat /\ Cap \in Nat /\ LastDay \in Nat /\ MaxCycle \in Nat
    /\ SpansMidnight \in BOOLEAN /\ D1Faults \in BOOLEAN /\ Kills \in BOOLEAN

VARIABLES
    day,        \* the current UTC day
    row,        \* the subscribers table
    pass,       \* the local state of each pass
    draft,      \* the row a dashboard edit has read and not yet written back
    budget,     \* send_counters for the current day
    handed,     \* history: emails handed to the provider today
    okSent,     \* history: tiers sent and reported ok in the row's cycle
    dup,        \* history: rows sent some tier twice in one cycle
    lost,       \* history: claims left behind with nothing sent
    disturbed,  \* history: rows on which something took a claim away
    hitch       \* history: rows that changed under each pass, or failed in it

history == <<handed, okSent, dup, lost, disturbed, hitch>>
vars == <<day, row, pass, draft, budget, history>>

-----------------------------------------------------------------------------
(* Deadlines and tiers.                                                    *)

ThresholdsOf(r) == IF r \in CustomRow THEN CustomTiers ELSE Tiers

\* A computed deadline is the next occurrence on or after the day asked
\* about; a user-supplied one stays where it is.
Deadline(r, d) ==
    IF r \in UserRow THEN Period ELSE Period * ((d + Period - 1) \div Period)

DaysRemaining(r, d) == Deadline(r, d) - d

\* Mutant: nextDueThreshold without the "strictly more urgent" condition.
DueTiersForgetsOrder(days, sent, tiers) ==
    {t \in tiers : t \notin sent /\ days <= t}

\* nextDueThreshold: never a tier already sent, never one less urgent than
\* the most urgent sent, and of the rest the smallest that is due; 0 is null.
DueTiers(days, sent, tiers) ==
    {t \in tiers : /\ t \notin sent
                   /\ \A u \in sent : t < u
                   /\ days <= t}

Smallest(S) == CHOOSE t \in S : \A u \in S : t <= u

NextDue(days, sent, tiers) ==
    LET due == DueTiers(days, sent, tiers)
    IN  IF due = {} THEN 0 ELSE Smallest(due)

\* Mutant: the catch-up for everybody, every day.
TierForEveryDay(r, d, sent) ==
    LET days == DaysRemaining(r, d)
    IN  IF days >= -Grace THEN NextDue(days, sent, ThresholdsOf(r))
        ELSE Smallest(ThresholdsOf(r))

\* The tier a pass of day d gives row r, from the reminders_sent it read:
\* past the grace period only a row that was never reminded gets one, the
\* most urgent, and only inside the catch-up window.
TierFor(r, d, sent) ==
    LET days == DaysRemaining(r, d)
    IN  IF days >= -Grace THEN NextDue(days, sent, ThresholdsOf(r))
        ELSE IF sent = {} /\ days >= -CatchUp THEN Smallest(ThresholdsOf(r))
             ELSE 0

Suppressed(r) == row[r].reason = "unsubscribed"

-----------------------------------------------------------------------------
(* Types and the initial state.                                            *)

RowRecord == [status : {"confirmed", "stopped"},
              reason : {"none", "unsubscribed", "renewed"},
              sent : SUBSET Tiers,
              cycle : Nat,
              snoozed : Int]

PassRecord == [pc : {"idle", "loop", "check", "claim", "count", "send",
                     "unread", "unwrite"},
               asOf : Nat,
               todo : SUBSET Row,
               snap : [Row -> RowRecord],
               cur : Row \cup {NoRow},
               tier : Tiers \cup {0},
               epoch : Nat,         \* row cycle when the claim was won
               had : SUBSET Tiers,  \* what unclaim's own SELECT returned
               caught : BOOLEAN,    \* in the catch block already
               undone : BOOLEAN,    \* history: its revert did commit
               halt : BOOLEAN]      \* over the cap: break once unclaimed

NewRow == [status |-> "confirmed", reason |-> "none", sent |-> {},
           cycle |-> 1, snoozed |-> 0]

IdlePass == [pc |-> "idle", asOf |-> 0, todo |-> {},
             snap |-> [r \in Row |-> NewRow], cur |-> NoRow, tier |-> 0,
             epoch |-> 0, had |-> {}, caught |-> FALSE, undone |-> FALSE,
             halt |-> FALSE]

Init ==
    /\ day = 1
    /\ row = [r \in Row |-> NewRow]
    /\ pass = [p \in Pass |-> IdlePass]
    /\ draft = [r \in Row |-> {}]
    /\ budget = 0
    /\ handed = 0
    /\ okSent = [r \in Row |-> {}]
    /\ dup = {}
    /\ lost = [r \in Row |-> {}]
    /\ disturbed = {}
    /\ hitch = [p \in Pass |-> {}]

-----------------------------------------------------------------------------
(* What happens to a row between two steps of a pass.                      *)

Holding == {"count", "send", "unread", "unwrite"}

\* The claim of p is in the table, and p has not settled it yet.
Claimed(p) == pass[p].pc \in Holding /\ ~ pass[p].undone

Holders(r) == {p \in Pass : pass[p].cur = r /\ Claimed(p)}

\* History: r is no longer as the passes under way found it.
Touch(r) == hitch' = [p \in Pass |-> hitch[p] \cup {r}]

\* Passes that have already looked at the opt-out list for r.
PastCheck(r) ==
    {p \in Pass : pass[p].cur = r /\ pass[p].pc \in {"claim", "count", "send"}}

\* The one UPDATE of applyRenewAndRearm and of rearm.
Reset(r) ==
    /\ r \notin UserRow
    /\ row[r].cycle < MaxCycle
    /\ row' = [row EXCEPT ![r] = [status |-> "confirmed", reason |-> "none",
                                  sent |-> {}, cycle |-> @.cycle + 1,
                                  snoozed |-> 0]]
    /\ okSent' = [okSent EXCEPT ![r] = {}]
    /\ lost' = [lost EXCEPT ![r] = {}]
    /\ dup' = dup \ {r}
    /\ disturbed' = IF Holders(r) # {} THEN disturbed \cup {r}
                                       ELSE disturbed \ {r}
    /\ Touch(r)
    /\ UNCHANGED <<day, pass, draft, budget, handed>>

\* "I've renewed -- remind me next cycle", and the dashboard's "Mark renewed".
RenewAndRearm(r) == Reset(r)

\* The re-arm link of a row stopped with reason "renewed".
Rearm(r) ==
    /\ row[r].status = "stopped" /\ row[r].reason = "renewed"
    /\ Reset(r)

\* stop(): a row that is stopped already is left exactly as it is.
Stop(r, reason) ==
    /\ row[r].status = "confirmed"
    /\ row' = [row EXCEPT ![r] = [@ EXCEPT !.status = "stopped",
                                             !.reason = reason]]
    /\ UNCHANGED <<day, pass, draft, budget, history>>

\* snoozeByToken: refused from the day before the deadline on, and never
\* past the day before the deadline.
Snooze(r) ==
    LET due == Deadline(r, day)
        wanted == day + SnoozeDays
    IN  /\ row[r].status = "confirmed"
        /\ due - day > 1
        /\ row' = [row EXCEPT ![r].snoozed =
                                 IF wanted > due - 1 THEN due - 1 ELSE wanted]
        /\ UNCHANGED <<day, pass, draft, budget, history>>

\* updateFirmLicense, an edit that keeps the mailbox: a SELECT, and later an
\* UPDATE that writes back the lifecycle columns that SELECT returned.
EditRead(r) ==
    /\ r \in FirmRow
    /\ draft[r] = {}
    /\ draft' = [draft EXCEPT ![r] = {row[r]}]
    /\ UNCHANGED <<day, row, pass, budget, history>>

EditWrite(r) ==
    \E old \in draft[r] :
        /\ row' = [row EXCEPT ![r] = [@ EXCEPT !.status = old.status,
                                             !.reason = old.reason,
                                             !.sent = old.sent]]
        /\ disturbed' = IF old.sent # row[r].sent \/ Holders(r) # {}
                        THEN disturbed \cup {r} ELSE disturbed
        /\ draft' = [draft EXCEPT ![r] = {}]
        /\ Touch(r)
        /\ UNCHANGED <<day, pass, budget, handed, okSent, dup, lost>>

\* The counter is keyed by UTC day.  The cron fires at 18:00 UTC and no
\* invocation lives for six hours, so as a rule none is running at midnight.
NextDay ==
    /\ day < LastDay
    /\ SpansMidnight \/ \A p \in Pass : pass[p].pc = "idle"
    /\ day' = day + 1
    /\ budget' = 0
    /\ handed' = 0
    /\ UNCHANGED <<row, pass, draft, okSent, dup, lost, disturbed, hitch>>

-----------------------------------------------------------------------------
(* One pass.                                                               *)

Become(p, local) == pass' = [pass EXCEPT ![p] = local]

Goto(p, pc) == Become(p, [pass[p] EXCEPT !.pc = pc])

\* Mutant: a row that fails or is passed over ends the loop.
Break(p) ==
    Become(p, [pass[p] EXCEPT !.pc = "loop", !.todo = {}, !.cur = NoRow,
                              !.tier = 0, !.epoch = 0, !.had = {},
                              !.caught = FALSE, !.undone = FALSE,
                              !.halt = FALSE])

\* Leave the current row and go round the loop.
Continue(p) ==
    Become(p, [pass[p] EXCEPT !.pc = "loop", !.cur = NoRow, !.tier = 0,
                              !.epoch = 0, !.had = {}, !.caught = FALSE,
                              !.undone = FALSE, !.halt = FALSE])

\* The catch block of a row whose claim was won: unclaim, then go on.
Catch(p) ==
    Become(p, [pass[p] EXCEPT !.pc = "unread", !.had = {}, !.caught = TRUE,
                              !.halt = FALSE])

Finish(p) == Become(p, IdlePass)

\* allConfirmedActive: the snapshot the whole pass works from.
StartPass(p) ==
    /\ pass[p].pc = "idle"
    /\ Become(p, [IdlePass EXCEPT
                    !.pc = "loop", !.asOf = day, !.snap = row,
                    !.todo = {r \in Row : row[r].status = "confirmed"}])
    /\ hitch' = [hitch EXCEPT ![p] = {}]
    /\ UNCHANGED <<day, row, draft, budget, handed, okSent, dup, lost,
                   disturbed>>

Urgency(p, r) == DaysRemaining(r, pass[p].asOf)

\* The next row of the sorted snapshot.  A snoozed row and a row with no
\* tier due are passed over; otherwise the body of the loop begins.
Visit(p) ==
    /\ pass[p].pc = "loop"
    /\ \E r \in pass[p].todo :
        LET seen == pass[p].snap[r]
            tier == TierFor(r, pass[p].asOf, seen.sent)
            quiet == seen.snoozed >= pass[p].asOf \/ tier = 0
        IN  /\ \A q \in pass[p].todo : Urgency(p, r) <= Urgency(p, q)
            /\ IF quiet
               THEN Become(p, [pass[p] EXCEPT !.todo = @ \ {r}])
               ELSE Become(p, [pass[p] EXCEPT !.todo = @ \ {r}, !.pc = "check",
                                              !.cur = r, !.tier = tier])
    /\ UNCHANGED <<day, row, draft, budget, history>>

EndPass(p) ==
    /\ pass[p].pc = "loop"
    /\ pass[p].todo = {}
    /\ Finish(p)
    /\ UNCHANGED <<day, row, draft, budget, history>>

\* Mutant: the opt-out list is looked up in the snapshot.
CheckSuppressedInSnapshot(p) ==
    /\ pass[p].pc = "check"
    /\ IF pass[p].snap[pass[p].cur].reason = "unsubscribed"
       THEN Continue(p) ELSE Goto(p, "claim")
    /\ UNCHANGED <<day, row, draft, budget, history>>

\* isPermanentlySuppressed, read now and not from the snapshot.
CheckSuppressed(p) ==
    /\ pass[p].pc = "check"
    /\ IF Suppressed(pass[p].cur) THEN Continue(p) ELSE Goto(p, "claim")
    /\ UNCHANGED <<day, row, draft, budget, history>>

\* Mutant: the claim is an UPDATE without the compare.
ClaimableAlways(p) == TRUE

\* claimReminderThreshold: UPDATE ... WHERE reminders_sent = what was read.
Claimable(p) ==
    row[pass[p].cur].sent = pass[p].snap[pass[p].cur].sent

Claim(p) ==
    LET r == pass[p].cur
        t == pass[p].tier
    IN  /\ pass[p].pc = "claim"
        /\ IF Claimable(p)
           THEN /\ row' = [row EXCEPT ![r].sent =
                                        pass[p].snap[r].sent \cup {t}]
                /\ Become(p, [pass[p] EXCEPT !.pc = "count",
                                             !.epoch = row[r].cycle])
           ELSE /\ Continue(p)
                /\ UNCHANGED row
        /\ UNCHANGED <<day, draft, budget, history>>

\* The claim committed but the call threw: claimedThreshold is still false,
\* so the catch block does not revert it.
ClaimUnheard(p) ==
    LET r == pass[p].cur
        t == pass[p].tier
    IN  /\ D1Faults
        /\ pass[p].pc = "claim"
        /\ Claimable(p)
        /\ row' = [row EXCEPT ![r].sent = pass[p].snap[r].sent \cup {t}]
        /\ lost' = [lost EXCEPT ![r] = @ \cup {t}]
        /\ Continue(p)
        /\ UNCHANGED <<day, draft, budget, handed, okSent, dup, disturbed,
                       hitch>>

\* A read or a claim that throws before it does anything: on to the next row.
Skip(p) ==
    /\ D1Faults
    /\ pass[p].pc \in {"check", "claim"}
    /\ hitch' = [hitch EXCEPT ![p] = @ \cup {pass[p].cur}]
    /\ Continue(p)
    /\ UNCHANGED <<day, row, draft, budget, handed, okSent, dup, lost,
                   disturbed>>

\* Mutant: one send past the cap.
UnderCapOffByOne == budget <= Cap

\* checkAndCountSend: one upsert that only counts below the cap.
UnderCap == budget < Cap

CountSend(p) ==
    /\ pass[p].pc = "count"
    /\ IF UnderCap
       THEN /\ Goto(p, "send")
            /\ budget' = budget + 1
       ELSE /\ Become(p, [pass[p] EXCEPT !.pc = "unread", !.halt = TRUE])
            /\ UNCHANGED budget
    /\ UNCHANGED <<day, row, draft, history>>

\* The count threw, before or after it was taken: the catch block unclaims.
CountThrows(p) ==
    /\ D1Faults
    /\ pass[p].pc = "count"
    /\ \/ UNCHANGED budget
       \/ UnderCap /\ budget' = budget + 1
    /\ Catch(p)
    /\ UNCHANGED <<day, row, draft, history>>

\* sendEmail returned true (a 2xx from the provider).
SendOk(p) ==
    LET r == pass[p].cur
        t == pass[p].tier
        thisCycle == pass[p].epoch = row[r].cycle
    IN  /\ pass[p].pc = "send"
        /\ handed' = handed + 1
        /\ okSent' = IF thisCycle THEN [okSent EXCEPT ![r] = @ \cup {t}]
                                  ELSE okSent
        /\ dup' = IF thisCycle /\ t \in okSent[r] THEN dup \cup {r} ELSE dup
        /\ Continue(p)
        /\ UNCHANGED <<day, row, draft, budget, lost, disturbed, hitch>>

\* sendEmail returned false: a refusal, or a timeout after which the
\* provider may still deliver.  Either way the tier is given back.
SendFalse(p) ==
    /\ pass[p].pc = "send"
    /\ handed' = handed + 1
    /\ Goto(p, "unread")
    /\ UNCHANGED <<day, row, draft, budget, okSent, dup, lost, disturbed,
                   hitch>>

\* unclaimReminderThreshold, first its SELECT ...
UnclaimRead(p) ==
    /\ pass[p].pc = "unread"
    /\ Become(p, [pass[p] EXCEPT !.pc = "unwrite",
                                 !.had = row[pass[p].cur].sent])
    /\ UNCHANGED <<day, row, draft, budget, history>>

\* Mutant: the filter keeps the tier.
WithoutNothing(p) == pass[p].had

\* ... then its UPDATE, skipped when the list did not hold the tier.
WithoutTier(p) == pass[p].had \ {pass[p].tier}

AfterUnclaim(p) == IF pass[p].halt THEN Finish(p) ELSE Continue(p)

\* The UPDATE by id.  From a pass whose first revert had committed after all,
\* it takes away what another pass has claimed since.
GiveBack(p) ==
    LET r == pass[p].cur
    IN  IF pass[p].tier \in pass[p].had
        THEN /\ row' = [row EXCEPT ![r].sent = WithoutTier(p)]
             /\ disturbed' = IF pass[p].undone THEN disturbed \cup {r}
                                               ELSE disturbed
             /\ Touch(r)
        ELSE UNCHANGED <<row, disturbed, hitch>>

UnclaimWrite(p) ==
    /\ pass[p].pc = "unwrite"
    /\ GiveBack(p)
    /\ AfterUnclaim(p)
    /\ UNCHANGED <<day, draft, budget, handed, okSent, dup, lost>>

\* History: the claim pass p had on its row, if it still had it, is left behind.
LeaveClaim(p) ==
    LET r == pass[p].cur
    IN  lost' = IF Claimed(p) THEN [lost EXCEPT ![r] = @ \cup {pass[p].tier}]
                              ELSE lost

\* Either half of unclaim throws.  Outside the catch block that leads into
\* it, and to a second attempt (a capped pass then no longer halts); inside,
\* the error is swallowed and the tier stays claimed though nothing was sent.
UnclaimThrows(p) ==
    /\ D1Faults
    /\ pass[p].pc \in {"unread", "unwrite"}
    /\ IF pass[p].caught THEN LeaveClaim(p) /\ Continue(p)
                         ELSE Catch(p) /\ UNCHANGED lost
    /\ UNCHANGED <<day, row, draft, budget, handed, okSent, dup, disturbed,
                   hitch>>

\* The UPDATE of unclaim committed and the call threw all the same: the first
\* time, the catch block reverts once more what is reverted already.
UnclaimUnheard(p) ==
    /\ D1Faults
    /\ pass[p].pc = "unwrite"
    /\ pass[p].tier \in pass[p].had
    /\ GiveBack(p)
    /\ IF pass[p].caught
       THEN Continue(p)
       ELSE Become(p, [pass[p] EXCEPT !.pc = "unread", !.had = {},
                                      !.caught = TRUE, !.undone = TRUE,
                                      !.halt = FALSE])
    /\ UNCHANGED <<day, draft, budget, handed, okSent, dup, lost>>

\* The Worker is killed.  A claim it held stays in the table.
Kill(p) ==
    /\ Kills
    /\ pass[p].pc # "idle"
    /\ LeaveClaim(p)
    /\ Finish(p)
    /\ UNCHANGED <<day, row, draft, budget, handed, okSent, dup, disturbed,
                   hitch>>

-----------------------------------------------------------------------------
PassStep(p) ==
    \/ Visit(p) \/ EndPass(p) \/ CheckSuppressed(p) \/ Claim(p)
    \/ CountSend(p) \/ SendOk(p) \/ SendFalse(p)
    \/ UnclaimRead(p) \/ UnclaimWrite(p)

Fault(p) ==
    \/ ClaimUnheard(p) \/ Skip(p) \/ CountThrows(p) \/ UnclaimThrows(p)
    \/ UnclaimUnheard(p) \/ Kill(p)

Subscriber(r) ==
    \/ RenewAndRearm(r) \/ Rearm(r) \/ Snooze(r)
    \/ \E reason \in {"unsubscribed", "renewed"} : Stop(r, reason)

Dashboard(r) == EditRead(r) \/ EditWrite(r)

Next ==
    \/ NextDay
    \/ \E p \in Pass : StartPass(p) \/ PassStep(p) \/ Fault(p)
    \/ \E r \in Row : Subscriber(r) \/ Dashboard(r)

Spec == Init /\ [][Next]_vars

-----------------------------------------------------------------------------
(* Properties.                                                             *)

\* A pass that is past the top of its loop works on a row and on a tier.
PassTypeOK ==
    /\ pass \in [Pass -> PassRecord]
    /\ \A p \in Pass : pass[p].pc \notin {"idle", "loop"} =>
                           pass[p].cur \in Row /\ pass[p].tier \in Tiers

\* Every variable keeps the shape of the columns and locals it stands for.
TypeOK ==
    /\ day \in Nat /\ budget \in Nat /\ handed \in Nat
    /\ row \in [Row -> RowRecord]
    /\ PassTypeOK
    /\ draft \in [Row -> SUBSET RowRecord]
    /\ okSent \in [Row -> SUBSET Tiers]
    /\ lost \in [Row -> SUBSET Tiers]
    /\ dup \subseteq Row /\ disturbed \subseteq Row
    /\ hitch \in [Pass -> SUBSET Row]

\* Two overlapping passes never both send the same tier to a subscriber in
\* one renewal cycle (scheduler.ts's claim before send), whatever is refused,
\* thrown or killed, but on a row of which a claim was taken away: by a
\* renewal or a dashboard edit that rewrote reminders_sent in between, or by a
\* revert that had committed, reported an error and was made a second time.
NoDoubleSend == dup \subseteq disturbed

\* Overlapping passes, crashes, refusals and reverts together do what RemindOnce
\* says: each email of a cycle is more urgent than all before it (the claim
\* before the send, and nextDueThreshold's order).
Promise == INSTANCE RemindOnce WITH told <- okSent, twice <- dup,
                                    waived <- disturbed
RemindsOnce == Promise!Spec

\* A claim is one of a pass that is still at work, or its email went out.
Accounted(r, t) == t \in okSent[r] \/ \E p \in Holders(r) : pass[p].tier = t

\* A tier recorded as sent was sent, or is being sent, or was left behind in
\* one of three ways: the Worker was killed, the claim committed but the call
\* reported an error (the catch block does not revert it), or D1 refused the
\* revert twice.  Nothing else uses up a reminder, refusals and caps included;
\* rows of which a claim was taken away are excepted.
NoSilentLoss ==
    \A r \in Row \ disturbed : \A t \in row[r].sent :
        t \in lost[r] \/ Accounted(r, t)

\* However passes interleave, no more emails leave in a day than the cap.
CapHolds == handed <= Cap

\* After an opt-out the only emails that can still leave for the row are those
\* of passes that had already re-checked that very row: no pass joins them.
OptOutWindow ==
    [][\A r \in Row : Suppressed(r) /\ Suppressed(r)' =>
                          PastCheck(r)' \subseteq PastCheck(r)]_vars

\* Past the grace period a subscriber gets one catch-up at most, only if
\* never reminded in the cycle (unless something else rewrote the row), and
\* only inside the catch-up window.
CatchUpOnce ==
    [][\A p \in Pass : LET r == pass[p].cur
                           late == DaysRemaining(r, pass[p].asOf)
                       IN  SendOk(p) /\ late < -Grace =>
                               /\ late >= -CatchUp
                               /\ r \in disturbed \/ okSent[r] = {}]_vars

Due(r) == /\ row[r].status = "confirmed"
          /\ row[r].snoozed < day
          /\ TierFor(r, day, row[r].sent) # 0

\* A pass that comes to its end has served every row: one that is still due
\* then was given back, renewed or edited while the pass ran, or a read of its
\* own threw.  One bad row never costs another its reminder, and a tier given
\* back earlier is tried again by the next pass; a pass that met the day's cap
\* does not come to its end.  (Passes that end on the day they began.)
PassServesAll ==
    [][\A p \in Pass : EndPass(p) => \A r \in Row \ hitch[p] : ~ Due(r)]_vars

-----------------------------------------------------------------------------
(* Why NoDoubleSend and NoSilentLoss hold: the parts of the inductive       *)
(* invariant, for passes that end on the day they began.                    *)

\* Every pass works on the day it took its snapshot.
AsOfToday == \A p \in Pass : pass[p].pc # "idle" => pass[p].asOf = day

\* The tier a pass works on is the one its snapshot of the row called for.
Decided ==
    \A p \in Pass : pass[p].pc \notin {"idle", "loop"} =>
        pass[p].tier = TierFor(pass[p].cur, pass[p].asOf,
                               pass[p].snap[pass[p].cur].sent)

\* Until it is resolved, a claim is the last thing that happened to the row.
ClaimHeld ==
    \A r \in Row \ disturbed : \A p \in Holders(r) :
        /\ row[r].sent = pass[p].snap[r].sent \cup {pass[p].tier}
        /\ row[r].cycle = pass[p].epoch
        /\ okSent[r] \subseteq pass[p].snap[r].sent
        /\ pass[p].pc = "unwrite" => pass[p].had = row[r].sent

\* At most one pass has an unresolved claim on a row.
OneHolder == \A r \in Row \ disturbed : \A p, q \in Holders(r) : p = q

\* What was sent stays recorded.
SentRecorded == \A r \in Row \ disturbed : okSent[r] \subseteq row[r].sent

\* A pass whose revert has committed has only a revert before it.
UndoneReverts ==
    \A p \in Pass : pass[p].undone => pass[p].pc \in {"unread", "unwrite"}

\* An opt-out stops the row it is recorded on, in the table and in any draft.
OptOutStops ==
    \A r \in Row : \A old \in {row[r]} \cup draft[r] :
        old.reason = "unsubscribed" => old.status = "stopped"

\* Why PassServesAll holds: what a pass still believes of an unhitched row, and
\* that it has served those it has passed.
Served ==
    \A p \in Pass : pass[p].pc # "idle" => \A r \in Row \ hitch[p] :
        LET seen == pass[p].snap[r]
        IN  /\ row[r].status = "confirmed" => seen.status = "confirmed"
            /\ seen.snoozed >= day => row[r].snoozed >= day
            /\ row[r].sent = seen.sent \/ TierFor(r, day, row[r].sent) = 0
            /\ \/ r \in pass[p].todo \/ ~ Due(r)
               \/ pass[p].cur = r /\ pass[p].pc \in {"check", "claim"}

IInv == AsOfToday /\ Decided /\ UndoneReverts /\ ClaimHeld /\ OneHolder /\ SentRecorded

=============================================================================
