# DeadlineRadar: a formal model

DeadlineRadar tells CPAs when their licences have to be renewed and what the
rules of a jurisdiction are.  The deployed program is a Cloudflare Worker in
TypeScript (`worker/src`) over a D1 (SQLite) database, a static site rendered
by `generate.py`, and scripts that keep the published data verified
(`scripts/`).  Resend sends the email, Stripe bills.  The Worker was ported
from a local Python prototype (`reminders/`), which is still in the repository.

This directory holds TLA+ modules of that logic, the TLC runs that check them
and the TLAPS proofs about them.  `PROJECT.json` says which definition stands
for which lines of the source, which run checks which property, which change of
the code each property notices, and which hazards of the code they answer.

Sections: 1 the system, 2 the plan and what is left of it, 3 the modules, 4 the
runs, their bounds and the fairness assumed, 5 the proofs, 6 what the models
found, 7 what is not modelled.

## 1. The system

| Part | State | Operations | What is hard about it |
|---|---|---|---|
| Reminder pass (`worker/src/scheduler.ts`, `sender.ts`) | a snapshot of the confirmed rows, `reminders_sent`, `send_counters` | `runReminderPass`: visit, re-check, claim, count, send, unclaim | passes overlap; the snapshot is stale; every call may throw or the Worker be killed; at most once per tier against at least once on failure |
| Subscriber lifecycle (`store.ts`, `index.ts`) | the `subscribers` table and its tokens | subscribe, confirm, stop, re-arm, renew, the firm's add, edit, renew, remove; a bounce | each is a read, then an unconditional write by id; links stay in old emails; an opt-out is recorded on one row and counts for all rows of the mailbox |
| Seat gate (`seat_usage.ts`, `index.ts`) | the firm's roster against its seat caps and line ceilings | add, edit, remove, the first two checked before and after the write | two admins at once; shared `created_at`; the second check may be lost |
| Billing (`index.ts`, `subscription_sync.ts`, `store.ts`) | `firms`, `stripe_webhook_events`, `founding_firm_grants` | checkout sessions, the portal, webhooks | webhooks duplicated, reordered, overlapping; a crash after the ledger insert; one free year per grant |
| Roster pause (`store.ts`, `scheduler.ts`) | plan tier, trial, the marker of a pick, `paused_at` per row | `reconcileRosterPauseState`, `setRosterActivePicks`, the nightly pass | stale reads of the firm; one UPDATE per row; nothing may disarm the cap for good or keep a payer paused |
| Deadline arithmetic (`generate.py`, `deadline.ts`) | none | the loops behind `compute_subscriber_deadline` | parity years, leap days, a period end on the certificate's own day |
| Re-verification job (`scripts/reverify`) | a lock file, one worktree, the data files on `main`, the status file | lock, fetch, stamp, gates, push, replay, publish | people commit meanwhile; kills; a cap on how many records share a date; the job may run its own newer version |
| Citation auto-extend (`scripts/citation_auto_extend_check.py`) | baselines and verified dates in the datasets, proposals, an approval token | manual pass, run, approve, apply | a date is moved without looking for the value; stale approvals; a run killed half way |
| Rule-change feed (`scripts/build_change_events.py`, `generate.py`, `assistant.ts`, `scheduler.ts`) | the research record, the event file, the feed, the Worker's copy, the page | research, build, render, deploy, alert | four copies of different ages while the law moves |
| Local prototype (`reminders/`) | `subscribers.json`, the circuit breaker's file | the server's handlers, a scheduler pass | two processes rewrite one file without a lock; kills between truncation and write |
| Other parts | | authentication, digests, SMS and chat alerts, drip and newsletter mail, deletion, mobility rules, rendering | section 7 |

How they interact: the passes read what the handlers write (`subscribers`,
`firms`); the handlers and the passes share the database and the send counters;
a Stripe webhook changes the tier the roster pause and the seat caps depend on;
the links in the emails the passes send lead back to the handlers; the
re-verification job and the auto-extend script move the dates the site and the
feed publish.  The Worker has no locks: what protects its data is
compare-and-swap (`claimReminderThreshold`), an upsert with a guard
(`checkAndCountSend`), insert-if-absent (`recordWebhookEventIfNew`), a
conditional stamp (`claimFoundingFirmTrialStart`) and checks repeated after a
write (`addViolatesAfterInsert`, `editViolatesAfterUpdate`).

**Grain of the models.**  Every handler and cron pass of the Worker is an
`async` function.  One D1 statement (or one `db.batch`) is atomic; between two
of them anything else may run.  A step of a Worker model is what happens
between two awaits, and never more than one write to the database.  In the
Python models a step is one access to a shared file, one `git` command, or one
mail.

What makes each part correct:

* *Reminder pass*: every email of a cycle is more urgent than all before it; no
  tier is used up without an email but in the ways known; never more emails in
  a day than the cap; no pass that re-checks a row after its opt-out mails it;
  one late catch-up at most; a pass that comes to its end has served every row.
* *Subscriber lifecycle*: nobody is reminded without the consent of the very
  mailbox; an opt-out silences every row of the mailbox; a line taken off a
  roster does not come back by itself.
* *Seat gate*: racing requests together never grow the roster past a limit, and
  a seat that is refused to one racer went to another.
* *Billing*: once everything is answered the row is what Stripe bills; a
  checkout is applied once; no cancellation drops another subscription; one
  grant gives one free year.
* *Roster pause*: who pays ends up with everybody reminded, who does not ends
  up within the cap, and a choice that was made is kept.
* *Deadlines*: every deadline day of a rule is announced and no other day is.
* *Re-verification*: one job at a time; a push stamps only what was fetched and
  takes nothing back; no cohort outgrows the gate's cap.
* *Auto-extend*: an automatic date is true, within the ceiling, and approved.
* *Feed*: nothing is called settled that did not take effect.
* *Prototype*: the double opt-in holds whatever is lost.

## 2. The plan

| Module | What it models | State |
|---|---|---|
| `ReminderPass` | the pass with overlap, faults, clicks and edits | checked, proved |
| `RemindOnce` | what the pass promises a subscriber, abstractly | refined by `ReminderPass`: checked and proved |
| `SubscriberLinks` | the life of a row, requests overlapping | checked, proved |
| `SeatGate` | adds, edits and removals against the caps | checked, proved (the seat cap: without edits) |
| `FirmBilling` | checkout, portal, webhooks, the founding grant | checked, proved |
| `RosterPause` | reconciliation, picks, the nightly pass | checked, its safety proved |
| `ReverifyJob` | the unattended job | checked, proved |
| `AutoExtend` | the verified dates no person moves | checked, proved |
| `RuleChangeFeed` | feed, page, API and alert | checked, proved |
| `Deadlines` | the date loops | checked, proved |
| `LocalReminders` | the prototype's two processes | checked, proved |

What is left, in the order it would be worth doing: the referral reward and the
invoice events of billing; `FirmBilling` and `RosterPause` composed (today a
change of plan is a free action of `RosterPause`); a third editor in `SeatGate`;
the one-time login tokens; the digest and chat ledgers as instances of the
claim protocol; a proof of `GrowsWithinCap` for two edits.

## 3. The modules

The `MC` modules only name model values, small data and symmetry sets, and in
four cases a CONSTRAINT (section 4).  Slips that a change of the code might
make (a dropped guard, a comparison that is off by one, a filter that keeps
what it should drop) stand beside the definition they would replace, marked as
mutants or slips; `PROJECT.json` pairs each with the property that notices it.
Variables marked *history* have no counterpart in the code, and no guard of a
code action reads them.

### ReminderPass and RemindOnce

`row` is the `subscribers` table as far as a pass is concerned (`status`,
`stop_reason`, `reminders_sent`, `cycle`, `snoozed_until`), `pass` holds the
locals of every invocation of `runReminderPass`, `draft` the row an edit has
read, `budget` the day's `send_counters` row.

A pass goes `StartPass` (the SELECT of all confirmed rows), then per row `Visit`
(sorted by urgency; snooze and `nextDueThreshold` on the snapshot),
`CheckSuppressed`, `Claim` (compare-and-swap), `CountSend`, `SendOk` or
`SendFalse`, and on a refusal `UnclaimRead` and `UnclaimWrite`
(`unclaimReminderThreshold` is a SELECT followed by an UPDATE).  `ClaimUnheard`,
`Skip`, `CountThrows`, `UnclaimThrows`, `UnclaimUnheard` are D1 calls that throw
before or after they took effect, `Kill` ends the Worker anywhere.  A revert
that committed and threw is made again by the catch block (`undone`), and from
then on may take away what another pass has claimed since (`GiveBack`).  The
histories `lost` and `disturbed` note which claims were left behind with nothing
sent, and on which rows a claim was taken away; `hitch` notes, for each pass,
the rows that changed under it or on which it failed.  `RenewAndRearm`, `Rearm`,
`Stop` and `Snooze` are the clicks, `EditRead` and `EditWrite` the firm's edit.

`reminders_sent` is a JSON list in the code and a set here: a claim only
appends a tier below all the others and an unclaim only removes one, so the
list is determined by its members.  Left out: the abort on stale rule data, the
skips of demo and test tenants, digest mode, and the wording of the emails.

`RemindOnce` has no passes, claims or faults: it says that in one cycle each
email is about a more urgent tier than every one before it, unless the promise
is waived for a row of which a claim was taken away.  `ReminderPass` instantiates
it (`told <- okSent`, `twice <- dup`, `waived <- disturbed`); the property
`RemindsOnce` is the abstract specification.

### SubscriberLinks

`row` is again the `subscribers` table, here with the mailbox, the tokens (`ask`
is `confirm_token`, `link` both `unsubscribe_token` and `renewed_token`, which
are always made and looked up together) and the stamps `confirmed_at` and
`stopped_at` that `isPermanentlySuppressed` compares.  `mail` is every email
that reached a mailbox: its links can be clicked at any later time, and any
number of times.  Every operation that reads a row, checks it and later writes
it by id is two actions (`ConfirmRead`, `ConfirmWrite`; `StopRead`, `StopWrite`;
`NextCycleRead`, `RearmRead` and `RenewRead` with `RearmWrite`; `Look` and
`Insert`), the firm's edit four (`EditRead`, `EditConflict`, `EditSelect`,
`EditWrite`).  `Bounce` is the Resend webhook.  `Write` is the write by id; it
notes in `crossed` that the row was no longer what the request had read.  A
request by a link knows whose mailbox the link was mailed to (`box`), since a
firm that re-addresses a row replaces its confirm token and keeps the other
tokens: the histories `said` and `waived` are about the person who clicked, the
row may by then mail another (`Stray`).  Left out: the signup cooldown and the
resend of a confirmation, edits that change the state of a line, the digest
switch, and `restoreFirmLicenseAfterLostEdit` (in `SeatGate`).

### SeatGate

`roster` is the firm's lines (`email`, state, entity or person, `created_at`,
`last_edited_at`, live or removed) and `req` the locals of each request.  An
addition goes `AddCheck` (duplicate?), `AddDecide` (`decideAdd` on the roster
read), `AddStamp` (`created_at` is taken before the INSERT), `AddInsert`,
`AddRecheck` (`addViolatesAfterInsert`), `AddUndo`; an edit goes `EditRead`,
`EditConflict`, `EditDecide`, `EditSelect`, `EditWrite`, `EditRecheck`,
`EditRestore`.  `LoseCheck` is the second read that throws, or a Worker that
dies before it: by the code's own comment the write then stands.  `Tick`
advances the clock, so that inserts share a stamp, or carry the stamps in
another order than they commit in.

### FirmBilling

`row` is the firm's billing columns, `grant` its founding-firm slot, `session`
the checkout sessions with the metadata they were opened with, `stripe` what
Stripe bills, `sent` every event Stripe has emitted (delivered any number of
times, in any order), `ledger` the table `stripe_webhook_events`, `job` the
await each delivery's handler is suspended at.  `OpenSession` is
`handleFirmBillingCheckout`, `SwitchInPortal` and `EndInStripe` are the portal
and Stripe.  A delivery goes `Duplicate`, `DeliverCheckout` then `ClaimTrial`,
`RejectTrial` or `ApplyCheckout`; `DeliverDeletion` then `FindFirm`,
`RevertToFree`; `DeliverUpdate` then `FetchSnapshot`, `MirrorTier`.  `Die` is a
killed isolate or a throw: the ledger row stays, so a checkout or a deletion is
never retried.  The history `stuck` names, per subscription, why the row is
known to be out of step (`lost`, `early`, `stale`, `unsynced`, `unstamped`,
`byhand`); the properties except exactly those.  Left out: the referral reward,
invoice events, the cancellation toggle, proration and the notification emails.

### RosterPause

One firm whose roster is over the unpaid cap throughout.  `tier`, `trial` and
`choice` are the firm's columns, `paused` the rows with `paused_at`, `visit`
what each invocation has read, `approved` whether the operator lets the nightly
pass run at all (`SwitchApproval`).  The pass lists only firms that ever had a
trial (`Listed`); a dashboard load reconciles any.  `ReadFirm`, `ReadRoster`
(the decision), `ClearMarker`, `UnpauseEveryone` and `WriteRow` (one UPDATE a
row, pauses first) are `reconcileRosterPauseState`; `StartPick` and `SavePick`
are `handleFirmRosterActivePicks` with its one batch and the reconciliation that
follows; `ChangePlan` and `TrialMovesOn` are checkout, cancellation and the
calendar.  The history `crossed` says that, when the pick now marked was saved,
a reconciliation that had not seen it was under way.  Firm-entity lines, which
are never paused, are left out.

### ReverifyJob

`main` is the data files on `origin/main`, `tree` the one worktree (files, HEAD,
its view of `origin/main`, and whether it is behind), `found` the results file,
`pending` and `status` the two status files, `lock` the lock file (`stale` once
six hours old), `job` the invocations.  A job goes `Enter`, or `FindStale` and
then `TakeOver` (or `NothingToTakeOver`), or `Refused`, `Fetch`, perhaps
`Relaunch` (main carries a newer `job.py`), `Load`, `Dump`, `Gates`, `Commit`,
`Push` or `PushRejected` with `Replay`, `Publish`, `Exit`; `Raises` and `Kill`
end it anywhere.  `HandStamp` and `Edit` are what people push meanwhile.  A tie
between equally old records, broken by a hash in the code, is broken by the
record's number.  Left out: the text of notes, `--no-push`, `--all`, the
coverage statistics.

### AutoExtend

`cite` is what kind of citation a record has, `page` what each source serves
today, `rec` the record's baseline, its manual and its public date, `run` one
invocation of the script, `report` and `token` the proposals and the approval
file.  `ManualPass` is a person's verification, which anchors a baseline;
`StartRun`, `Evaluate`, `ReportOnly`, `Refuse`, `Approve`, `Apply`, `Finish`
are `main()` with and without `--apply`; `Killed` ends it anywhere;
`GrantToken` is the person who approves.  What a page shows is one of five
values that the checks can and cannot tell apart; how an anchor is found in a
page's text is abstracted to what it proves.  `good`, the days on which a
source did show the value, is history: no step of the script knows it.

### RuleChangeFeed

One change of law in one jurisdiction, through the research record and the
monitor's event file (`Research`, `ResearchConflict`, `Monitor`), the feed
(`Build`, on the build host's own date, which may be the day before), the page
(`Render`), the Worker's copy (`Deploy`) and the alert mails (`Alert`), while
`LawMoves` and `NextDay` go on.  `Section` is the section of the page an event
is shown in, `InForceStatus` what the assistant API answers, `Emailable` the
alert's filter.

### Deadlines

The loops of `generate.py` behind `compute_subscriber_deadline`.  A loop that
tries one year after the other is the first of the dates it would try; the two
that move a date by `replace(year=...)` depend on the date they reached before
and are recursive functions.  `LegalDay` is the reference: it says without any
loop whether a day is a deadline of a rule.  The specification is `Walk`: the
day goes through the calendar from `WalkStart` to `WalkEnd` (`Wake`), and `Show`
keeps a date that was computed on an earlier one.

### LocalReminders

The prototype's server and one scheduler pass at a time: each reads
`subscribers.json` whole, changes it in memory, truncates the file (`Truncate`)
and writes it back (`Write`); `Check` and `Post` are the circuit breaker and
the mail.  `Subscribe`, `AddPending` and `Follow` (the four links) are the
server's, `StartPass`, `SkipRow`, `DueRow`, `Mark`, `EndPass` the scheduler's.
`Kill` ends a process anywhere.  The history `spoilt` records that an update of
a file, or a sent mark, was lost.  Left out: Turnstile, rate limits and the
whitelist sender.

## 4. The runs

| Run | Instance | What it shows |
|---|---|---|
| `pass` | two passes, one firm row, two tiers, two days, a cap of three, two cycles, edits on the first day, D1 calls that throw, kills | `NoDoubleSend`, `NoSilentLoss`, `CapHolds`, `OptOutWindow`, `RemindsOnce` (the refinement) |
| `late` | two passes, a row with its own thresholds and a "bring your own date" row, four days, past the catch-up window; D1 throws on one of them | `CatchUpOnce`, `PassServesAll` |
| `seats` | two requests, each an addition or an edit, beside a removal, over a roster with a person and a firm permit | `CeilingsAtRest`, `SeatGoesToSomeone`, `GrowsWithinCap` |
| `links` | every operation, two requests at once on one row; one at a time on two rows, two mailboxes, two states | `DoubleOptIn`, `OptOutSticks`, `RemovedStaysOff` |
| `links_opt_out` | two lines of one person, one opt-out, one removal | the code does not keep `OptOutIsPermanent` |
| `billing` | two checkout sessions, two deliveries at once, two tiers, two switches, kills | `RowFollowsStripe`, `NobodyDroppedByAnother`, `CheckoutAppliesOnce`, `OneFreeYear` |
| `roster` | three people on a cap of one, the cron and two other invocations, three changes of plan | `ChoiceIsKept`, `CapSettles`, `PaidRosterRuns` |
| `reverify` | four records, one of them manual, two jobs | `OneAtATime`, `CohortUnderCap`, `AsOfNotFresher`, `StatusIsLive`, `StampsWhatWasFetched`, `PushLosesNothing` |
| `autoextend` | one record of any of six kinds, four days, two changes of the source, two approvals | `AutoDateIsTrue`, `AutoWithinCeiling`, `OnlyApprovedIsApplied` |
| `feed` | four days, three moves of the law, two writes of record or file | `SettledIsTrue`, `PageMirrorsApi`, `NoOldNewsByMail`, `RecentReallyHappened` |
| `deadlines` | ten kinds of rule, 30 December 2023 to 2 March 2028 | `OnTheDay`, `ShownStaysRight` |
| `prototype` | one address, three states, two days, two processes, kills | `CapHolds`, `DoubleOptIn`, `TierOnce`, `OptOutHolds`, `OneConfirmationADay` |

Deadlock is checked wherever something can always be started (a pass, a job, an
invocation, a build, a request that finds the file as it was).  `seats`, the
two runs of `SubscriberLinks` and `billing` run out of requests, tokens or
sessions and `deadlines` out of days, so there the system may stop.

**Bounds.**  Every bound is a constant in a guard, or one of four CONSTRAINTs.

* *`pass`*: a claim is decided by one compare-and-swap against what one other
  actor wrote, so two passes are every race of it, and the theorems remove the
  bound.  Two tiers are enough to be out of order.  `Grace`, `CatchUp` and
  `SnoozeDays` keep the order of the real numbers (3, 14 and 14).  The
  constraint `EarlyEdits` stops exploring beyond an edit that is under way
  after the first day: an edit is either a restart of the row's cycle or a
  write over a claim, and the first day has both.  A cap of three on two days is
  reached, and leaves room for an email too many.
* *`late`* reaches all ranges of days: due, late inside the grace period, late
  inside and past the catch-up window.  The second row is the one that must not
  suffer for the first: the constraint `OneBadRecord` lets D1 throw on one of the
  two, on the first day; when it throws on both, neither is promised anything.
  Kills, and throws on later days, are in `pass`.
* *`seats`*: two racers with a cap that leaves one seat are the race the gate
  is for; the third request is the removal.  `AskAny` lets a firm permit be
  asked for by one person only.  `LastTick` bounds clock readings and not
  time: one tick is enough for two stamps to differ, to be equal or to be out
  of order.
* *`links`*: one row and two requests give every overlap of two operations on a
  row, with a second mailbox it can be re-addressed to.  Two rows of two
  mailboxes are the smallest case in which an opt-out of one row concerns another
  and its link may be another mailbox's.  The constraint `OneOrTwo` explores
  both and not their product: on one row it stops where two edits are under way
  at once and where a mail has bounced; on two rows it has one request at a
  time, signups, additions, confirmations, opt-outs and edits, and goes one step
  beyond the second email.  It takes the first row to be of one of the two
  states, which no action tells apart.  Two ticks are a stamp before, at and
  after another.  `OptInFirst`, `RemovalHolds` and `OptOutHolds` remove these
  bounds.
* *`billing`*: two subscriptions are what "another one" needs, two deliveries
  what a race needs, and the theorems remove both bounds.
* *`roster`*: three people on a cap of one distinguish the default from a pick
  of one and from a pick of none.  Picks are saved at any time, during a
  reconciliation too.
* *`reverify`*: `MaxShared` 3 with one hand stamp and a margin of one leaves
  room for one automatic stamp a day, so that the cap is reached.  The
  constraint `OneOrQuiet` has two jobs, and re-launched ones, only on a morning
  when nobody has pushed yet, and stops at a state in which a lock was lost,
  after which two jobs share the worktree and nothing is promised.
* *`autoextend`*: a record's baseline, date and source are its own, and only the
  set of proposals ties records together; one record of each kind therefore
  shows the first two properties, and the theorems remove the bound.  A ceiling
  of one day in four days is passed.
* *`feed`*: three moves of the law are a proposal, an enactment and a delay or
  a withdrawal; four days leave a day before, at and after an effective date
  and one for a stale copy.
* *`deadlines`*: two leap days and both parities of the year.  `Horizon` is the
  number of periods a loop may need before the walk is over; the code's loops
  have no such bound, and `WalkAssumption` says that the walk never meets it.
  The theorems hold of every walk, however long.
* *`prototype`*: two rows and four requests are a signup, its confirmation, an
  opt-out and one thing more.  The two days are the last ones before a deadline:
  in `ohio` it is today and no other follows, so that a first reminder tomorrow
  is a late one; in `texas` it comes back, so that tomorrow's tier is one of the
  next deadline; in `utah` one tier follows the other.  The signup cooldown and
  the breaker's daily count look back one day.

**Fairness.**  Only `roster` has any.  `PaidRosterRuns` and `CapSettles` assume
`WF(ReadFirm(Cron))`, because the nightly pass comes round every day, and
`WF(Step(w))`, because an invocation that has begun goes on.  The pass runs only
while its approval is in the environment (`scheduler.ts:2951`) and reads only
firms that had a trial (`store.ts:3702`); both are guards of `ReadFirm(Cron)`, so
the fairness says nothing of a pass that is not approved or of a firm it does
not list, and the properties ask for both.  That a due tier comes round again is
not stated as liveness: the cron fires once a day, a deadline is a date, and how
often a provider refuses is not the code's.  `PassServesAll` says instead what
one pass owes, at the step that ends it.

## 5. The proofs

Eight modules, checked by TLAPS to the last leaf, for every value of the
constants that the named assumptions allow.

| Module | Theorem | What it establishes |
|---|---|---|
| `ReminderPassProofs` | `TypeCorrect` | `TypeOK` |
| | `SafeAlways` | the inductive invariant of the claim protocol |
| | `NeverTwice`, `NeverLost` | `NoDoubleSend`, `NoSilentLoss` |
| | `KeepsThePromise` | `RemindsOnce`: the pass implements `RemindOnce` |
| | `CapKept`, `OptOutObeyed`, `OneCatchUp` | `CapHolds`, `OptOutWindow`, `CatchUpOnce` |
| | `NobodyPassedOver` | `PassServesAll` |
| | `AnnouncedOnTheDay`, `ShownDateStays` | `OnTheDay`, `ShownStaysRight` of `Deadlines` |
| `SubscriberLinksProofs` | `LinksTypeCorrect` | `TypeOK` |
| | `OptInFirst`, `RemovalHolds`, `OptOutHolds` | `DoubleOptIn`, `RemovedStaysOff`, `OptOutSticks` |
| `SeatGateProofs` | `SeatsTypeCorrect` | `TypeOK` |
| | `CeilingsKept`, `SeatWasTaken` | `CeilingsAtRest`, `SeatGoesToSomeone` |
| | `RacersKeepTheCap` | `GrowsWithinCap` for additions and removals |
| `FirmBillingProofs` | `BillingTypeCorrect` | `TypeOK` |
| | `CheckoutOnce`, `OneGrantOneYear`, `NobodyDropped`, `BillingFollowsStripe` | all four properties of `billing` |
| | `RosterTypeCorrect`, `ChoiceKept` | `RosterTypeOK`, `ChoiceIsKept` of `RosterPause` |
| `ReverifyJobProofs` | `FilesTypeCorrect`, `LockKeepsApart` | `TypeOK`, `OneAtATime` |
| | `LockNeverLost` | when no lock is ever taken from a job at work |
| | `AsOfStaysBehind`, `StatusStaysLive`, `CohortStaysUnderCap` | `AsOfNotFresher`, `StatusIsLive`, `CohortUnderCap` |
| | `PushesLoseNothing`, `StampsAreTheFetchs` | `PushLosesNothing`, `StampsWhatWasFetched` |
| `AutoExtendProofs` | `DatesTypeCorrect` | `TypeOK` |
| | `CeilingHolds`, `ApprovalHolds`, `DatesAreTrue` | all three properties of `autoextend` |
| `RuleChangeFeedProofs` | `FeedTypeCorrect` | `TypeOK` |
| | `RecentHolds`, `NoOldNews`, `SettledHolds`, `PageMirrors` | all four properties of `feed` |
| `LocalRemindersProofs` | `PrototypeTypeCorrect` | `TypeOK` |
| | `OnlyOptedInIsReminded`, `OptOutIsKept` | `DoubleOptIn`, `OptOutHolds` |
| | `EachTierOnce`, `OneMailPerDay`, `BreakerKeepsCap` | `TierOnce`, `OneConfirmationADay`, `CapHolds` |

Two of these modules are about two components each: `FirmBillingProofs` about
the billing and the roster of one firm, `ReminderPassProofs` about the pass and
the deadlines it reminds of.  The names of `RosterPause` (`RosterSpec`, `visit`,
`Invocation`) and of `Deadlines` (`Walk`, `WalkInit`, `walkVars`) are chosen so
that one module can extend both.

Some theorems assume more than the constants' own assumptions, each for a
reason in the code:

* `SafeAlways`, and with it `NeverTwice`, `NeverLost`, `KeepsThePromise`,
  `OneCatchUp` and `NobodyPassedOver`, assumes `SpansMidnight = FALSE`, as does
  `CapKept`: the cron fires at 18:00 UTC and no invocation lives for six hours.
  A pass that spans midnight may carry a tier another pass has not looked for,
  and the two halves of `unclaim` can then overwrite a claim made in between
  (section 6); and it may hand over on one day what it counted on the day
  before.
* `RacersKeepTheCap` is about behaviours without an edit in which a newcomer is
  asked for once (`Spec /\ [](NewcomersOnce /\ ~Edited)`): whoever is added has,
  and keeps, a line from the beginning, or has no other line.  Without either
  half the cap is not kept (section 6, *Seats*).  The run `seats` checks two
  requests without the hypothesis, edits among them; the theorem has any number.
* The theorems about `Deadlines` need no hypothesis beyond the constants'
  assumptions: stored dates are dates of the calendar (`RuleAssumption`, which
  also says that a rule which always renews after some years has at least one;
  `scheduler.py` passes 2 and 3), and no loop runs out of periods during the
  walk (`WalkAssumption`).
* The five theorems about the data of the re-verification job are about
  behaviours in which no lock is lost: `Spec /\ [](robbed = {})`.  `job.py`
  promises nothing when two jobs share the worktree, and the run `reverify`
  leaves those states out in the same way.  The hypothesis is not a wish:
  `LockNeverLost` derives it from `Spec` if no job is at work for six hours
  (`~Slow`), none finds a newer `job.py` on `main` (`~CodeChanges`), and whoever
  takes an old lock file over still finds it old (`[]Uncontested`): no two jobs
  are started at once over the file of a killed one.  `CohortStaysUnderCap`
  assumes too that people stamp at most as many records a day as the runner's
  margin (`HandStamps <= Margin`; `runner.py:80-81` has one of each).  A run may
  fill a day up to the cap but for that margin, and the hand stamps may come
  after it.

**The claim protocol.**  `NoDoubleSend` excepts the rows of which a claim was
taken away, and `NoSilentLoss` those and three ways of leaving a tier behind;
section 6 says how the code comes to each.  `NoDoubleSend` is not inductive: it
says nothing of a claim that is still unresolved.  `IInv` adds that every pass
works on the day it took its snapshot (`AsOfToday`); its tier is the one its
snapshot called for (`Decided`); an unresolved claim is the last thing that
happened to its row (`ClaimHeld`); a row has one unresolved claim at most
(`OneHolder`), a pass whose revert has committed holding none (`Claimed`,
`UndoneReverts`); and what was sent stays recorded (`SentRecorded`).  The heart
of it is `OneTierADay`: once the tier that the day calls for is recorded, the
row has none left that day, so no second pass of that day can decide on it, and
a stale one fails the compare-and-swap.  The refinement needs the same
invariant: an email leaves only under a claim, and the claim's tier is below
everything in the snapshot, which `ClaimHeld` says contains all that was sent.
The cap is a count: what was handed over and what is about to be are together
within the budget, which no `CountSend` raises past the cap (`CapInv`).  That
one catch-up is the only email past the grace period needs `SentRecorded` once
more: a catch-up tier is due only to a row that records no tier, and what was
sent is recorded unless a claim was taken from the row.  `PassServesAll` needs
one more invariant, `Served`, of every row that did not change under a pass:
what the pass saw of it is still so or the row has no tier left, and the pass
has it before itself, or at hand, or has left it with nothing due.

**The rows.**  `DoubleOptIn` is not inductive, because a request that has read a
row may still write it.  `OptInInv` adds that `confirmed_at` is set only with
the consent of the row's own mailbox (`Consent`); that a confirmation link that
still fits its row is in that mailbox (`Letters`: a new mailbox comes with a
fresh token, and no token is made twice); and what every request that has read a
row still holds when it writes (`Read`, `Holds`).  For the row of a free
subscriber that survives any overlap, since nothing ever changes its mailbox or
clears its `confirmed_at`; for a firm's row it is lost exactly when a request
writes over a change it did not see, which is what `crossed` records.
`RemovalHolds` uses `OffInv`: nothing under way has read a removed line, and
removed lines are stopped.  `OptOutHolds` uses `OutInv`: as long as a mailbox
has said no and nothing excuses a mail to it, an opt-out of it is on a row, and
each of its rows that no request wrote across was confirmed no later than that.
No row is confirmed later than now, and neither is any copy a request holds,
which is why a new opt-out is later than every row there is.  The mailbox is
that of whoever clicked; a link mailed before its row was re-addressed is among
the excuses, since it stops a row that is not theirs.  `OptOutSticks` by itself
is not inductive: it also holds of a mailbox with no opt-out and no live row,
where the next signup would break it.  `MarkInv` supplies what the clicks need:
on a row no requests have crossed on, an opt-out is found on a stopped row only,
and no request that is about to stop a row as renewed, or to confirm it, has
read a stopped one.

**The seats.**  `SeatInv` is about executions without an edit.  Its first half is
bookkeeping (`Rows`): whatever an addition inserted has a row of its own, behind
the rows of the beginning, with the addition's fields and stamp; every new row
has such an addition; rows are used in order; and only an addition that takes it
back, or a removal, removes one.  `Judged` says that a line which passed its
second look had room among the lines inserted before it, and still has: as long
as nothing is inserted behind a line and stamped before it, no later line counts
against an earlier one, so the roster's last line bounds the whole.  `Beaten` says
that a line which failed was ranked behind enough others, removed ones included
(`EverOf`).  At rest, with no removal and no shared stamp, take the earliest line
that was taken back: whatever ranked ahead of it is still there.  Taking the
earliest of a set is where `SeatGateProofs` uses well-founded induction, on one
fixed relation.

`RacersKeepTheCap` is about the accepted lines, since between its two looks any
number of additions may be on the roster.  `CapInv` adds what each look has
found, in a form that lasts: an addition past the first had a line of its person
beside it, or the people known from the beginning leave a seat, and they never
become more (`Admitted`); a line past the second had one beside it, or a seat
behind the people of the lines inserted before it, who never become more either
(`Seated`).  Take the last newcomer's line to have passed: everybody accepted is
before it, is its own person, or is one of the lost checks (`WithinCap`).
Where there is no such line the people known from the beginning count, and a
step that makes the accepted people more brings one of whom `Admitted` says that
they had left a seat.

**Billing.**  What carries the proofs is the ledger: every handler that is past
it has its event in it, no two handlers hold one event, and a checkout is
counted in `applied` only by the holder of its event (`Fit`).  `YearInv` says
that a founding trial whose checkout is in the ledger is being handled, was
applied or cancelled, or is one of those the code hands to a person
(`Accounted`); that a trial which passed the stamp (`Stamped`) has started the
grant; and that no two have passed it.  `EndIsSeen` and `TierFollows` say,
for a subscription that is not `stuck`, that a deletion in the ledger which has
not taken effect is being handled, and that a tier which differs from Stripe's
has an update event that is not yet answered.

**Billing, who is dropped.**  `NobodyDroppedByAnother` speaks of each step that
takes a subscription off the row.  A deletion that reverts the row has found it
by the subscription's own id, and acts on the row as it read it or on a stale
one (`StaleDecision`); that the subscription of a deletion has ended in Stripe is
part of `Fit`.

**Roster.**  `ChoiceInv` says that while the marker is set and no invocation was
unaware of the pick when it was saved (`~crossed`), the paused rows are those
that were not picked, and that every invocation under way which has read the
firm has seen the marker, so that none is about to write rows one by one or to
unpause everybody.

**The job.**  `OneAtATime` is inductive together with `LockHeld`: as long as a
job that nobody robbed is at work, its lock file is on disk.  A job that takes
over a file it found stale robs whoever is at work by then (`TakeOver`).  While
nobody is robbed one job at most is at work, so that the worktree, the results
and the status files are its own, and `JobInv` can follow them through it.
`Sound` says of every copy of the data (`main`, the tree, its HEAD, its view of
`main`) that no date is ahead of the day, that `asOf` is behind every date it
summarises, and that the records verified on one day are within what the job and
what people stamp (`Copies`, `ByHand`).  `Work` says what the job at work has
read (`Read`: `main`, but for what people committed since), that what it
selected fits under the day's cap together with what is stamped already
(`Fits`), that its results confirm what it read (`Results`), and that what it is
about to push keeps everything `main` says and stamps only what the fetch
confirmed (`Ready`, `Advances`).  Each promise then follows from what `Work`
says at the push.  None is inductive by itself: each says something of `main`
only, and the harm would be done in the worktree, several steps before.

**Auto-extend.**  `CeilingInv` carries the age of the manual date from the record
through the run's own copy (`SeenIsOld`: what a person reads meanwhile only
makes the record younger) to the proposals (`FoundInCeiling`), and says that
what is applied was approved as it stands (`AppliesApproved`).  `TruthInv` says
that a baseline in a record, or in a run's copy, is a page that shows the value
(`AnchoredShows`), so that the same bytes on a later day show it too, of every
record but a `Blind` one.  For `ApprovalHolds`, `Current` says that the date a
proposal names is the record's unless a person has read the record since: only
one invocation runs, and only a person moves a date beside it.

**The feed.**  `TruthInv` relates every copy to the law as it was when the record
was verified (`WasTrue`): since then the change was at most delayed or
withdrawn, and a date that had come by the day of verification has come for
good.  For an event that does not name that day nothing follows, and
`SettledIsTrue` excepts it.

**The prototype.**  Both processes rewrite the whole file from a copy, so each
invariant says the same of the file and of every copy that may yet become the
file.  A copy is `Sound` from the read to the write as long as the other process
has not written in between; when one that is not sound is written, an update is
lost, `spoilt` records it, and the properties promise no more.  `FileInv` is
shared: numbers not given out have no record (`Numbered`), and while the file
can be read a sound copy is still to be written and puts no record back to an
earlier cycle (`Based`).  `CapInv` says that, unless both have counted at once,
the breaker's file counts what was posted today and a process that is about to
post has seen that count below the cap; it needs that no count is of a later day
than this one.  `OptInv` says that a row confirmed in the file, in a copy or in
the pass's list had its own link followed; it needs no excuse, since a lost
update loses confirmations and never makes one.  `MarksInv` keeps the books of
the marks (`Books`): no sound copy has a record in an earlier cycle than one it
was reminded in, and it has the marks of all reminders of its cycle but the one
the pass is now writing; the pass's own list has them too, since it is as old as
the pass and only the pass sends.  `OutInv` says that a row whose owner has read
"unsubscribed" is `Gone` in every sound copy (stopped, and not confirmed later
than that) except in the copy in which a request of the server is letting it
back in; among the rows of one address it has to follow the latest request,
which is why no row is confirmed later than the last request (`Numbered` again).
`AskedInv` says that every sound copy has a signup of the address no older than
the last one mailed, and that the signup under way, newer than that, is stored
in every copy that may become the file: the cooldown of the next request then
finds it.  That the tier which is due, the least of a set of thresholds, is one
of the set is shown by well-founded induction on one fixed relation, as in
`SeatGateProofs`.

**The deadlines.**  Every loop is shown to compute the `Earliest` day, among the
days its rule renews on, that has not passed.  For the parity loops that takes
one lemma on years (of the four they may try, one has the right parity and an
end of month that has not passed); for the loops that add a term, one on
remainders.  The two that carry a date forward are recursive functions over
`0..Horizon`: that the recursion has a solution is shown by taking the least
length at which it would have none (`CarriedExists`), and a carried anchor other
than a February 29 keeps its day, so that its days are those of whole terms
(`CarriedKeepsTheDay`).  The rest is about the first of a set of days: it is
one, it stays the first until it has passed, which is `ShownStaysRight`, and it
is today exactly when today is one of the days, which is `OnTheDay` once each
rule's days are those `LegalDay` describes.  `ShownStaysRight` includes rules
anchored on a February 29; `OnTheDay` excepts them, since carried once into a
common year they stay on February 28.

**Only model-checked.**

* `PaidRosterRuns` and `CapSettles`: liveness under fairness, and ENABLED, are
  beyond the prover.
* `GrowsWithinCap` of two requests that include an edit, or that both ask for one
  newcomer: with a third it is false (section 6, *Seats*), so there is no theorem
  for every value of `Request`; the run checks it for two.
* `links_opt_out`, which is expected to end in a violation.

## 6. What the models found

One disagreement between the code and what it says of itself is a run,
`links_opt_out` (`"expect": "violation"`, with its quotation under "findings"):
an unsubscribe is answered as permanent, yet the removal of that line from a
roster overwrites the reason it is recorded by, and the person's other line is
mailed again.

Six more disagreements are exceptions that properties name; the runs and the
theorems show that nothing but the named exceptions breaks them:

* `OptOutSticks`.  An unsubscribe is answered as instant, too.  A firm that
  re-addresses a line keeps its `unsubscribe_token` (`store.ts:4226-4234`): the
  link in the previous mailbox stops the new person's reminders, and the one who
  clicked is still mailed on another line.
* `NoDoubleSend`.  Overlapping passes are said not to send one tier twice
  (`scheduler.ts:20-24`).  A revert that committed and threw is made again by the
  catch block; a claim another pass made in between is erased while its email
  goes out, and a third visit sends the tier once more.
* `NoSilentLoss`.  Only a killed Worker is said to lose a tier
  (`scheduler.ts:25-32`).  A claim that committed and threw is never reverted,
  since `claimedThreshold` is set after the call; a revert that is refused twice
  is not made either.
* `ChoiceIsKept`, `CapSettles`.  A reconciliation is said never to override a
  choice (`store.ts:3590`).  One that read the firm before the pick was saved
  writes its own decision row by row afterwards, and the marker then stands for a
  roster nobody chose; if what it writes is an unpause of everybody, the roster
  stays over its cap, since no later reconciliation touches a firm that has
  chosen.
* `SettledIsTrue`.  Page and API are said to hedge a date that went by
  unconfirmed (`assistant.ts:292-299`).  An event whose file has no
  `verified_date` raises no objection, and is answered as settled.
* `AutoDateIsTrue`.  A dataset without a value to look for is said to rest on
  the document's identity (`citation_auto_extend_check.py:1213`).  Of a PDF only
  the first bytes are looked at (1098-1101), so any PDF is anchored; the cited
  PDFs of `cpa_deadlines.json` (185, 324, 344, 508, 534) are such records.

*Reminders and rows of the Worker*

* "I've renewed, remind me next cycle" empties `reminders_sent`, but the pass
  computes the deadline without `renewed_at`, so the next pass reminds of the
  deadline just renewed (`store.ts:4386`, `index.ts:10759`).
* A snooze promises "at least one more reminder" (`index.ts:10814`), which a
  custom schedule without a small tier does not give.
* Two overlapping passes that span midnight can send one tier twice:
  `unclaimReminderThreshold` (`store.ts:955-960`) reads the list and later
  writes it back without comparing.
* The unsubscribe token is called never rotated (`index.ts:10508`), yet every
  renewal and re-arm replaces it, and the links of earlier emails answer 404.
* `findActiveOrPending` and `addPending` are two calls without a UNIQUE
  constraint: two signups at once make two live rows.
* "Mark renewed" on the dashboard revives a row its owner had opted out of; a
  firm's re-add stamps `confirmed_at` later than an opt-out and so ends the
  suppression; an unsubscribe link of a row stopped as renewed is answered
  "Done" and recorded nowhere.  `OptOutSticks` names these exceptions, and its
  proof added one: on a row on which requests have crossed, a click may write
  over an opt-out it has not seen (`OverrideByClick`), even when the row is
  then re-addressed and shows no trace of it.  A link of a re-addressed row can
  also rearm it, against its new owner's opt-out.

*Seats*

* Of three additions in one millisecond all may stand past the cap: each of two
  lines of one new person counts that person as existing because of the other
  (`seat_usage.ts:282`).
* A line added to a person on the roster stands because of the line they have.
  If that one is removed while two more additions race, the person is counted
  from the new line on, which the lines that rank ahead of it do not count, and
  all three may stand past the cap.
* An edit whose line has been edited again is not judged by
  `editViolatesAfterUpdate` (`seat_usage.ts:219`): a third edit can leave an
  excess standing.  An edit that read a line before its removal brings the line
  back, and its seat with it.

*Billing and roster pause*

* A firm may have two checkout sessions open, since both are opened while the
  row has no subscription; the one paid second takes the row, and the first goes
  on being billed.  `index.ts:3852-3862` guards against a second checkout only
  after the first was applied.
* The mirroring is called order-safe (`subscription_sync.ts:11-14`); it is when
  handlers run one after another, but of two that overlap the one that fetched
  first may write last.  `RowFollowsStripe` excepts it as `stale`.
* A paid firm that never had a trial (`trial_ends_at` NULL) and has paused rows
  gets them back only when somebody opens its dashboard: the nightly pass does
  not list it (`store.ts:3702`).

*Data pipeline*

* `job.py`'s lock can be lost in three ways: a job older than six hours is taken
  over; each exit removes the lock file whoever holds it (`job.py:276-280`; a
  re-launched job and its parent both do); and of two jobs that find the file of
  a killed one stale (`job.py:266`), the second touches the one the first has
  taken over (269), and both go on.  `OneAtATime` names all three.
* The status file is not live for a record that was edited on `main` while a job
  ran; `StatusIsLive` excepts those.
* Nothing compares a record with its proposal when it is applied
  (`apply_eligible_extends`, 2480-2496): a person who reads the record after the
  midnight a run crosses has the date moved back by a day.
* A proposal whose target date has passed is listed on the page under "Recently
  changed", and under "confirmed" once it was verified after that date
  (`generate.py:10711-10718` does not ask whether it was adopted), while the API
  answers `not_adopted`.  `PageMirrorsApi` is about adopted rules.
* A rule anchored on a February 29 becomes February 28 in the first year
  without one and stays that in the next leap year (`generate.py:431-433`).

*Prototype*

* An update by one process is lost when the other has read the file before it; a
  process killed between truncation and write leaves no subscribers.  Everything
  but `DoubleOptIn` is given up then.
* A record stopped by an opt-out and then told "I've renewed" can be re-armed:
  `stop` overwrites the reason (`reminders/store.py:283-295`) that `rearm`
  looks at.
* A signup whose mail the tripped breaker refuses leaves a pending row
  (`reminders/server.py:533-551`), which answers the next signup with the
  success page and no mail.
* `reminders_sent` is only cleared by a re-arm, so a deadline that rolls forward
  by itself starts with the tiers of the last one used up.

## 7. Not modelled

Each component of the repository, with its status and the reason, is in
`PROJECT.json`.

* *Authentication and sessions*: single conditional UPDATEs, whose interest is
  cryptographic.
* *Digests, SMS, Slack and Teams; drip, newsletter and lifecycle mail*: they
  repeat the claim-then-send shape of the reminder pass with ledgers of their
  own.  (The rule-change alert is in `RuleChangeFeed`; there a pass is taken not
  to cross midnight.)
* *Deletion of accounts and data*: a list of statements over many tables.
* *Practice mobility, entitlements and tiers*: decision tables, which a model
  would repeat.
* *Validation and rate limits, rendering of email, calendars and links, routing*:
  no state that a property here is about.
* *Partly modelled*: the subscriber lifecycle (not the resend and the digest
  switch), billing (not the referral reward, invoice events, the cancellation
  toggle and proration), the Resend webhook (its effect on rows, not its
  signature check and delivery log), `generate.py` (the deadline arithmetic and
  the sections of the rule-change page, not the pages' text, which is most of
  it), the ship gates (the date ratchet the job has to pass).
* *Other scripts, data and content*: one-off maintenance and reference data.
