---------------------------- MODULE LocalReminders ----------------------------
(***************************************************************************)
(* The local Python prototype of the reminder product (reminders/): the    *)
(* single-threaded server of server.py and one scheduler pass of           *)
(* scheduler.py at a time, two processes that share two files:             *)
(*   - subscribers.json (store.py): read whole, changed in memory, written *)
(*     back whole by truncating it first, with no lock;                    *)
(*   - the circuit breaker's count of today's sends (sender.py), replaced  *)
(*     atomically, under a lock of each process.                           *)
(* One action is one access to a file or one mail.  Timestamps count the   *)
(* requests made so far; dates are day numbers; an email's cooldown key    *)
(* and its normalised form are the address.                                *)
(***************************************************************************)
EXTENDS Integers, FiniteSets, FiniteSetsExt

CONSTANTS
    Email,        \* addresses
    Slug,         \* states
    Thresholds,   \* ESCALATION_THRESHOLDS_DAYS
    Grace,        \* GRACE_PERIOD_PAST_DEADLINE_DAYS
    CatchUp,      \* NEVER_NOTIFIED_CATCHUP_WINDOW_DAYS
    FirstDue,     \* the first deadline of a state
    Period,       \* days to a state's next deadline; 0: none follows
    Cap,          \* REMINDERS_DAILY_SEND_CAP
    Kills,        \* may a process be killed?
    MaxRows,      \* bound: signups stored
    MaxCycle,     \* bound: re-arms of one record
    MaxRequests,  \* bound: requests to the server
    LastDay       \* bound: the last day explored

ASSUME ConstantAssumption ==
    /\ IsFiniteSet(Thresholds) /\ Thresholds # {} /\ Thresholds \subseteq Nat \ {0}
    /\ Grace \in Nat /\ CatchUp \in Nat /\ Cap \in Nat
    /\ FirstDue \in [Slug -> Nat] /\ Period \in [Slug -> Nat]
    /\ Kills \in BOOLEAN
    /\ MaxRows \in Nat /\ MaxCycle \in Nat /\ MaxRequests \in Nat /\ LastDay \in Nat

VARIABLES
    day,        \* today
    requests,   \* requests served so far: the clock of the timestamps
    file,       \* subscribers.json: readable or cut short, and its rows
    issued,     \* rows ever created
    breaker,    \* send_circuit_breaker_state.json
    proc,       \* what each process is doing
    pass,       \* the scheduler pass: its date, its snapshot, rows still to do
    consent,    \* history: rows whose confirm link was followed
    optedOut,   \* history: rows told "unsubscribed", no confirmation since
    renewed,    \* history: those of them told "renewed" after that
    reminded,   \* history: reminders sent, per row
    asked,      \* history: the day of the last signup that was sent its mail
    posted,     \* history: mails sent today
    spoilt      \* history: which files lost an update, and a sent mark lost

vars == <<day, requests, file, issued, breaker, proc, pass, consent, optedOut,
          renewed, reminded, asked, posted, spoilt>>
mails == <<consent, optedOut, renewed, reminded, asked, posted>>

-----------------------------------------------------------------------------
(* Records of subscribers.json.                                            *)

Row == 1..MaxRows
Process == {"server", "scheduler"}
Other(p) == IF p = "server" THEN "scheduler" ELSE "server"

NoRow == [status |-> "none", email |-> "", slug |-> "", made |-> 0, confirmed |-> 0,
          stopped |-> 0, reason |-> "none", sent |-> {}, cycle |-> 0]

\* add_pending's record; 0 stands for None in confirmed_at and stopped_at.
Pending(e, s) ==
    [status |-> "pending", email |-> e, slug |-> s, made |-> day, confirmed |-> 0,
     stopped |-> 0, reason |-> "none", sent |-> {}, cycle |-> 1]

RowsOf(doc, e) == {r \in Row : doc[r].status # "none" /\ doc[r].email = e}

\* Mutant: the cooldown only looks at records of the same state.
RecentPerState(doc, e, s, since) ==
    \E r \in RowsOf(doc, e) : doc[r].slug = s /\ doc[r].made >= since

\* within_signup_cooldown: any record of the address, of any state or status.
Recent(doc, e, s, since) == \E r \in RowsOf(doc, e) : doc[r].made >= since

\* find_active_or_pending.
Live(x) == x.status \in {"pending", "confirmed"}
ActiveOrPending(doc, e, s) == {r \in RowsOf(doc, e) : doc[r].slug = s /\ Live(doc[r])}

\* Mutant: any confirmed record of the address lifts the suppression.
SuppressedUnlessConfirmed(doc, e) ==
    /\ \E r \in RowsOf(doc, e) : doc[r].reason = "unsubscribed"
    /\ \A r \in RowsOf(doc, e) : doc[r].status # "confirmed"

\* is_permanently_suppressed: unsubscribed, and not confirmed after that.
Suppressed(doc, e) ==
    LET gone == {r \in RowsOf(doc, e) : doc[r].reason = "unsubscribed"}
    IN  /\ gone # {}
        /\ \A r \in RowsOf(doc, e) :
             \E g \in gone : doc[r].confirmed <= doc[g].stopped

\* Mutant: tokens issued at signup are good enough.
OnceConfirmedAnyway(x) == TRUE

OnceConfirmed(x) == x.confirmed # 0

\* Which links find a record.  Re-arming issues new tokens, so a link of
\* cycle c works while the record is in cycle c; the confirm link always does.
Honoured(op, x, c) ==
    /\ x.status # "none"
    /\ op # "confirm" => x.cycle = c
    /\ op \in {"renewed", "rearm"} => OnceConfirmed(x)
    /\ op = "rearm" => /\ x.status = "stopped" /\ x.reason = "renewed"
                       /\ x.cycle < MaxCycle

\* What confirm, stop and rearm make of it at time t.
Served(op, x, t) ==
    CASE op = "confirm" /\ x.status = "pending" ->
           [x EXCEPT !.status = "confirmed", !.confirmed = t]
      [] op = "confirm" /\ x.status # "pending" -> x
      [] op = "unsubscribe" ->
           [x EXCEPT !.status = "stopped", !.stopped = t, !.reason = "unsubscribed"]
      [] op = "renewed" ->
           [x EXCEPT !.status = "stopped", !.stopped = t, !.reason = "renewed"]
      [] op = "rearm" ->
           [x EXCEPT !.status = "confirmed", !.stopped = 0, !.reason = "none",
                     !.sent = {}, !.cycle = @ + 1]

\* The handlers that answer with a mail of their own.
Answers(op, x) ==
    \/ op \in {"subscribe", "renewed"}
    \/ op = "unsubscribe" /\ OnceConfirmed(x)

-----------------------------------------------------------------------------
(* Which reminder is due (scheduler.py).                                   *)

\* compute_subscriber_deadline: the next occurrence, or the only one.
Deadline(s, d) ==
    IF Period[s] = 0 \/ d <= FirstDue[s] THEN FirstDue[s]
    ELSE FirstDue[s] + ((d - FirstDue[s] + Period[s] - 1) \div Period[s]) * Period[s]

\* Mutant: the tier already sent is not skipped.
NextTierAgain(left, sent) ==
    LET due == {t \in Thresholds : left <= t /\ \A m \in sent : t <= m}
    IN  IF due = {} THEN 0 ELSE Min(due)

\* next_due_threshold; 0 stands for None.
NextTier(left, sent) ==
    LET due == {t \in Thresholds \ sent : left <= t /\ \A m \in sent : t < m}
    IN  IF due = {} THEN 0 ELSE Min(due)

\* The threshold run_once picks for a record on the date of its pass.
TierDue(x, d) ==
    LET left == Deadline(x.slug, d) - d
    IN  IF left >= -Grace THEN NextTier(left, x.sent)
        ELSE IF x.sent = {} /\ left >= -CatchUp THEN Min(Thresholds) ELSE 0

-----------------------------------------------------------------------------
(* The initial state.                                                      *)

NoRows == [r \in Row |-> NoRow]
Idle == [pc |-> "idle", op |-> "none", row |-> 0, tier |-> 0, who |-> "", where |-> "",
         made |-> 0, doc |-> NoRows, raced |-> "no", count |-> 0, on |-> 0, miscount |-> FALSE]
NoPass == [on |-> 0, snap |-> NoRows, todo |-> {}]

Init ==
    /\ day = 0 /\ requests = 0 /\ issued = 0
    /\ file = [ok |-> TRUE, rows |-> NoRows]
    /\ breaker = [on |-> 0, count |-> 0]
    /\ proc = [p \in Process |-> Idle]
    /\ pass = NoPass
    /\ consent = {} /\ optedOut = {} /\ renewed = {} /\ posted = 0
    /\ reminded = [r \in Row |-> {}]
    /\ asked = [e \in Email |-> -1]
    /\ spoilt = [rows |-> FALSE, count |-> FALSE, mark |-> FALSE]

At(p, pc) == proc[p].pc = pc

(* What the variables hold.                                                *)
Signup ==
    [status : {"pending", "confirmed", "stopped"}, email : Email, slug : Slug, made : Nat,
     confirmed : Nat, stopped : Nat, reason : {"none", "unsubscribed", "renewed"},
     sent : SUBSET Thresholds, cycle : Nat \ {0}]

Document == [Row -> Signup \cup {NoRow}]

Activity ==
    [pc : {"idle", "add", "truncate", "write", "mail", "post", "next", "mark"},
     op : {"none", "subscribe", "confirm", "unsubscribe", "renewed", "rearm", "remind"},
     row : Row \cup {0}, tier : Thresholds \cup {0}, who : Email \cup {""},
     where : Slug \cup {""}, made : Nat, doc : Document, raced : {"no", "lost", "mixed"},
     count : Nat, on : Nat, miscount : BOOLEAN]

\* A process past its first step knows the row and the address it is about.
ServerStage(me) ==
    /\ me.pc \in {"idle", "add", "truncate", "write", "mail", "post"} /\ me.op # "remind"
    /\ me.pc # "idle" => me.op # "none" /\ me.who \in Email
    /\ me.pc = "add" => me.op = "subscribe" /\ me.where \in Slug /\ issued < MaxRows
    /\ me.pc \notin {"idle", "add"} => me.row \in Row

SchedulerStage(me) ==
    /\ me.pc # "add" /\ me.op \in {"none", "remind"}
    /\ me.pc \notin {"idle", "next"} =>
          me.op = "remind" /\ me.tier \in Thresholds /\ me.row \in Row \ pass.todo
    /\ me.pc \in {"mail", "post"} => pass.snap[me.row] \in Signup

TypeOK ==
    /\ day \in Nat /\ requests \in Nat /\ posted \in Nat /\ issued \in 0..MaxRows
    /\ file \in [ok : BOOLEAN, rows : Document]
    /\ breaker \in [on : Nat, count : Nat]
    /\ proc \in [Process -> Activity]
    /\ ServerStage(proc["server"]) /\ SchedulerStage(proc["scheduler"])
    /\ pass \in [on : Nat, snap : Document, todo : SUBSET Row]
    /\ \A r \in pass.todo : pass.snap[r] \in Signup
    /\ consent \subseteq Row /\ optedOut \subseteq Row /\ renewed \subseteq Row
    /\ reminded \in [Row -> SUBSET [cycle : Nat, due : Int, tier : Thresholds]]
    /\ asked \in [Email -> Int]
    /\ spoilt \in [rows : BOOLEAN, count : BOOLEAN, mark : BOOLEAN]

-----------------------------------------------------------------------------
(* Requests (server.py): each runs to its end before the next.             *)

\* The 24 hours back from now begin today or yesterday.
WindowStart == {day, day - 1}

\* _handle_subscribe up to its two duplicate checks.  A request that fails
\* them, follows a dead link or finds the file cut short changes nothing.
Subscribe(e, s) ==
    /\ At("server", "idle") /\ requests < MaxRequests /\ issued < MaxRows
    /\ file.ok
    /\ \E since \in WindowStart : ~Recent(file.rows, e, s, since)
    /\ ActiveOrPending(file.rows, e, s) = {}
    /\ requests' = requests + 1
    /\ proc' = [proc EXCEPT !["server"] =
                  [Idle EXCEPT !.pc = "add", !.op = "subscribe", !.who = e, !.where = s]]
    /\ UNCHANGED <<day, file, issued, breaker, pass, mails, spoilt>>

\* add_pending reads the file again and appends the row.
AddPending ==
    /\ At("server", "add")
    /\ IF file.ok
       THEN /\ issued' = issued + 1
            /\ proc' = [proc EXCEPT !["server"].pc = "truncate",
                          !["server"].row = issued + 1, !["server"].made = day,
                          !["server"].doc = [file.rows EXCEPT ![issued + 1] =
                              Pending(proc["server"].who, proc["server"].where)]]
       ELSE /\ proc' = [proc EXCEPT !["server"] = Idle]
            /\ UNCHANGED issued
    /\ UNCHANGED <<day, requests, file, breaker, pass, mails, spoilt>>

\* A link of row r and cycle c is followed: confirm, stop or rearm finds the
\* record, changes its copy and has the file to save.
Follow(op, r, c) ==
    /\ At("server", "idle") /\ requests < MaxRequests /\ r <= issued
    /\ file.ok /\ Honoured(op, file.rows[r], c)
    /\ requests' = requests + 1
    /\ proc' = [proc EXCEPT !["server"] =
            [Idle EXCEPT !.pc = "truncate", !.op = op, !.row = r, !.who = file.rows[r].email,
               !.doc = [file.rows EXCEPT ![r] = Served(op, @, requests')]]]
    /\ consent' = IF op = "confirm" THEN consent \cup {r} ELSE consent
    /\ UNCHANGED <<day, file, issued, breaker, pass, optedOut, renewed, reminded, asked,
                   posted, spoilt>>

-----------------------------------------------------------------------------
(* _save: open(..., "w") truncates, json.dump writes.                      *)

\* What the other process's copy of the file is worth once p has written.
Raced(p) ==
    LET q == Other(p)
    IN  CASE At(q, "truncate") -> "lost" [] At(q, "write") -> "mixed"
          [] OTHER -> proc[q].raced

Truncate(p) ==
    /\ At(p, "truncate")
    /\ file' = [ok |-> FALSE, rows |-> NoRows]
    /\ proc' = [proc EXCEPT ![p].pc = "write"]
    /\ UNCHANGED <<day, requests, issued, breaker, pass, mails, spoilt>>

\* A click that turned a pending row into a confirmed one.
Confirms(me) == me.op = "confirm" /\ me.doc[me.row].confirmed = requests

\* The page is shown once the save is done.
Told(me) ==
    CASE me.op = "unsubscribe" -> /\ optedOut' = optedOut \cup {me.row}
                                  /\ renewed' = renewed \ {me.row}
      [] me.op = "renewed" -> /\ renewed' = renewed \cup ({me.row} \cap optedOut)
                              /\ UNCHANGED optedOut
      [] Confirms(me) -> /\ optedOut' = optedOut \ RowsOf(me.doc, me.who)
                         /\ renewed' = renewed \ RowsOf(me.doc, me.who)
      [] OTHER -> UNCHANGED <<optedOut, renewed>>

\* Two writers between truncation and end of write leave the second one's
\* rows, or those with a tail of the first one's behind them: unreadable.
Write(p) ==
    /\ At(p, "write")
    /\ \E ok \in IF proc[p].raced = "mixed" THEN BOOLEAN ELSE {TRUE} :
         file' = [ok |-> ok, rows |-> IF ok THEN proc[p].doc ELSE NoRows]
    /\ spoilt' = [spoilt EXCEPT !.rows = @ \/ proc[p].raced # "no"]
    /\ LET me == proc[p]
           mailing == p = "server" /\ Answers(me.op, me.doc[me.row])
           after == IF mailing THEN [me EXCEPT !.pc = "mail", !.doc = NoRows, !.raced = "no"]
                    ELSE IF p = "server" THEN Idle
                    ELSE [Idle EXCEPT !.pc = "next"]
       IN  /\ proc' = [proc EXCEPT ![p] = after, ![Other(p)].raced = Raced(p)]
           /\ Told(me)
    /\ UNCHANGED <<day, requests, issued, breaker, pass, consent, reminded, asked, posted>>

-----------------------------------------------------------------------------
(* CircuitBreakerSender.send: the count is checked and saved under the     *)
(* lock of the process, then the mail goes out.                            *)

\* Mutant: the breaker trips one mail late.
TrippedLate(count) == count > Cap

Tripped(count) == count >= Cap

SentToday == IF breaker.on = day THEN breaker.count ELSE 0

\* The scheduler goes on to its next row, the server to its next request.
Done(p) == IF p = "server" THEN Idle ELSE [Idle EXCEPT !.pc = "next"]

\* A tripped breaker answers False; only the scheduler looks at that.
Check(p) ==
    /\ At(p, "mail")
    /\ proc' = [proc EXCEPT ![p] =
                  IF Tripped(SentToday) THEN Done(p)
                  ELSE [@ EXCEPT !.pc = "post", !.count = SentToday, !.on = day,
                                 !.miscount = FALSE]]
    /\ UNCHANGED <<day, requests, file, issued, breaker, pass, mails, spoilt>>

Post(p) ==
    /\ At(p, "post")
    /\ breaker' = [on |-> proc[p].on, count |-> proc[p].count + 1]
    /\ posted' = posted + 1
    /\ spoilt' = [spoilt EXCEPT !.count = @ \/ proc[p].miscount \/ proc[p].on # day]
    /\ LET me == proc[p]
           x  == pass.snap[me.row]
           q  == Other(p)
           after == IF p = "server" THEN Idle ELSE [me EXCEPT !.pc = "mark", !.count = 0, !.on = 0]
       IN  /\ proc' = [proc EXCEPT ![p] = after, ![q].miscount = @ \/ At(q, "post")]
           /\ asked' = IF me.op = "subscribe"
                       THEN [asked EXCEPT ![me.who] = me.made] ELSE asked
           /\ reminded' = IF p = "scheduler"
                          THEN [reminded EXCEPT ![me.row] = @ \cup
                                  {[cycle |-> x.cycle, due |-> Deadline(x.slug, pass.on),
                                    tier |-> me.tier]}]
                          ELSE reminded
    /\ UNCHANGED <<day, requests, file, issued, pass, consent, optedOut, renewed>>

-----------------------------------------------------------------------------
(* One scheduler pass (run_once).                                          *)

\* all_confirmed_active: the rows as they are now; a file cut short is a
\* traceback, here and wherever the pass reads it again.
StartPass ==
    /\ At("scheduler", "idle")
    /\ IF file.ok
       THEN /\ LET todo == {r \in Row : file.rows[r].status = "confirmed"}
               IN  pass' = [on |-> day, todo |-> todo,
                            snap |-> [r \in Row |-> IF r \in todo THEN file.rows[r] ELSE NoRow]]
            /\ proc' = [proc EXCEPT !["scheduler"] = [Idle EXCEPT !.pc = "next"]]
       ELSE UNCHANGED <<pass, proc>>
    /\ UNCHANGED <<day, requests, file, issued, breaker, mails, spoilt>>

Turn(r) ==
    /\ At("scheduler", "next") /\ r \in pass.todo
    /\ \A k \in pass.todo : r <= k
    /\ pass' = [pass EXCEPT !.todo = @ \ {r},
                             !.snap = [k \in Row |-> IF k < r THEN NoRow ELSE @[k]]]

Tier(r) == TierDue(pass.snap[r], pass.on)

\* Nothing due, or the address is suppressed by now.
SkipRow(r) ==
    /\ Turn(r)
    /\ \/ Tier(r) = 0
       \/ Tier(r) # 0 /\ file.ok /\ Suppressed(file.rows, pass.snap[r].email)
    /\ UNCHANGED <<day, requests, file, issued, breaker, proc, mails, spoilt>>

DueRow(r) ==
    /\ Turn(r)
    /\ Tier(r) # 0 /\ file.ok /\ ~Suppressed(file.rows, pass.snap[r].email)
    /\ proc' = [proc EXCEPT !["scheduler"] =
                  [Idle EXCEPT !.pc = "mail", !.op = "remind", !.row = r, !.tier = Tier(r),
                               !.who = pass.snap[r].email]]
    /\ UNCHANGED <<day, requests, file, issued, breaker, mails, spoilt>>

\* mark_reminder_sent: read, and written back even when it says so already.
Mark ==
    /\ At("scheduler", "mark") /\ file.ok
    /\ LET me == proc["scheduler"]
       IN  proc' = [proc EXCEPT !["scheduler"] =
                IF file.rows[me.row].status = "none" THEN Done("scheduler")
                ELSE [@ EXCEPT !.pc = "truncate",
                        !.doc = [file.rows EXCEPT ![me.row].sent = @ \cup {me.tier}]]]
    /\ UNCHANGED <<day, requests, file, issued, breaker, pass, mails, spoilt>>

\* The pass ends: all rows done, or an unreadable file.
EndPass ==
    /\ \/ At("scheduler", "next") /\ pass.todo = {}
       \/ At("scheduler", "next") /\ ~file.ok /\ \E r \in pass.todo :
             (\A k \in pass.todo : r <= k) /\ Tier(r) # 0
       \/ At("scheduler", "mark") /\ ~file.ok
    /\ proc' = [proc EXCEPT !["scheduler"] = Idle]
    /\ pass' = NoPass
    /\ spoilt' = [spoilt EXCEPT !.mark = @ \/ At("scheduler", "mark")]
    /\ UNCHANGED <<day, requests, file, issued, breaker, mails>>

-----------------------------------------------------------------------------
(* The environment.                                                        *)

\* A server killed before it has written anything leaves no trace.
Untouched(p) ==
    \/ At(p, "idle")
    \/ p = "server" /\ proc[p].pc \in {"add", "truncate"}

Kill(p) ==
    /\ Kills /\ ~Untouched(p)
    /\ proc' = [proc EXCEPT ![p] = Idle]
    /\ pass' = IF p = "scheduler" THEN NoPass ELSE pass
    /\ spoilt' = [spoilt EXCEPT !.mark = @ \/
                    (p = "scheduler" /\ proc[p].pc \in {"mark", "truncate", "write"})]
    /\ UNCHANGED <<day, requests, file, issued, breaker, mails>>

NextDay ==
    /\ day < LastDay
    /\ day' = day + 1 /\ posted' = 0
    /\ UNCHANGED <<requests, file, issued, breaker, proc, pass, consent, optedOut, renewed,
                   reminded, asked, spoilt>>

Server ==
    \/ \E e \in Email, s \in Slug : Subscribe(e, s)
    \/ AddPending
    \/ \E op \in {"confirm", "unsubscribe", "renewed", "rearm"}, r \in Row, c \in 1..MaxCycle :
          Follow(op, r, c)

Scheduler ==
    \/ StartPass \/ Mark \/ EndPass
    \/ \E r \in Row : SkipRow(r) \/ DueRow(r)

Shared == \E p \in Process : Truncate(p) \/ Write(p) \/ Check(p) \/ Post(p)

Next == Server \/ Scheduler \/ Shared \/ (\E p \in Process : Kill(p)) \/ NextDay

Spec == Init /\ [][Next]_vars

-----------------------------------------------------------------------------
(* Properties.                                                             *)

Reminding(r) ==
    /\ At("scheduler", "post") /\ proc'["scheduler"].pc = "mark"
    /\ proc["scheduler"].row = r

\* A reminder only ever goes to a row whose own confirm link was followed,
\* whatever links of it are followed before and whatever updates are lost
\* (store.py:260-288: stop and rearm used to bypass the double opt-in).
DoubleOptIn == [][\A r \in Row : Reminding(r) => r \in consent]_vars

\* In one cycle a tier goes out once, however often passes run, as long as
\* no update of the file and no mark was lost (store.py:34-37).
TierOnce ==
    [][\A r \in Row : Reminding(r) =>
         \/ spoilt.rows \/ spoilt.mark
         \/ \A m \in reminded[r] : m.cycle = pass.snap[r].cycle => proc["scheduler"].tier # m.tier]_vars

\* Once a person has read "unsubscribed, instantly and permanently", no pass
\* that looks again picks any row of the address, re-armed or confirmed
\* before, as long as no update of the file was lost and the row is not
\* told "I've renewed" afterwards (store.py:149-183).
OptOutHolds ==
    [][\A r \in Row : DueRow(r) =>
         \/ spoilt.rows
         \/ RowsOf(file.rows, pass.snap[r].email) \cap (optedOut \ renewed) = {}]_vars

\* An address gets one confirmation mail for the signups of one day, of any
\* state (store.py:39-45), as long as no update of the file was lost.
OneConfirmationADay ==
    [][\A e \in Email :
         /\ At("server", "post") /\ proc'["server"].pc = "idle" /\ posted' > posted
         /\ proc["server"].op = "subscribe" /\ proc["server"].who = e
         => spoilt.rows \/ asked'[e] # asked[e]]_vars

\* The daily cap holds as long as the two processes never counted at once
\* and no send straddled midnight (sender.py:110-126).
CapHolds == spoilt.count \/ posted <= Cap

=============================================================================
