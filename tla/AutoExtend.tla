---------------------------- MODULE AutoExtend ----------------------------
(***************************************************************************)
(* scripts/citation_auto_extend_check.py: when may a record's public       *)
(* "Verified" date move without a person reading the source again?  A      *)
(* manual pass anchors a baseline on the fetch the person read; later runs *)
(* fetch the cited source again and propose an extension when it still     *)
(* serves the baseline, within a ceiling of days since the person looked.  *)
(* Proposals are applied only with a token granted for exactly that set,   *)
(* from a terminal.  Sources change under all of this at any time.         *)
(***************************************************************************)
EXTENDS Integers, FiniteSets

CONSTANTS Rec,       \* records, each citing one source
          Kind,      \* the kinds of citation there are among them, see Citation
          Ceiling,   \* MANUAL_REVERIFY_CEILING_DAYS
          None,
          LastDay, MaxChanges, MaxGrants   \* bounds

(* Is a PDF expected; has the dataset a cited fee or number of hours; does *)
(* the citation yield a specific claim anchor; is it fetched at a          *)
(* monitor_url_overrides target.                                           *)
Citation == [pdf : BOOLEAN, valued : BOOLEAN, anchored : BOOLEAN, overridden : BOOLEAN]

ASSUME AutoExtendAssumption ==
    /\ Kind \subseteq Citation
    /\ None \notin Nat /\ None \notin {"right", "newer", "revised", "mention", "wall"}
    /\ Ceiling \in Nat /\ LastDay \in Nat /\ MaxChanges \in Nat /\ MaxGrants \in Nat

(* What a source may serve.  "right" and "newer" are two editions of the   *)
(* cited document that show the record's value; "revised" is the document  *)
(* with another value, as long as "right"; "mention" is another document   *)
(* that names the citation; "wall" a page that does not, or no 200.        *)
Page == {"right", "newer", "revised", "mention", "wall"}
VARIABLES day, changes,
          cite,     \* what each record cites
          page,     \* what each source serves
          good,     \* history: the days a source showed the document and the value
          rec,      \* the datasets
          run,      \* one run of the script
          report,   \* the proposals of the last report written
          token,    \* auto_extend_proposals/.apply_approved
          granted   \* history: the proposal sets that were approved

vars == <<day, changes, cite, page, good, rec, run, report, token, granted>>

Shows(r, p) == p \in {"right", "newer"} \/ (p = "revised" /\ ~cite[r].valued)

WithToday(g, p, d) == [r \in Rec |-> IF Shows(r, p[r]) THEN g[r] \union {d} ELSE g[r]]

NotRunning == [at |-> "idle"]

Init ==
    /\ day = 0 /\ changes = 0
    /\ cite \in [Rec -> Kind]
    /\ page = [r \in Rec |-> "right"]
    /\ good = [r \in Rec |-> {0}]
    /\ rec = [r \in Rec |-> [manual |-> None, base |-> None, public |-> 0,
                             method |-> "manual"]]
    /\ run = NotRunning
    /\ report = {} /\ token = None /\ granted = {}

----------------------------------------------------------------------------
(* The sources and the calendar; a run lasts less than a day. *)

SourceChanges(r, p) ==
    /\ changes < MaxChanges /\ p # page[r]
    /\ changes' = changes + 1
    /\ page' = [page EXCEPT ![r] = p]
    /\ good' = WithToday(good, page', day)
    /\ UNCHANGED <<cite, day, rec, run, report, token, granted>>

Tick ==
    /\ day < LastDay
    /\ run.at # "idle" => run.today = day
    /\ day' = day + 1
    /\ good' = WithToday(good, page, day + 1)
    /\ UNCHANGED <<cite, changes, page, rec, run, report, token, granted>>

----------------------------------------------------------------------------
(* What a fetch proves. *)

(* validate_fetch_for_anchoring, and the content checks of evaluate_candidate: *)
(* %PDF- for a PDF, the anchor in a heading or beside the value for the rest.   *)
Qualifies(r, p) ==
    IF cite[r].pdf THEN p # "wall"
    ELSE cite[r].anchored /\ p \in {"right", "newer", "revised"}

(* Mutant: a fetch that succeeded counts as a verification. *)
ValueConfirmedByFetch(r, p, read) == TRUE

(* The value is found on the page; nobody but the reader can say so of a PDF. *)
ValueConfirmed(r, p, read) ==
    \/ ~cite[r].valued
    \/ IF cite[r].pdf THEN read ELSE Shows(r, p)

(* build_manual_verification_update, applied to the record by the batch: the *)
(* one fetch is what was read, judged and recorded.                          *)
ManualPass(r, read) ==
    LET p == page[r] IN
    /\ read => Shows(r, p)
    /\ rec' = [rec EXCEPT ![r] =
          IF Qualifies(r, p) /\ ValueConfirmed(r, p, read)
          THEN [manual |-> day, base |-> p, public |-> day, method |-> "manual"]
          ELSE [@ EXCEPT !.base = None]]
    /\ UNCHANGED <<cite, day, changes, page, good, run, report, token, granted>>

----------------------------------------------------------------------------
(* One run: main(), with and without --apply. *)

(* _load_citation_records: an override not reconfirmed in time owns nothing. *)
InScope(r) == cite[r].overridden => day <= Ceiling

(* The capture's unchanged citations are only a pre-filter: any subset. *)
StartRun(candidates) ==
    /\ run.at = "idle"
    /\ LET owned == {r \in candidates : InScope(r)} IN
       run' = [at |-> "evaluate", today |-> day, found |-> {}, todo |-> owned,
               seen |-> [r \in owned |-> rec[r]]]
    /\ UNCHANGED <<cite, day, changes, page, good, rec, report, token, granted>>

(* Mutant: the age is read from the public date, which extensions move. *)
AnchorDayPublic(s) == IF s.manual = None THEN None ELSE s.public

(* days_since_manual_verify reads the field only a person's pass writes. *)
AnchorDay(s) == s.manual

(* exceeds_reverify_ceiling: an unknown age exceeds it. *)
ExceedsCeiling(s, today) == AnchorDay(s) = None \/ today - AnchorDay(s) > Ceiling

SameBytes(p, base) == p = base

(* evaluate_candidate *)
Eligible(r, s, p, today) ==
    /\ ~ExceedsCeiling(s, today)
    /\ s.base # None
    /\ Qualifies(r, p)
    /\ SameBytes(p, s.base)

Evaluate(r) ==
    /\ run.at = "evaluate" /\ r \in run.todo
    /\ run' = [run EXCEPT
          !.todo = @ \ {r},
          !.seen = [o \in run.todo \ {r} |-> @[o]],
          !.found = IF Eligible(r, run.seen[r], page[r], run.today)
                    THEN @ \union {[rec |-> r, old |-> run.seen[r].public, on |-> run.today]}
                    ELSE @]
    /\ UNCHANGED <<cite, day, changes, page, good, rec, report, token, granted>>

(* Mutant: a token for as many proposals as these will do. *)
TokenMatchesCount(t, found) == t # None /\ Cardinality(t) = Cardinality(found)

(* compute_proposals_tag: the token names exactly these proposals. *)
TokenMatches(t, found) == t # None /\ t = found

Judged == run.at = "evaluate" /\ run.todo = {}

WriteReport ==
    /\ report' = run.found
    /\ run' = NotRunning

(* Without --apply, or with nothing to apply. *)
ReportOnly ==
    /\ Judged
    /\ WriteReport
    /\ UNCHANGED <<cite, day, changes, page, good, rec, token, granted>>

(* check_apply_approval refuses; a token file for other proposals is deleted. *)
Refuse(tty, env) ==
    /\ Judged /\ run.found # {}
    /\ LET byEnv == TokenMatches(env, run.found)
           byFile == TokenMatches(token, run.found) IN
       /\ ~(byEnv \/ byFile) \/ ~tty
       /\ token' = IF byEnv \/ byFile THEN token ELSE None
    /\ WriteReport
    /\ UNCHANGED <<cite, day, changes, page, good, rec, granted>>

(* Both are needed: a matching token and a person at a terminal. *)
Approve(tty, env) ==
    /\ Judged /\ run.found # {}
    /\ LET byEnv == TokenMatches(env, run.found) IN
       /\ byEnv \/ TokenMatches(token, run.found)
       /\ tty
       /\ run' = [at |-> "apply", found |-> run.found, today |-> run.today, tty |-> tty,
                  spends |-> ~byEnv, todo |-> {f.rec : f \in run.found}]
    /\ UNCHANGED <<cite, day, changes, page, good, rec, report, token, granted>>

(* apply_eligible_extends: the dataset is read again, its records are dated, *)
(* the manual date and the baseline are left alone.                          *)
Apply(r) ==
    /\ run.at = "apply" /\ r \in run.todo
    /\ rec' = [rec EXCEPT ![r].public = run.today, ![r].method = "auto"]
    /\ run' = [run EXCEPT !.todo = @ \ {r}]
    /\ UNCHANGED <<cite, day, changes, page, good, report, token, granted>>

(* The approval file is consumed, unless the environment's token matched. *)
Finish ==
    /\ run.at = "apply" /\ run.todo = {}
    /\ token' = IF run.spends THEN None ELSE token
    /\ WriteReport
    /\ UNCHANGED <<cite, day, changes, page, good, rec, granted>>

Killed ==
    /\ run.at # "idle"
    /\ run' = NotRunning
    /\ UNCHANGED <<cite, day, changes, page, good, rec, report, token, granted>>

(* External: a token is granted after a review of the proposals reported. *)
GrantToken ==
    /\ Cardinality(granted) < MaxGrants
    /\ report # {} /\ token # report
    /\ token' = report
    /\ granted' = granted \union {report}
    /\ UNCHANGED <<cite, day, changes, page, good, rec, run, report>>

Next ==
    \/ \E r \in Rec, p \in Page : SourceChanges(r, p)
    \/ Tick
    \/ \E r \in Rec, read \in BOOLEAN : ManualPass(r, read)
    \/ \E candidates \in SUBSET Rec \ {{}} : StartRun(candidates)
    \/ \E r \in Rec : Evaluate(r) \/ Apply(r)
    \/ \E tty \in BOOLEAN, env \in granted \union {None} : Refuse(tty, env) \/ Approve(tty, env)
    \/ ReportOnly \/ Finish \/ Killed
    \/ GrantToken

Spec == Init /\ [][Next]_vars

----------------------------------------------------------------------------
(* Properties *)

Entry == [manual : (0 .. LastDay) \union {None}, base : Page \union {None},
          public : 0 .. LastDay, method : {"manual", "auto"}]

Proposal == [rec : Rec, old : 0 .. LastDay, on : 0 .. LastDay]

RunType ==
    [at : {"idle"}]
    \union [at : {"evaluate"}, today : 0 .. LastDay, found : SUBSET Proposal,
            todo : SUBSET Rec, seen : UNION {[S -> Entry] : S \in SUBSET Rec}]
    \union [at : {"apply"}, today : 0 .. LastDay, found : SUBSET Proposal,
            todo : SUBSET Rec, tty : BOOLEAN, spends : BOOLEAN]

TypeOK ==
    /\ day \in 0 .. LastDay /\ changes \in 0 .. MaxChanges
    /\ cite \in [Rec -> Kind] /\ page \in [Rec -> Page]
    /\ good \in [Rec -> SUBSET (0 .. LastDay)]
    /\ rec \in [Rec -> Entry]
    /\ run \in RunType /\ (run.at = "evaluate" => DOMAIN run.seen = run.todo)
    /\ report \in SUBSET Proposal
    /\ granted \in SUBSET SUBSET Proposal /\ token \in granted \union {None}

(* No value is wired for the dataset, and of a PDF only the first bytes are *)
(* looked at: nothing then says that it is the cited document.              *)
Blind(r) == cite[r].pdf /\ ~cite[r].valued

(* An automatic date is true: on that day (or the next, when the run crossed *)
(* midnight) the source served the cited document with the record's value in *)
(* it, although no step of the run looks for the value: it follows from what *)
(* was anchored, however the source changed since (guardrails 4 to 6, 10 and *)
(* 21: validate_fetch_for_anchoring, evaluate_candidate).  Excepted are the  *)
(* PDFs cited by a dataset without a value (cpa_deadlines), of which any     *)
(* document is anchored and extended.                                        *)
AutoDateIsTrue ==
    \A r \in Rec : rec[r].method = "auto" /\ ~Blind(r) =>
        rec[r].public \in good[r] \/ rec[r].public + 1 \in good[r]

(* However often it is extended, an automatic date never lies more than the  *)
(* ceiling past the last day a person read the source (guardrail 3, AUTO-1). *)
AutoWithinCeiling ==
    \A r \in Rec : rec[r].method = "auto" =>
        rec[r].manual # None /\ rec[r].public - rec[r].manual <= Ceiling

(* Nothing is applied but a set of proposals that was approved as it stands, *)
(* by someone at a terminal, and the date moves from the one the proposal    *)
(* names: an approval of other proposals, of another day or already used     *)
(* does not authorise it (APPLY-1, APPLY-2).  Nothing compares the file with *)
(* the proposal when it is applied: the exception is a record that a person  *)
(* read after the midnight the run crossed, whose date then moves back.      *)
OnlyApprovedIsApplied ==
    [][\A r \in Rec :
         rec'[r].public # rec[r].public /\ rec'[r].method = "auto" =>
             /\ run.tty /\ run.found \in granted
             /\ \E f \in run.found :
                  /\ f.rec = r /\ f.on = rec'[r].public
                  /\ f.old = rec[r].public \/ rec[r].manual = f.on + 1]_vars

=============================================================================
