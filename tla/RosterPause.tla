---------------------------- MODULE RosterPause ----------------------------
(***************************************************************************)
(* Which people of an unpaid firm over its cap are reminded once the trial *)
(* is over (worker/src/store.ts reconcileRosterPauseState and              *)
(* setRosterActivePicks, worker/src/scheduler.ts                           *)
(* runRosterPauseReconciliationPass).  Several Worker invocations          *)
(* reconcile the same firm: the nightly pass, a dashboard load, the Stripe *)
(* webhook after a change of plan.  Each reads the firm, then the roster,  *)
(* and writes row by row what it decided from them.  The nightly pass runs *)
(* only while an operator approves of it, and only on firms that ever had  *)
(* a trial.                                                                *)
(***************************************************************************)
EXTENDS Naturals, FiniteSets

CONSTANTS Person,      \* the roster, over the unpaid cap
          Default,     \* the earliest-added people the cap covers
          Cron,        \* the nightly pass
          Load,        \* dashboard loads and webhooks, at most so many at once
          MaxPlanChanges \* bound on changes of plan

ASSUME RosterAssumption ==
    /\ Default \subseteq Person /\ Default # Person
    /\ IsFiniteSet(Person)
    /\ Cron \notin Load
    /\ MaxPlanChanges \in Nat

Cap == Cardinality(Default)
Invocation == Load \union {Cron}

VARIABLES tier,      \* firms.plan_tier: "free" or paid
          trial,     \* "none" (no trial_ends_at), "running", "grace" (lapsed
                     \* under 7 days ago) or "lapsed"
          approved,  \* SEND_APPROVED_PASSES names rosterPauseReconciliation
          choice,    \* firms.active_staff_choice_at is set
          paused,    \* people whose rows have paused_at
          visit,     \* per invocation: where it is and what it read
          picked,    \* history: the people kept by the last pick
          crossed,   \* history: when the pick now marked was saved, a
                     \* reconciliation that had not seen it was under way
          changes

rosterVars == <<tier, trial, approved, choice, paused, visit, picked, crossed, changes>>

NoVisit == [at |-> "idle"]
VisitAt(w, place) == visit[w].at = place
Go(w, record) == visit' = [visit EXCEPT ![w] = record]

Trials == {"none", "running", "grace", "lapsed"}
FirmType == [tier : {"free", "paid"}, trial : Trials, choice : BOOLEAN]

VisitType ==
    {NoVisit, [at |-> "unpause"], [at |-> "again"]}
    \union [at : {"roster"}, firm : FirmType]
    \union [at : {"unmark"}, then : {NoVisit, [at |-> "unpause"]}]
    \union [at : {"rows"}, pause : SUBSET Person, unpause : SUBSET Person]
    \union [at : {"pick"}, keep : SUBSET Person]

RosterTypeOK ==
    /\ tier \in {"free", "paid"} /\ trial \in Trials /\ approved \in BOOLEAN
    /\ choice \in BOOLEAN /\ crossed \in BOOLEAN /\ paused \subseteq Person /\ picked \subseteq Person
    /\ visit \in [Invocation -> VisitType]
    /\ changes \in 0 .. MaxPlanChanges

RosterInit ==
    /\ tier = "free" /\ trial \in {"none", "running"} /\ approved \in BOOLEAN
    /\ choice = FALSE /\ crossed = FALSE /\ paused = {}
    /\ visit = [w \in Invocation |-> NoVisit]
    /\ picked = {} /\ changes = 0

----------------------------------------------------------------------------
(* The plan and the calendar. *)

ChangePlan ==
    /\ changes < MaxPlanChanges
    /\ changes' = changes + 1
    /\ tier' = IF tier = "free" THEN "paid" ELSE "free"
    /\ UNCHANGED <<trial, approved, choice, paused, visit, picked, crossed>>

TrialMovesOn ==
    /\ trial \in {"running", "grace"}
    /\ trial' = IF trial = "running" THEN "grace" ELSE "lapsed"
    /\ UNCHANGED <<tier, approved, choice, paused, visit, picked, crossed, changes>>

(* requireSendApproval: the secret is set and taken back by hand. *)
SwitchApproval ==
    /\ approved' = ~approved
    /\ UNCHANGED <<tier, trial, choice, paused, visit, picked, crossed, changes>>

----------------------------------------------------------------------------
(* firmRosterOverCapUnpaidPostTrial: the roster is over the cap throughout. *)
OverCapAndUnpaid(t, tr) == t = "free" /\ tr # "running"

(* firmNeedsRosterPauseReconciliation: without a trial end there is no grace. *)
NeedsPause(f) ==
    OverCapAndUnpaid(f.tier, f.trial) /\ (f.choice \/ f.trial \in {"lapsed", "none"})

(* Mutant: the nightly pass leaves the firms out that pay. *)
ListedUnpaid == trial \in {"grace", "lapsed"} /\ tier = "free"

(* listFirmIdsWithLapsedTrial: whatever the firm pays, if it ever had a trial. *)
Listed == trial \in {"grace", "lapsed"}

(* getFirmById *)
ReadFirm(w) ==
    /\ VisitAt(w, "idle") \/ VisitAt(w, "again")
    /\ w = Cron => approved /\ Listed
    /\ Go(w, [at |-> "roster", firm |-> [tier |-> tier, trial |-> trial, choice |-> choice]])
    /\ UNCHANGED <<tier, trial, approved, choice, paused, picked, crossed, changes>>

(* Mutant: the marker of a pick outlives the pauses it stands for. *)
MarkerToClearNever(f) == FALSE

MarkerToClear(f) == f.choice

(* listFirmLicenses, and the decision. *)
ReadRoster(w) ==
    /\ VisitAt(w, "roster")
    /\ LET f == visit[w].firm
           unpause == IF paused # {} THEN [at |-> "unpause"] ELSE NoVisit IN
       Go(w, IF ~NeedsPause(f)
             THEN IF MarkerToClear(f) THEN [at |-> "unmark", then |-> unpause] ELSE unpause
             ELSE IF f.choice THEN NoVisit
             ELSE [at |-> "rows", pause |-> Person \ (Default \union paused),
                   unpause |-> Default \intersect paused])
    /\ UNCHANGED <<tier, trial, approved, choice, paused, picked, crossed, changes>>

ClearMarker(w) ==
    /\ VisitAt(w, "unmark")
    /\ choice' = FALSE /\ crossed' = FALSE
    /\ Go(w, visit[w].then)
    /\ UNCHANGED <<tier, trial, approved, paused, picked, changes>>

UnpauseEveryone(w) ==
    /\ VisitAt(w, "unpause")
    /\ paused' = {}
    /\ Go(w, NoVisit)
    /\ UNCHANGED <<tier, trial, approved, choice, picked, crossed, changes>>

(* One UPDATE a row: those to pause first. *)
WriteRow(w) ==
    /\ VisitAt(w, "rows")
    /\ LET j == visit[w] IN
       \/ \E p \in j.pause :
             /\ paused' = paused \union {p}
             /\ Go(w, [j EXCEPT !.pause = @ \ {p}])
       \/ /\ j.pause = {}
          /\ \E p \in j.unpause :
                /\ paused' = paused \ {p}
                /\ Go(w, [j EXCEPT !.unpause = @ \ {p}])
       \/ /\ j.pause = {} /\ j.unpause = {}
          /\ Go(w, NoVisit)
          /\ UNCHANGED paused
    /\ UNCHANGED <<tier, trial, approved, choice, picked, crossed, changes>>

----------------------------------------------------------------------------
(* handleFirmRosterActivePicks: refused unless there is something to choose. *)
StartPick(w, keep) ==
    /\ VisitAt(w, "idle") /\ w # Cron
    /\ OverCapAndUnpaid(tier, trial)
    /\ Cardinality(keep) <= Cap
    /\ Go(w, [at |-> "pick", keep |-> keep])
    /\ UNCHANGED <<tier, trial, approved, choice, paused, picked, crossed, changes>>

(* Invocation o goes on from a firm row read before any pick was marked. *)
Unaware(o) ==
    \/ VisitAt(o, "roster") /\ ~visit[o].firm.choice
    \/ VisitAt(o, "rows") \/ VisitAt(o, "unpause")

(* setRosterActivePicks is one batch; a reconciliation follows. *)
SavePick(w) ==
    /\ VisitAt(w, "pick")
    /\ choice' = TRUE
    /\ crossed' = \E o \in Invocation \ {w} : Unaware(o)
    /\ paused' = Person \ visit[w].keep
    /\ picked' = visit[w].keep
    /\ Go(w, [at |-> "again"])
    /\ UNCHANGED <<tier, trial, approved, changes>>

Step(w) ==
    \/ ReadRoster(w) \/ ClearMarker(w) \/ UnpauseEveryone(w) \/ WriteRow(w)
    \/ SavePick(w)
    \/ VisitAt(w, "again") /\ ReadFirm(w)

RosterNext ==
    \/ ChangePlan \/ TrialMovesOn \/ SwitchApproval
    \/ \E w \in Invocation : \/ ReadFirm(w) \/ Step(w)
                             \/ \E keep \in SUBSET Person : StartPick(w, keep)

RosterSpec == RosterInit /\ [][RosterNext]_rosterVars

(* An invocation that has started goes on, and an approved pass comes round *)
(* again (scheduled(), once a day).                                          *)
FairRosterSpec ==
    /\ RosterSpec
    /\ WF_rosterVars(ReadFirm(Cron))
    /\ \A w \in Invocation : WF_rosterVars(Step(w))

----------------------------------------------------------------------------
(* Properties *)

NoVisitUnderWay == \A w \in Invocation : VisitAt(w, "idle")

(* A firm that pays and goes on paying has everybody reminded again, even    *)
(* when a reconciliation that read it unpaid writes after the one that read  *)
(* it paid: the next nightly pass repairs it (store.ts:3545, "upgrade        *)
(* restores all").  That takes a pass which stays approved                   *)
(* (scheduler.ts:2951) and a firm it lists, so one that had a trial          *)
(* (store.ts:3702): any other waits for somebody to open its dashboard.      *)
PaidRosterRuns ==
    <>[](tier = "paid" /\ trial \in {"grace", "lapsed"} /\ approved) => <>[](paused = {})

(* A firm that stays unpaid after its trial ends up with at most its cap of  *)
(* people reminded, whatever picks and changes of plan came before, while    *)
(* the pass stays approved: a pick disarms the pause for good (AuditLab      *)
(* PR6-H, SecurityLab PR6-M) only when it was saved while a reconciliation   *)
(* that had not seen it was under way, which may unpause everybody behind    *)
(* the marker.                                                               *)
CapSettles ==
    <>[](tier = "free" /\ trial = "lapsed" /\ approved /\ ~crossed)
        => <>[](Cardinality(Person \ paused) <= Cap)

(* The marker never outlives what it stands for: when nothing is under way,  *)
(* a firm marked as having chosen has exactly the people it chose reminded   *)
(* (store.ts:3590-3601, "a marker with nothing behind it"), unless a         *)
(* reconciliation that had not seen the pick was under way when it was       *)
(* saved.                                                                    *)
ChoiceIsKept == NoVisitUnderWay /\ choice /\ ~crossed => Person \ paused = picked

=============================================================================
