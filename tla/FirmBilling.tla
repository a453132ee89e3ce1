---------------------------- MODULE FirmBilling ----------------------------
(***************************************************************************)
(* One firm's billing row and the Stripe webhooks that keep it up to date  *)
(* (worker/src/index.ts handleFirmBillingCheckout and handleStripeWebhook, *)
(* worker/src/subscription_sync.ts, worker/src/store.ts).  Stripe delivers *)
(* every event at least once, in any order; each delivery is handled by a  *)
(* Worker invocation that stops at every await, that others may overlap,   *)
(* and that may die.  The webhook ledger is written BEFORE the event is    *)
(* applied, so a checkout or deletion whose handler dies is never retried. *)
(***************************************************************************)
EXTENDS Naturals, FiniteSets

CONSTANTS Sub,        \* Stripe subscription ids, one per checkout session
          Worker,     \* webhook deliveries that may be handled at once
          Tier,       \* the paid plan tiers
          Growth,     \* the only tier a founding trial may have
          None,       \* no subscription
          Grant,      \* the operator gave this firm a founding-firm slot
          Kills,      \* an invocation may die, or throw into a 500, at an await
          MaxChanges  \* portal plan switches

ASSUME BillingAssumption ==
    /\ Growth \in Tier
    /\ "free" \notin Tier
    /\ None \notin Sub
    /\ Grant \in BOOLEAN
    /\ Kills \in BOOLEAN
    /\ MaxChanges \in Nat

VARIABLES row,      \* firms: plan_tier, stripe_subscription_id, has a customer id
          grant,    \* founding_firm_grants: "none", "open" or "started"
          session,  \* per checkout session: its stage and its metadata
          stripe,   \* per subscription: what Stripe bills
          sent,     \* events Stripe has emitted
          acked,    \* events answered with a 2xx
          ledger,   \* stripe_webhook_events
          job,      \* per worker: the await its handler is suspended at
          applied,  \* history: how often the checkout of s wrote the row
          stuck     \* history: why a subscription is known to be out of step

vars == <<row, grant, session, stripe, sent, acked, ledger, job, applied, stuck>>

Event == [kind : {"checkout", "deleted"}, sub : Sub, n : {0}]
         \union [kind : {"updated"}, sub : Sub, n : 1 .. MaxChanges]

Idle == [at |-> "idle"]
At(w, place) == job[w].at = place

(* A handler holds the event, the firm row it read and the tier it fetched. *)
Held(place, e, seen, tier) == [at |-> place, event |-> e, seen |-> seen, tier |-> tier]

Reasons == {"lost",      \* a handler died between the ledger and the row
            "early",     \* the deletion was handled before the checkout
            "stale",     \* a handler decided on a row or plan that had changed
            "unsynced",  \* Stripe's answer could not be mirrored, a person is told
            "unstamped", \* the grant stamp failed, the tier was written anyway
            "byhand"}    \* Stripe refused the cancellation of a rejected trial

RowType == [tier : Tier \union {"free"}, sub : Sub \union {None}, customer : BOOLEAN]

JobType ==
    {Idle} \union
    [at : {"claim", "reject", "apply", "find", "revert", "fetch", "mirror"},
     event : Event, seen : RowType, tier : Tier \union {"free"}]

TypeOK ==
    /\ row \in RowType
    /\ grant \in {"none", "open", "started"}
    /\ session \in [Sub -> [stage : {"none", "open", "paid", "expired"},
                            tier : Tier, founding : BOOLEAN]]
    /\ stripe \in [Sub -> [status : {"none", "live", "ended"}, tier : Tier]]
    /\ sent \subseteq Event /\ IsFiniteSet(sent) /\ acked \subseteq ledger /\ ledger \subseteq sent
    /\ job \in [Worker -> JobType]
    /\ applied \in [Sub -> Nat]
    /\ stuck \in [Sub -> SUBSET Reasons]

Init ==
    /\ row = [tier |-> "free", sub |-> None, customer |-> FALSE]
    /\ grant = IF Grant THEN "open" ELSE "none"
    /\ session = [s \in Sub |-> [stage |-> "none", tier |-> Growth, founding |-> FALSE]]
    /\ stripe = [s \in Sub |-> [status |-> "none", tier |-> Growth]]
    /\ sent = {} /\ acked = {} /\ ledger = {}
    /\ job = [w \in Worker |-> Idle]
    /\ applied = [s \in Sub |-> 0]
    /\ stuck = [s \in Sub |-> {}]

Mark(s, reason) == [stuck EXCEPT ![s] = @ \union {reason}]
MarkIf(cond, s, reason) == IF cond THEN Mark(s, reason) ELSE stuck

----------------------------------------------------------------------------
(* The firm, the operator and Stripe. *)

(* The roster is within the cap of Growth, or too large for it. *)
FoundingTrial(fits) == grant = "open" /\ ~row.customer /\ fits

(* handleFirmBillingCheckout: refused while the row has a subscription, and for *)
(* a tier too small for the roster.                                             *)
OpenSession(s, t, fits) ==
    /\ session[s].stage = "none"
    /\ row.sub = None
    /\ ~fits => t # Growth
    /\ FoundingTrial(fits) => t = Growth
    /\ session' = [session EXCEPT ![s] =
                      [stage |-> "open", tier |-> t, founding |-> FoundingTrial(fits)]]
    /\ UNCHANGED <<row, grant, stripe, sent, acked, ledger, job, applied, stuck>>

ExpireSession(s) ==
    /\ session[s].stage = "open"
    /\ session' = [session EXCEPT ![s].stage = "expired"]
    /\ UNCHANGED <<row, grant, stripe, sent, acked, ledger, job, applied, stuck>>

Emit(kind, s, n) == sent' = sent \union {[kind |-> kind, sub |-> s, n |-> n]}

PayInStripe(s) ==
    /\ session[s].stage = "open"
    /\ session' = [session EXCEPT ![s].stage = "paid"]
    /\ stripe' = [stripe EXCEPT ![s] = [status |-> "live", tier |-> session[s].tier]]
    /\ Emit("checkout", s, 0)
    /\ UNCHANGED <<row, grant, acked, ledger, job, applied, stuck>>

Changes == Cardinality({e \in sent : e.kind = "updated"})

(* The portal opens only for the row's own subscription (handleFirmBillingPortal), *)
(* and offers a live founding trial no other plan.                                 *)
SwitchInPortal(s, t) ==
    /\ row.sub = s /\ stripe[s].status = "live"
    /\ ~session[s].founding
    /\ t # stripe[s].tier
    /\ Changes < MaxChanges
    /\ stripe' = [stripe EXCEPT ![s].tier = t]
    /\ Emit("updated", s, Changes + 1)
    /\ UNCHANGED <<row, grant, session, acked, ledger, job, applied, stuck>>

EndInStripe(s) ==
    /\ stripe[s].status = "live"
    /\ stripe' = [stripe EXCEPT ![s].status = "ended"]
    /\ Emit("deleted", s, 0)
    /\ UNCHANGED <<row, grant, session, acked, ledger, job, applied, stuck>>

RevokeGrant ==
    /\ grant = "open"
    /\ grant' = "none"
    /\ UNCHANGED <<row, session, stripe, sent, acked, ledger, job, applied, stuck>>

----------------------------------------------------------------------------
(* handleStripeWebhook.  A delivery may be of any event ever emitted. *)

Ack(w, e) ==
    /\ acked' = acked \union {e}
    /\ job' = [job EXCEPT ![w] = Idle]

Hold(w, place, e, tier) ==
    /\ job' = [job EXCEPT ![w] = Held(place, e, row, tier)]
    /\ UNCHANGED acked

(* Mutant: every delivery counts as the first one. *)
IsNewAlways(e) == TRUE

(* recordWebhookEventIfNew: the primary key lets one delivery win. *)
IsNew(e) == e \notin ledger

Duplicate(w, e) ==
    /\ At(w, "idle") /\ e.kind # "updated" /\ ~IsNew(e)
    /\ Ack(w, e)
    /\ UNCHANGED <<row, grant, session, stripe, sent, ledger, applied, stuck>>

DeliverCheckout(w, e) ==
    /\ At(w, "idle") /\ e.kind = "checkout" /\ IsNew(e)
    /\ ledger' = ledger \union {e}
    /\ Hold(w, IF session[e.sub].founding THEN "claim" ELSE "apply", e, session[e.sub].tier)
    /\ UNCHANGED <<row, grant, session, stripe, sent, applied, stuck>>

(* Mutant: the stamp is not conditional on trial_started_at IS NULL. *)
UnstartedOrNot == grant # "none"

Unstarted == grant = "open"

(* claimFoundingFirmTrialStart; when it throws, the tier is written, whether *)
(* the stamp is there or not.                                                *)
ClaimTrial(w) ==
    /\ At(w, "claim")
    /\ LET e == job[w].event IN
       \/ /\ Unstarted
          /\ grant' = "started"
          /\ job' = [job EXCEPT ![w].at = "apply"]
          /\ UNCHANGED stuck
       \/ /\ ~Unstarted
          /\ job' = [job EXCEPT ![w].at = "reject"]
          /\ UNCHANGED <<grant, stuck>>
       \/ /\ Kills
          /\ job' = [job EXCEPT ![w].at = "apply"]
          /\ stuck' = Mark(e.sub, "unstamped")
          /\ UNCHANGED grant \/ (Unstarted /\ grant' = "started")
    /\ UNCHANGED <<row, session, stripe, sent, acked, ledger, applied>>

(* cancelSubscriptionNow on a trial nobody granted; a refusal is left to a person. *)
RejectTrial(w) ==
    /\ At(w, "reject")
    /\ LET e == job[w].event
           live == stripe[e.sub].status = "live" IN
       /\ \/ /\ stripe' = [stripe EXCEPT ![e.sub].status = "ended"]
             /\ IF live THEN Emit("deleted", e.sub, 0) ELSE UNCHANGED sent
             /\ UNCHANGED stuck
          \/ /\ Kills /\ live
             /\ stuck' = Mark(e.sub, "byhand")
             /\ UNCHANGED <<stripe, sent>>
       /\ Ack(w, e)
    /\ UNCHANGED <<row, grant, session, ledger, applied>>

(* updateFirmBilling, unconditional. *)
ApplyCheckout(w) ==
    /\ At(w, "apply")
    /\ LET e == job[w].event IN
       /\ row' = [tier |-> job[w].tier, sub |-> e.sub, customer |-> TRUE]
       /\ applied' = [applied EXCEPT ![e.sub] = @ + 1]
       /\ Ack(w, e)
    /\ UNCHANGED <<grant, session, stripe, sent, ledger, stuck>>

DeliverDeletion(w, e) ==
    /\ At(w, "idle") /\ e.kind = "deleted" /\ IsNew(e)
    /\ ledger' = ledger \union {e}
    /\ Hold(w, "find", e, "free")
    /\ UNCHANGED <<row, grant, session, stripe, sent, applied, stuck>>

(* Mutant: the firm is looked up by its customer, whatever it subscribes to now. *)
IsFirmOfCustomer(s) == row.customer

(* findFirmByStripeSubscriptionId *)
IsFirmOf(s) == row.sub = s

FindFirm(w) ==
    /\ At(w, "find")
    /\ LET e == job[w].event IN
       \/ /\ IsFirmOf(e.sub)
          /\ Hold(w, "revert", e, "free")
          /\ UNCHANGED stuck
       \/ /\ ~IsFirmOf(e.sub)
          /\ Ack(w, e)
          /\ stuck' = MarkIf(applied[e.sub] = 0, e.sub, "early")
    /\ UNCHANGED <<row, grant, session, stripe, sent, ledger, applied>>

(* updateFirmBilling by firm id: it does not look at the row again. *)
RevertToFree(w) ==
    /\ At(w, "revert")
    /\ LET e == job[w].event IN
       /\ row' = [tier |-> "free", sub |-> None, customer |-> job[w].seen.customer]
       /\ stuck' = [s \in Sub |-> IF row # job[w].seen THEN stuck[s] \union {"stale"} ELSE stuck[s]]
       /\ Ack(w, e)
    /\ UNCHANGED <<grant, session, stripe, sent, ledger, applied>>

(* customer.subscription.updated: the ledger row is written and not looked at. *)
DeliverUpdate(w, e) ==
    /\ At(w, "idle") /\ e.kind = "updated"
    /\ ledger' = ledger \union {e}
    /\ IF IsFirmOf(e.sub) THEN Hold(w, "fetch", e, row.tier) ELSE Ack(w, e)
    /\ UNCHANGED <<row, grant, session, stripe, sent, applied, stuck>>

(* Mutant: the tier is taken from the event's payload. *)
TierInEvent(e) == IF e.n % 2 = 1 THEN CHOOSE t \in Tier : t # session[e.sub].tier
                  ELSE session[e.sub].tier

(* fetchStripeSubscription: what Stripe says now, not what the event says. *)
TierToMirror(e) == stripe[e.sub].tier

(* A subscription Stripe does not find, of another customer, or of items that *)
(* make no tier is left to a person (alertUnsynced).                          *)
FetchSnapshot(w) ==
    /\ At(w, "fetch")
    /\ LET e == job[w].event
           seen == job[w].seen
           tier == TierToMirror(e) IN
       \/ /\ stripe[e.sub].status = "live" /\ tier # seen.tier
          /\ job' = [job EXCEPT ![w] = Held("mirror", e, seen, tier)]
          /\ UNCHANGED <<acked, stuck>>
       \/ /\ stripe[e.sub].status # "live" \/ tier = seen.tier
          /\ Ack(w, e)
          /\ stuck' = MarkIf(row # seen, e.sub, "stale")
       \/ /\ Ack(w, e)
          /\ stuck' = Mark(e.sub, "unsynced")
    /\ UNCHANGED <<row, grant, session, stripe, sent, ledger, applied>>

(* updateFirmBilling with the subscription id and the tier held since the read. *)
MirrorTier(w) ==
    /\ At(w, "mirror")
    /\ LET e == job[w].event IN
       /\ row' = [tier |-> job[w].tier, sub |-> e.sub, customer |-> TRUE]
       /\ stuck' = [s \in Sub |->
                      IF row # job[w].seen \/ stripe[e.sub].tier # job[w].tier
                      THEN stuck[s] \union {"stale"} ELSE stuck[s]]
       /\ Ack(w, e)
    /\ UNCHANGED <<grant, session, stripe, sent, ledger, applied>>

(* The isolate is killed, or a call throws: no 2xx, and the ledger row stays. *)
Die(w) ==
    /\ Kills
    /\ ~At(w, "idle")
    /\ job' = [job EXCEPT ![w] = Idle]
    /\ stuck' = MarkIf(job[w].event.kind # "updated", job[w].event.sub, "lost")
    /\ UNCHANGED <<row, grant, session, stripe, sent, acked, ledger, applied>>

Handle(w) ==
    \/ \E e \in sent : \/ Duplicate(w, e) \/ DeliverCheckout(w, e)
                       \/ DeliverDeletion(w, e) \/ DeliverUpdate(w, e)
    \/ ClaimTrial(w) \/ RejectTrial(w) \/ ApplyCheckout(w)
    \/ FindFirm(w) \/ RevertToFree(w) \/ FetchSnapshot(w) \/ MirrorTier(w)

Next ==
    \/ \E s \in Sub, t \in Tier : \/ SwitchInPortal(s, t)
                                  \/ \E fits \in BOOLEAN : OpenSession(s, t, fits)
    \/ \E s \in Sub : ExpireSession(s) \/ PayInStripe(s) \/ EndInStripe(s)
    \/ RevokeGrant
    \/ \E w \in Worker : Handle(w) \/ Die(w)

Spec == Init /\ [][Next]_vars

----------------------------------------------------------------------------
(* Properties *)

Quiet == acked = sent /\ \A w \in Worker : At(w, "idle")

(* When every event has been answered, the row follows Stripe: a live        *)
(* subscription on the row gives exactly the tier Stripe bills, and a        *)
(* cancelled one is no longer on the row.  The only exceptions are the four  *)
(* the code has: an event lost between the ledger and the row, a deletion    *)
(* that overtook its checkout, a decision on a stale read, and an answer of  *)
(* Stripe's that could not be mirrored and was left to a person.             *)
(* (handleStripeWebhook; subscription_sync.ts applySubscriptionUpdatedEvent.) *)
RowFollowsStripe ==
    \A s \in Sub :
        Quiet /\ row.sub = s /\ stuck[s] \intersect {"lost", "early", "stale", "unsynced"} = {} =>
            stripe[s].status = "live" /\ row.tier = stripe[s].tier

(* A step that writes the row from a read the row has moved on from. *)
StaleDecision(w) ==
    /\ At(w, "revert") \/ At(w, "mirror")
    /\ row # job[w].seen
    /\ job'[w] = Idle

(* A cancellation takes access away from no other subscription, however late *)
(* it is delivered and whatever was bought since: a firm goes off a          *)
(* subscription only when Stripe has ended that very one, when another       *)
(* checkout is applied over it, or in a step that decides on a stale read    *)
(* (findFirmByStripeSubscriptionId, updateFirmBilling).                      *)
NobodyDroppedByAnother ==
    [][\A s \in Sub : row.sub = s /\ row'.sub # s =>
          \/ stripe[s].status = "ended"
          \/ \E o \in Sub \ {s} : applied'[o] # applied[o]
          \/ \E w \in Worker : StaleDecision(w)]_vars

(* One checkout event writes the row at most once, however often and however *)
(* concurrently Stripe delivers it (recordWebhookEventIfNew): a redelivery   *)
(* after a cancellation cannot bring the plan back.                          *)
CheckoutAppliesOnce == \A s \in Sub : applied[s] <= 1

(* One grant gives one free year: when everything is answered, at most one  *)
(* founding trial is live in Stripe, leaving out the ones the code hands to *)
(* a person (a lost event, a failed stamp, a failed cancellation).          *)
OneFreeYear ==
    Quiet => Cardinality({s \in Sub : /\ session[s].founding
                                      /\ stripe[s].status = "live"
                                      /\ stuck[s] \intersect {"lost", "unstamped", "byhand"} = {}}) <= 1

=============================================================================
