------------------------- MODULE FirmBillingProofs -------------------------
(***************************************************************************)
(* Proofs about FirmBilling, for every set of subscriptions, workers and   *)
(* tiers and any number of plan switches, and, in its last part, about     *)
(* RosterPause, which follows the plan of the same firm.                   *)
(***************************************************************************)
EXTENDS FirmBilling, RosterPause, FiniteSetTheorems, TLAPS

(* What is true of a delivery under way, whatever the others do.            *)

Checkout(s) == [kind |-> "checkout", sub |-> s, n |-> 0]
Deletion(s) == [kind |-> "deleted", sub |-> s, n |-> 0]

Pending(w, s) == job[w].at \in {"claim", "reject", "apply"} /\ job[w].event.sub = s

JobFits(w) ==
    LET j == job[w]
        s == j.event.sub IN
    /\ j.event \in ledger
    /\ j.at \in {"claim", "reject", "apply"} =>
          j.event = Checkout(s) /\ applied[s] = 0 /\ j.tier = session[s].tier
    /\ j.at \in {"claim", "reject"} => session[s].founding
    /\ j.at \in {"find", "revert"} => j.event = Deletion(s)
    /\ j.at \in {"fetch", "mirror"} => j.event.kind = "updated"
    /\ j.at \in {"revert", "fetch", "mirror"} => j.seen.sub = s /\ applied[s] = 1

JobsFit == \A w \in Worker : ~At(w, "idle") => JobFits(w)

\* One delivery at most is about to write the checkout of a subscription.
OnePending == \A w, v \in Worker, s \in Sub : Pending(w, s) /\ Pending(v, s) => w = v

SubFits(s) ==
    /\ applied[s] \in {0, 1}
    /\ applied[s] = 1 => Checkout(s) \in ledger
    /\ row.sub = s => applied[s] = 1
    /\ Checkout(s) \in sent <=> session[s].stage = "paid"
    /\ stripe[s].status # "none" <=> session[s].stage = "paid"
    /\ Deletion(s) \in sent <=> stripe[s].status = "ended"
    /\ applied[s] = 0 => stripe[s].status = "none" \/ stripe[s].tier = session[s].tier

SubsFit == \A s \in Sub : SubFits(s)

Fit == TypeOK /\ JobsFit /\ OnePending /\ SubsFit

Busy(j) == j.at \in {"claim", "reject", "apply", "find", "revert", "fetch", "mirror"}

-----------------------------------------------------------------------------
(* Types.                                                                  *)

LEMMA IdleTyped == Idle \in JobType /\ ~Busy(Idle) /\ Idle.at = "idle"
BY DEF Idle, JobType, Busy

\* A handler that is at an await holds an event.
LEMMA BusyTyped ==
    ASSUME TypeOK, NEW w \in Worker, ~At(w, "idle")
    PROVE  /\ Busy(job[w])
           /\ job[w] \in [at : {"claim", "reject", "apply", "find", "revert", "fetch", "mirror"},
                          event : Event, seen : RowType, tier : Tier \union {"free"}]
BY DEF TypeOK, JobType, At, Idle, Busy

LEMMA HeldTyped ==
    ASSUME NEW place \in {"claim", "reject", "apply", "find", "revert", "fetch", "mirror"},
           NEW e \in Event, NEW seen \in RowType, NEW t \in Tier \union {"free"}
    PROVE  Held(place, e, seen, t) \in JobType
BY DEF Held, JobType

LEMMA StuckTyped ==
    ASSUME TypeOK, NEW s \in Sub, NEW reason \in Reasons, NEW cond
    PROVE  /\ Mark(s, reason) \in [Sub -> SUBSET Reasons]
           /\ MarkIf(cond, s, reason) \in [Sub -> SUBSET Reasons]
BY DEF TypeOK, Mark, MarkIf

LEMMA InitTyped == Init => TypeOK
BY FS_EmptySet, BillingAssumption, IdleTyped DEF Init, TypeOK, RowType

\* The switches of plan are counted.
LEMMA ChangesCounted == TypeOK => Changes \in Nat
<1> SUFFICES ASSUME TypeOK PROVE Changes \in Nat
  OBVIOUS
<1>1. IsFiniteSet({e \in sent : e.kind = "updated"})
  BY FS_Subset DEF TypeOK
<1> QED
  BY <1>1, FS_CardinalityType DEF Changes

LEMMA EmitTyped ==
    ASSUME TypeOK, NEW kind, NEW s \in Sub, NEW n, Emit(kind, s, n),
           \/ kind \in {"checkout", "deleted"} /\ n = 0
           \/ kind = "updated" /\ n \in 1 .. MaxChanges
    PROVE  sent' \subseteq Event /\ IsFiniteSet(sent') /\ sent \subseteq sent'
<1>1. [kind |-> kind, sub |-> s, n |-> n] \in Event
  BY DEF Event
<1>2. IsFiniteSet(sent')
  BY FS_AddElement DEF Emit, TypeOK
<1> QED
  BY <1>1, <1>2 DEF Emit, TypeOK

\* What the firm, the operator and Stripe do.
LEMMA OutsideTyped ==
    ASSUME TypeOK, NEW s \in Sub, NEW t \in Tier,
           \/ \E fits \in BOOLEAN : OpenSession(s, t, fits)
           \/ SwitchInPortal(s, t) \/ ExpireSession(s)
           \/ PayInStripe(s) \/ EndInStripe(s) \/ RevokeGrant
    PROVE  TypeOK'
<1>1. \A fits \in BOOLEAN : FoundingTrial(fits) \in BOOLEAN
  BY DEF FoundingTrial, TypeOK, RowType
<1>2. ASSUME NEW fits \in BOOLEAN, OpenSession(s, t, fits) PROVE TypeOK'
  BY <1>1, <1>2 DEF OpenSession, TypeOK
<1>3. CASE SwitchInPortal(s, t)
  <2>1. Changes + 1 \in 1 .. MaxChanges
    BY <1>3, ChangesCounted, BillingAssumption DEF SwitchInPortal
  <2>2. sent' \subseteq Event /\ IsFiniteSet(sent') /\ sent \subseteq sent'
    BY <1>3, <2>1, EmitTyped DEF SwitchInPortal
  <2> QED
    BY <1>3, <2>2 DEF SwitchInPortal, TypeOK
<1>4. CASE ExpireSession(s)
  BY <1>4 DEF ExpireSession, TypeOK
<1>5. CASE PayInStripe(s)
  <2>1. sent' \subseteq Event /\ IsFiniteSet(sent') /\ sent \subseteq sent'
    BY <1>5, EmitTyped DEF PayInStripe
  <2> QED
    BY <1>5, <2>1 DEF PayInStripe, TypeOK
<1>6. CASE EndInStripe(s)
  <2>1. sent' \subseteq Event /\ IsFiniteSet(sent') /\ sent \subseteq sent'
    BY <1>6, EmitTyped DEF EndInStripe
  <2> QED
    BY <1>6, <2>1 DEF EndInStripe, TypeOK
<1>7. CASE RevokeGrant
  BY <1>7 DEF RevokeGrant, TypeOK
<1> QED
  BY <1>2, <1>3, <1>4, <1>5, <1>6, <1>7

\* What a delivery does.
LEMMA DeliveryTyped ==
    ASSUME TypeOK, NEW w \in Worker, NEW e \in sent,
           \/ Duplicate(w, e) \/ DeliverCheckout(w, e)
           \/ DeliverDeletion(w, e) \/ DeliverUpdate(w, e)
    PROVE  TypeOK'
<1>1. e \in Event /\ e.sub \in Sub
  BY DEF TypeOK, Event
<1>2. /\ session[e.sub].tier \in Tier \union {"free"}
      /\ row \in RowType /\ row.tier \in Tier \union {"free"}
  BY <1>1 DEF TypeOK, RowType
<1>3. CASE Duplicate(w, e)
  <2>1. e \in ledger
    BY <1>3 DEF Duplicate, IsNew
  <2> QED
    BY <1>3, <2>1, IdleTyped DEF Duplicate, Ack, TypeOK
<1>4. CASE DeliverCheckout(w, e)
  <2>1. \A place \in {"claim", "apply"} : Held(place, e, row, session[e.sub].tier) \in JobType
    BY <1>1, <1>2, HeldTyped
  <2>2. job' \in [Worker -> JobType] /\ acked' = acked
    BY <1>4, <2>1 DEF DeliverCheckout, Hold, TypeOK
  <2> QED
    BY <1>4, <2>2 DEF DeliverCheckout, TypeOK
<1>5. CASE DeliverDeletion(w, e)
  <2>1. Held("find", e, row, "free") \in JobType
    BY <1>1, <1>2, HeldTyped
  <2>2. job' \in [Worker -> JobType] /\ acked' = acked
    BY <1>5, <2>1 DEF DeliverDeletion, Hold, TypeOK
  <2> QED
    BY <1>5, <2>2 DEF DeliverDeletion, TypeOK
<1>6. CASE DeliverUpdate(w, e)
  <2>1. Held("fetch", e, row, row.tier) \in JobType
    BY <1>1, <1>2, HeldTyped
  <2>2. job' \in [Worker -> JobType]
    BY <1>6, <2>1, IdleTyped DEF DeliverUpdate, Hold, Ack, TypeOK
  <2>3. acked' \subseteq ledger'
    BY <1>6 DEF DeliverUpdate, Hold, Ack, TypeOK
  <2> QED
    BY <1>6, <2>2, <2>3 DEF DeliverUpdate, TypeOK
<1> QED
  BY <1>3, <1>4, <1>5, <1>6

\* What a handler does after an await.
LEMMA HandlerTyped ==
    ASSUME TypeOK, JobsFit, NEW w \in Worker,
           \/ ClaimTrial(w) \/ RejectTrial(w) \/ ApplyCheckout(w) \/ FindFirm(w)
           \/ RevertToFree(w) \/ FetchSnapshot(w) \/ MirrorTier(w) \/ Die(w)
    PROVE  TypeOK'
<1> DEFINE e == job[w].event
<1>0. ~At(w, "idle")
  BY DEF ClaimTrial, RejectTrial, ApplyCheckout, FindFirm, RevertToFree, FetchSnapshot,
         MirrorTier, Die, At
<1>1. /\ job[w] \in [at : {"claim", "reject", "apply", "find", "revert", "fetch", "mirror"},
                      event : Event, seen : RowType, tier : Tier \union {"free"}]
      /\ e \in ledger
  BY <1>0, BusyTyped DEF JobsFit, JobFits
<1>2. e \in Event /\ e.sub \in Sub /\ job[w].seen \in RowType
      /\ job[w].tier \in Tier \union {"free"}
  BY <1>1 DEF Event
<1> HIDE DEF e
<1>3. ASSUME NEW place \in {"claim", "reject", "apply", "find", "revert", "fetch", "mirror"}
      PROVE  [job[w] EXCEPT !.at = place] \in JobType
  BY <1>1 DEF JobType
<1>4. Ack(w, e) => job' \in [Worker -> JobType] /\ acked' \subseteq ledger
  BY <1>1, IdleTyped DEF Ack, TypeOK
<1>5. /\ Mark(e.sub, "unstamped") \in [Sub -> SUBSET Reasons]
      /\ Mark(e.sub, "unsynced") \in [Sub -> SUBSET Reasons]
      /\ Mark(e.sub, "byhand") \in [Sub -> SUBSET Reasons]
      /\ \A c : MarkIf(c, e.sub, "early") \in [Sub -> SUBSET Reasons]
      /\ \A c : MarkIf(c, e.sub, "stale") \in [Sub -> SUBSET Reasons]
      /\ \A c : MarkIf(c, e.sub, "lost") \in [Sub -> SUBSET Reasons]
  BY <1>2, StuckTyped DEF Reasons
<1>6. "stale" \in Reasons
  BY DEF Reasons
<1>7. CASE ClaimTrial(w)
  <2>1. job' \in [Worker -> JobType]
    BY <1>3, <1>7 DEF ClaimTrial, TypeOK
  <2>2. grant' \in {"none", "open", "started"} /\ stuck' \in [Sub -> SUBSET Reasons]
    BY <1>5, <1>7 DEF ClaimTrial, TypeOK, e
  <2> QED
    BY <1>7, <2>1, <2>2 DEF ClaimTrial, TypeOK
<1>8. CASE RejectTrial(w)
  <2>1. /\ Ack(w, e)
        /\ UNCHANGED <<row, grant, session, ledger, applied>>
        /\ \/ sent' = sent \/ Emit("deleted", e.sub, 0)
        /\ \/ stripe' = stripe \/ stripe' = [stripe EXCEPT ![e.sub].status = "ended"]
        /\ \/ stuck' = stuck \/ stuck' = Mark(e.sub, "byhand")
    BY <1>8 DEF RejectTrial, e
  <2>2. sent' \subseteq Event /\ IsFiniteSet(sent') /\ sent \subseteq sent'
    BY <1>2, <2>1, EmitTyped DEF TypeOK
  <2>3. stripe' \in [Sub -> [status : {"none", "live", "ended"}, tier : Tier]]
    BY <2>1 DEF TypeOK
  <2> QED
    BY <1>4, <1>5, <2>1, <2>2, <2>3 DEF TypeOK
<1>9. CASE ApplyCheckout(w)
  <2>1. row' \in RowType /\ applied' \in [Sub -> Nat] /\ Ack(w, e)
    BY <1>2, <1>9 DEF ApplyCheckout, TypeOK, RowType, e
  <2> QED
    BY <1>4, <1>9, <2>1 DEF ApplyCheckout, TypeOK
<1>10. CASE FindFirm(w)
  <2>1. Held("revert", e, row, "free") \in JobType
    BY <1>2, HeldTyped DEF TypeOK
  <2>2. job' \in [Worker -> JobType] /\ acked' \subseteq ledger
    BY <1>4, <1>10, <2>1 DEF FindFirm, Hold, TypeOK, e
  <2>3. stuck' \in [Sub -> SUBSET Reasons]
    BY <1>5, <1>10 DEF FindFirm, TypeOK, e
  <2> QED
    BY <1>10, <2>2, <2>3 DEF FindFirm, TypeOK
<1>11. CASE RevertToFree(w)
  <2>1. row' \in RowType
    BY <1>2, <1>11 DEF RevertToFree, RowType
  <2>2. stuck' \in [Sub -> SUBSET Reasons]
    BY <1>6, <1>11 DEF RevertToFree, TypeOK
  <2> QED
    BY <1>4, <1>11, <2>1, <2>2 DEF RevertToFree, TypeOK, e
<1>12. CASE FetchSnapshot(w)
  <2>1. stripe[e.sub].tier \in Tier
    BY <1>2 DEF TypeOK
  <2>2. Held("mirror", e, job[w].seen, stripe[e.sub].tier) \in JobType
    BY <1>2, <2>1, HeldTyped
  <2>3. job' \in [Worker -> JobType] /\ acked' \subseteq ledger
    BY <1>4, <1>12, <2>2 DEF FetchSnapshot, TierToMirror, TypeOK, e
  <2>4. stuck' \in [Sub -> SUBSET Reasons]
    BY <1>5, <1>12 DEF FetchSnapshot, TypeOK, e
  <2> QED
    BY <1>12, <2>3, <2>4 DEF FetchSnapshot, TypeOK
<1>13. CASE MirrorTier(w)
  <2>1. row' \in RowType
    BY <1>2, <1>13 DEF MirrorTier, RowType, e
  <2>2. stuck' \in [Sub -> SUBSET Reasons]
    BY <1>6, <1>13 DEF MirrorTier, TypeOK
  <2> QED
    BY <1>4, <1>13, <2>1, <2>2 DEF MirrorTier, TypeOK, e
<1>14. CASE Die(w)
  <2>1. stuck' \in [Sub -> SUBSET Reasons]
    BY <1>5, <1>14 DEF Die, e
  <2> QED
    BY <1>14, <2>1, IdleTyped DEF Die, TypeOK
<1> QED
  BY <1>7, <1>8, <1>9, <1>10, <1>11, <1>12, <1>13, <1>14

LEMMA NextTyped == Fit /\ [Next]_vars => TypeOK'
<1> SUFFICES ASSUME Fit, [Next]_vars PROVE TypeOK'
  OBVIOUS
<1>1. TypeOK /\ JobsFit
  BY DEF Fit
<1>2. CASE UNCHANGED vars
  BY <1>1, <1>2 DEF vars, TypeOK
<1>3. ASSUME NEW w \in Worker, Handle(w) PROVE TypeOK'
  BY <1>1, <1>3, DeliveryTyped, HandlerTyped DEF Handle
<1>4. ASSUME NEW w \in Worker, Die(w) PROVE TypeOK'
  BY <1>1, <1>4, HandlerTyped
<1>5. CASE RevokeGrant
  BY <1>1, <1>5 DEF RevokeGrant, TypeOK
<1>6. ASSUME NEW s \in Sub, ExpireSession(s) \/ PayInStripe(s) \/ EndInStripe(s) PROVE TypeOK'
  BY <1>1, <1>6, BillingAssumption, OutsideTyped
<1> QED
  BY <1>1, <1>2, <1>3, <1>4, <1>5, <1>6, OutsideTyped DEF Next

-----------------------------------------------------------------------------
(* The deliveries, the ledger and Stripe fit together.                     *)

LEMMA InitFit == Init => Fit
BY InitTyped, BillingAssumption DEF Init, Fit, JobsFit, OnePending, SubsFit, SubFits, Pending, At, Idle

\* A step of the firm, the operator or Stripe.
LEMMA OutsideFit ==
    ASSUME Fit, TypeOK', NEW s \in Sub, NEW t \in Tier,
           \/ \E fits \in BOOLEAN : OpenSession(s, t, fits)
           \/ SwitchInPortal(s, t) \/ ExpireSession(s)
           \/ PayInStripe(s) \/ EndInStripe(s) \/ RevokeGrant
    PROVE  Fit'
<1>0. TypeOK /\ JobsFit /\ OnePending /\ SubsFit
  BY DEF Fit
<1>1. UNCHANGED <<row, ledger, job, applied>>
  BY DEF OpenSession, SwitchInPortal, ExpireSession, PayInStripe, EndInStripe, RevokeGrant
<1>2. OnePending'
  BY <1>0, <1>1 DEF OnePending, Pending
<1>3. ASSUME NEW w \in Worker, ~At(w, "idle") PROVE job[w].event \in Event /\ job[w].event.sub \in Sub
  BY <1>0, <1>3, BusyTyped DEF Event
<1>4. \A o \in Sub : session[o].stage = "paid" =>
         session'[o].tier = session[o].tier /\ session'[o].founding = session[o].founding
  BY <1>0 DEF OpenSession, SwitchInPortal, ExpireSession, PayInStripe, EndInStripe, RevokeGrant, TypeOK
<1>5. ASSUME NEW w \in Worker, ~At(w, "idle")' PROVE JobFits(w)'
  <2>1. ~At(w, "idle") /\ JobFits(w)
    BY <1>0, <1>1, <1>5 DEF At, JobsFit
  <2>2. job[w].at \in {"claim", "reject", "apply"} => session[job[w].event.sub].stage = "paid"
    BY <1>0, <1>3, <2>1 DEF JobFits, SubsFit, SubFits, TypeOK
  <2> QED
    BY <1>1, <1>3, <1>4, <2>1, <2>2 DEF JobFits, Checkout, Deletion
<1>6. SubsFit'
  <2> SUFFICES ASSUME NEW o \in Sub PROVE SubFits(o)'
    BY DEF SubsFit
  <2>1. SubFits(o)
    BY <1>0 DEF SubsFit
  <2>2. ASSUME NEW fits \in BOOLEAN, OpenSession(s, t, fits) PROVE SubFits(o)'
    BY <1>0, <2>1, <2>2 DEF OpenSession, SubFits, Checkout, Deletion, TypeOK
  <2>3. CASE SwitchInPortal(s, t)
    BY <1>0, <2>1, <2>3 DEF SwitchInPortal, Emit, SubFits, Checkout, Deletion, TypeOK
  <2>4. CASE ExpireSession(s)
    BY <1>0, <2>1, <2>4 DEF ExpireSession, SubFits, Checkout, Deletion, TypeOK
  <2>5. CASE PayInStripe(s)
    BY <1>0, <2>1, <2>5 DEF PayInStripe, Emit, SubFits, Checkout, Deletion, TypeOK
  <2>6. CASE EndInStripe(s)
    BY <1>0, <2>1, <2>6 DEF EndInStripe, Emit, SubFits, Checkout, Deletion, TypeOK
  <2>7. CASE RevokeGrant
    BY <1>0, <2>1, <2>7 DEF RevokeGrant, SubFits, Checkout, Deletion, TypeOK
  <2> QED
    BY <2>2, <2>3, <2>4, <2>5, <2>6, <2>7
<1>7. JobsFit'
  BY <1>5 DEF JobsFit
<1> QED
  BY <1>2, <1>6, <1>7 DEF Fit

\* A delivery changes one job and the ledger.
LEMMA DeliveryFit ==
    ASSUME Fit, TypeOK', NEW w \in Worker, NEW e \in sent,
           \/ Duplicate(w, e) \/ DeliverCheckout(w, e)
           \/ DeliverDeletion(w, e) \/ DeliverUpdate(w, e)
    PROVE  Fit'
<1>0. TypeOK /\ JobsFit /\ OnePending /\ SubsFit
  BY DEF Fit
<1>1. /\ UNCHANGED <<row, session, stripe, sent, applied>>
      /\ ledger \subseteq ledger'
      /\ At(w, "idle")
  BY DEF Duplicate, DeliverCheckout, DeliverDeletion, DeliverUpdate
<1>2. \A v \in Worker \ {w} : job'[v] = job[v]
  BY <1>0 DEF Duplicate, DeliverCheckout, DeliverDeletion, DeliverUpdate, Ack, Hold, TypeOK
<1>3. e \in Event /\ e.sub \in Sub
  BY <1>0 DEF TypeOK, Event
<1>4. SubsFit'
  <2> SUFFICES ASSUME NEW o \in Sub PROVE SubFits(o)'
    BY DEF SubsFit
  <2> QED
    BY <1>0, <1>1 DEF SubsFit, SubFits, Checkout, Deletion
<1>5. ASSUME NEW v \in Worker \ {w}, ~At(v, "idle")' PROVE JobFits(v)'
  <2>1. ~At(v, "idle") /\ JobFits(v)
    BY <1>0, <1>2, <1>5 DEF At, JobsFit
  <2> QED
    BY <1>1, <1>2, <2>1 DEF JobFits, Checkout, Deletion
\* Which job the worker takes up.
<1>6. \/ job'[w] = Idle
      \/ /\ job'[w] = Held(IF session[e.sub].founding THEN "claim" ELSE "apply", e, row,
                           session[e.sub].tier)
         /\ e.kind = "checkout" /\ e \notin ledger
      \/ job'[w] = Held("find", e, row, "free") /\ e.kind = "deleted"
      \/ job'[w] = Held("fetch", e, row, row.tier) /\ e.kind = "updated" /\ row.sub = e.sub
  BY <1>0 DEF Duplicate, DeliverCheckout, DeliverDeletion, DeliverUpdate, Ack, Hold, TypeOK,
              IsNew, IsFirmOf
<1>7. job'[w] = Idle \/ e \in ledger'
  BY <1>0, IdleTyped DEF Duplicate, DeliverCheckout, DeliverDeletion, DeliverUpdate, Ack, TypeOK
<1>8. \/ e.kind = "checkout" /\ e = Checkout(e.sub)
      \/ e.kind = "deleted" /\ e = Deletion(e.sub)
      \/ e.kind = "updated"
  BY <1>3 DEF Event, Checkout, Deletion
<1>9. e.kind = "checkout" /\ e \notin ledger => applied[e.sub] = 0
  BY <1>0, <1>3, <1>8 DEF SubsFit, SubFits
<1>10. row.sub = e.sub => applied[e.sub] = 1
  BY <1>0, <1>3 DEF SubsFit, SubFits
<1>11. ~At(w, "idle")' => JobFits(w)'
  <2> SUFFICES ASSUME ~At(w, "idle")' PROVE JobFits(w)'
    OBVIOUS
  <2>1. job'[w] # Idle
    BY DEF At, Idle
  <2>2. job'[w].event = e /\ job'[w].seen = row /\ e \in ledger'
    BY <1>6, <1>7, <2>1 DEF Held
  <2>3. CASE job'[w].at \in {"claim", "apply"}
    <3>1. e.kind = "checkout" /\ e \notin ledger /\ job'[w].tier = session[e.sub].tier
      BY <1>6, <2>1, <2>3 DEF Held
    <3>2. job'[w].at = "claim" => session[e.sub].founding
      BY <1>6, <2>1, <3>1 DEF Held
    <3> QED
      BY <1>1, <1>8, <1>9, <2>2, <2>3, <3>1, <3>2 DEF JobFits, Checkout, Deletion
  <2>4. CASE job'[w].at = "find"
    BY <1>1, <1>6, <1>8, <2>1, <2>2, <2>4 DEF JobFits, Held, Checkout, Deletion
  <2>5. CASE job'[w].at = "fetch"
    BY <1>1, <1>6, <1>10, <2>1, <2>2, <2>5 DEF JobFits, Held, Checkout, Deletion
  <2> QED
    BY <1>6, <2>1, <2>3, <2>4, <2>5 DEF Held
<1>12. JobsFit'
  BY <1>5, <1>11 DEF JobsFit
<1>13. OnePending'
  <2> SUFFICES ASSUME NEW u \in Worker, NEW v \in Worker, NEW s \in Sub,
                      Pending(u, s)', Pending(v, s)', u # v
               PROVE  FALSE
    BY DEF OnePending
  <2>1. PICK x \in Worker : x # w /\ Pending(x, s)' /\ Pending(w, s)'
    BY <1>0, <1>2 DEF OnePending, Pending
  <2>2. job[x].event = Checkout(s) /\ Checkout(s) \in ledger
    BY <1>0, <1>2, <2>1 DEF Pending, JobsFit, JobFits, At
  <2>3. e = Checkout(s) /\ e \notin ledger
    BY <1>6, <1>8, <2>1 DEF Pending, Held, Idle
  <2> QED
    BY <2>2, <2>3
<1> QED
  BY <1>4, <1>12, <1>13 DEF Fit

\* What handlers do to the jobs: one of these steps.
LEMMA HandlerMoves ==
    ASSUME Fit, NEW w \in Worker,
           \/ ClaimTrial(w) \/ RejectTrial(w) \/ ApplyCheckout(w) \/ FindFirm(w)
           \/ RevertToFree(w) \/ FetchSnapshot(w) \/ MirrorTier(w) \/ Die(w)
    PROVE  /\ ~At(w, "idle") /\ JobFits(w)
           /\ job[w].event.sub \in Sub
           /\ \A v \in Worker \ {w} : job'[v] = job[v]
           /\ \/ job'[w] = Idle
              \/ /\ job[w].at = "claim" /\ job'[w].at \in {"apply", "reject"}
                 /\ job'[w].event = job[w].event /\ job'[w].tier = job[w].tier
                 /\ UNCHANGED applied
              \/ /\ job[w].at = "find" /\ job'[w].at = "revert"
                 /\ job'[w].event = job[w].event /\ job'[w].seen = row
                 /\ row.sub = job[w].event.sub /\ UNCHANGED <<row, applied>>
              \/ /\ job[w].at = "fetch" /\ job'[w].at = "mirror"
                 /\ job'[w].event = job[w].event /\ job'[w].seen = job[w].seen
                 /\ UNCHANGED <<row, applied>>
<1>0. TypeOK /\ JobsFit
  BY DEF Fit
<1>1. ~At(w, "idle")
  BY DEF ClaimTrial, RejectTrial, ApplyCheckout, FindFirm, RevertToFree, FetchSnapshot,
         MirrorTier, Die, At
<1>2. JobFits(w)
  BY <1>0, <1>1 DEF JobsFit
<1>3. job[w] \in [at : {"claim", "reject", "apply", "find", "revert", "fetch", "mirror"},
                  event : Event, seen : RowType, tier : Tier \union {"free"}]
  BY <1>0, <1>1, BusyTyped
<1>4. job[w].event.sub \in Sub
  BY <1>3 DEF Event
<1>5. ASSUME NEW j, job' = [job EXCEPT ![w] = j]
      PROVE  job'[w] = j /\ \A v \in Worker \ {w} : job'[v] = job[v]
  BY <1>0, <1>5 DEF TypeOK
<1>6. CASE ClaimTrial(w)
  <2>1. PICK p \in {"apply", "reject"} : job' = [job EXCEPT ![w] = [job[w] EXCEPT !.at = p]]
    BY <1>0, <1>6 DEF ClaimTrial, TypeOK
  <2>2. job'[w] = [job[w] EXCEPT !.at = p]
    BY <1>5, <2>1
  <2>3. job[w].at = "claim" /\ UNCHANGED applied
    BY <1>6 DEF ClaimTrial, At
  <2>4. job'[w].at = p /\ job'[w].event = job[w].event /\ job'[w].tier = job[w].tier
    BY <1>3, <2>2
  <2> QED
    BY <1>1, <1>2, <1>4, <1>5, <2>1, <2>3, <2>4
<1>7. CASE RejectTrial(w) \/ ApplyCheckout(w) \/ RevertToFree(w) \/ MirrorTier(w) \/ Die(w)
  <2>1. job' = [job EXCEPT ![w] = Idle]
    BY <1>7 DEF RejectTrial, ApplyCheckout, RevertToFree, MirrorTier, Die, Ack
  <2> QED
    BY <1>1, <1>2, <1>4, <1>5, <2>1
<1>8. CASE FindFirm(w)
  <2>1. \/ job' = [job EXCEPT ![w] = Idle]
        \/ /\ job' = [job EXCEPT ![w] = Held("revert", job[w].event, row, "free")]
           /\ row.sub = job[w].event.sub
    BY <1>8 DEF FindFirm, IsFirmOf, Hold, Ack
  <2>2. job[w].at = "find" /\ UNCHANGED <<row, applied>>
    BY <1>8 DEF FindFirm, At
  <2> QED
    BY <1>1, <1>2, <1>4, <1>5, <2>1, <2>2 DEF Held
<1>9. CASE FetchSnapshot(w)
  <2>1. \/ job' = [job EXCEPT ![w] = Idle]
        \/ job' = [job EXCEPT ![w] = Held("mirror", job[w].event, job[w].seen,
                                         stripe[job[w].event.sub].tier)]
    BY <1>9 DEF FetchSnapshot, TierToMirror, Ack
  <2>2. job[w].at = "fetch" /\ UNCHANGED <<row, applied>>
    BY <1>9 DEF FetchSnapshot, At
  <2> QED
    BY <1>1, <1>2, <1>4, <1>5, <2>1, <2>2 DEF Held
<1> QED
  BY <1>6, <1>7, <1>8, <1>9

LEMMA HandlerFit ==
    ASSUME Fit, TypeOK', NEW w \in Worker,
           \/ ClaimTrial(w) \/ RejectTrial(w) \/ ApplyCheckout(w) \/ FindFirm(w)
           \/ RevertToFree(w) \/ FetchSnapshot(w) \/ MirrorTier(w) \/ Die(w)
    PROVE  Fit'
<1> DEFINE e == job[w].event
           s == job[w].event.sub
<1>0. TypeOK /\ JobsFit /\ OnePending /\ SubsFit
  BY DEF Fit
<1>1. ~At(w, "idle") /\ JobFits(w) /\ s \in Sub /\ \A v \in Worker \ {w} : job'[v] = job[v]
  BY HandlerMoves
<1>2. UNCHANGED <<session, ledger>>
  BY DEF ClaimTrial, RejectTrial, ApplyCheckout, FindFirm, RevertToFree, FetchSnapshot,
         MirrorTier, Die
\* Only the one delivery that may write the checkout of s does.
<1>3. \/ applied' = applied
      \/ applied' = [applied EXCEPT ![s] = @ + 1] /\ job[w].at = "apply" /\ job'[w] = Idle
         /\ row'.sub = s /\ UNCHANGED <<stripe, sent>>
  <2>1. CASE ApplyCheckout(w)
    BY <1>0, <2>1 DEF ApplyCheckout, Ack, At, TypeOK
  <2>2. CASE ~ApplyCheckout(w)
    BY <2>2 DEF ClaimTrial, RejectTrial, FindFirm, RevertToFree, FetchSnapshot, MirrorTier, Die
  <2> QED
    BY <2>1, <2>2
<1>4. job[w].at = "apply" => e = Checkout(s) /\ applied[s] = 0 /\ e \in ledger
  BY <1>1 DEF JobFits
<1>5. ASSUME NEW o \in Sub
      PROVE  /\ applied'[o] \in {0, 1}
             /\ applied[o] = 1 => applied'[o] = 1
             /\ applied'[o] # applied[o] => o = s /\ job[w].at = "apply"
             /\ applied'[o] = 1 => Checkout(o) \in ledger
  <2>1. applied[o] \in {0, 1} /\ (applied[o] = 1 => Checkout(o) \in ledger)
    BY <1>0 DEF SubsFit, SubFits
  <2> QED
    BY <1>0, <1>1, <1>3, <1>4, <2>1 DEF TypeOK
<1>6. ASSUME NEW v \in Worker \ {w}, ~At(v, "idle")' PROVE JobFits(v)'
  <2>1. ~At(v, "idle") /\ JobFits(v)
    BY <1>0, <1>1, <1>6 DEF At, JobsFit
  <2>2. job[v].event.sub \in Sub
    BY <1>0, <2>1, BusyTyped DEF Event
  <2>3. job[v].at \in {"claim", "reject", "apply"} => applied'[job[v].event.sub] = 0
    <3> SUFFICES ASSUME job[v].at \in {"claim", "reject", "apply"},
                        applied'[job[v].event.sub] # applied[job[v].event.sub]
                 PROVE  FALSE
      BY <2>1 DEF JobFits
    <3>1. Pending(v, s) /\ Pending(w, s)
      BY <1>5, <2>2 DEF Pending
    <3> QED
      BY <1>0, <1>1, <3>1 DEF OnePending
  <2> QED
    BY <1>1, <1>2, <1>5, <2>1, <2>2, <2>3 DEF JobFits, Checkout, Deletion
<1>7. ~At(w, "idle")' => JobFits(w)'
  <2> SUFFICES ASSUME job'[w] # Idle PROVE JobFits(w)'
    BY DEF At, Idle
  <2>1. CASE /\ job[w].at = "claim" /\ job'[w].at \in {"apply", "reject"}
             /\ job'[w].event = job[w].event /\ job'[w].tier = job[w].tier
             /\ UNCHANGED applied
    BY <1>1, <1>2, <2>1 DEF JobFits, Checkout, Deletion
  <2>2. CASE /\ job[w].at = "find" /\ job'[w].at = "revert"
             /\ job'[w].event = job[w].event /\ job'[w].seen = row
             /\ row.sub = job[w].event.sub /\ UNCHANGED <<row, applied>>
    <3>1. applied[s] = 1
      BY <1>0, <1>1, <2>2 DEF SubsFit, SubFits
    <3> QED
      BY <1>1, <1>2, <2>2, <3>1 DEF JobFits, Checkout, Deletion
  <2>3. CASE /\ job[w].at = "fetch" /\ job'[w].at = "mirror"
             /\ job'[w].event = job[w].event /\ job'[w].seen = job[w].seen
             /\ UNCHANGED <<row, applied>>
    BY <1>1, <1>2, <2>3 DEF JobFits, Checkout, Deletion
  <2> QED
    BY <2>1, <2>2, <2>3, HandlerMoves
<1>8. OnePending'
  <2>1. ASSUME NEW v \in Worker, NEW o \in Sub, Pending(v, o)' PROVE Pending(v, o)
    BY <1>1, <2>1, HandlerMoves DEF Pending, Idle
  <2> QED
    BY <1>0, <2>1 DEF OnePending
<1>9. ASSUME NEW o \in Sub, row'.sub = o PROVE applied'[o] = 1
  <2>1. row.sub = o => applied'[o] = 1
    BY <1>0, <1>5 DEF SubsFit, SubFits
  <2>2. CASE ApplyCheckout(w)
    <3>1. row'.sub = s /\ applied'[s] = applied[s] + 1 /\ job[w].at = "apply"
      BY <1>0, <1>1, <2>2 DEF ApplyCheckout, At, TypeOK
    <3> QED
      BY <1>4, <1>9, <3>1
  <2>3. CASE MirrorTier(w)
    <3>1. row'.sub = s /\ applied[s] = 1
      BY <1>1, <2>3 DEF MirrorTier, At, JobFits
    <3> QED
      BY <1>5, <1>9, <3>1
  <2>4. CASE RevertToFree(w)
    BY <1>9, <2>4, BillingAssumption DEF RevertToFree
  <2>5. CASE ClaimTrial(w) \/ RejectTrial(w) \/ FindFirm(w) \/ FetchSnapshot(w) \/ Die(w)
    BY <1>9, <2>1, <2>5 DEF ClaimTrial, RejectTrial, FindFirm, FetchSnapshot, Die
  <2> QED
    BY <2>2, <2>3, <2>4, <2>5
<1>10. ASSUME NEW o \in Sub PROVE SubFits(o)'
  <2>1. SubFits(o)
    BY <1>0 DEF SubsFit
  <2>2. CASE RejectTrial(w)
    <3>1. e = Checkout(s) /\ e \in sent /\ session[s].stage = "paid"
      BY <1>0, <1>1, <2>2 DEF RejectTrial, At, JobFits, SubsFit, SubFits, TypeOK
    <3>2. /\ UNCHANGED <<row, applied>>
          /\ \/ UNCHANGED <<stripe, sent>>
             \/ /\ stripe' = [stripe EXCEPT ![s].status = "ended"]
                /\ IF stripe[s].status = "live" THEN Emit("deleted", s, 0) ELSE UNCHANGED sent
      BY <2>2 DEF RejectTrial
    <3>3. CASE UNCHANGED <<stripe, sent>>
      BY <1>2, <2>1, <3>2, <3>3 DEF SubFits, Checkout, Deletion
    <3>4. CASE /\ stripe' = [stripe EXCEPT ![s].status = "ended"]
               /\ IF stripe[s].status = "live" THEN Emit("deleted", s, 0) ELSE UNCHANGED sent
      <4>1. SubFits(s)
        BY <1>0, <1>1 DEF SubsFit
      <4>2. stripe[s].status \in {"live", "ended"} /\ stripe[s].tier = stripe'[s].tier
        BY <1>0, <1>1, <3>1, <3>4, <4>1 DEF SubFits, TypeOK
      <4>3. /\ Checkout(o) \in sent' <=> Checkout(o) \in sent
            /\ o # s => (Deletion(o) \in sent' <=> Deletion(o) \in sent)
            /\ Deletion(s) \in sent'
        BY <3>4, <4>1, <4>2 DEF Emit, Checkout, Deletion, SubFits
      <4>4. o # s => stripe'[o] = stripe[o]
        BY <1>0, <3>4 DEF TypeOK
      <4>5. stripe'[s].status = "ended"
        BY <1>0, <1>1, <3>4 DEF TypeOK
      <4> QED
        BY <1>2, <2>1, <3>1, <3>2, <4>2, <4>3, <4>4, <4>5 DEF SubFits, Checkout, Deletion
    <3> QED
      BY <3>2, <3>3, <3>4
  <2>3. CASE ~RejectTrial(w)
    <3>1. UNCHANGED <<stripe, sent>>
      BY <2>3 DEF ClaimTrial, ApplyCheckout, FindFirm, RevertToFree, FetchSnapshot,
                  MirrorTier, Die
    <3>2. applied'[o] = 0 => applied[o] = 0
      BY <1>5, <2>1 DEF SubFits
    <3> QED
      BY <1>2, <1>5, <1>9, <2>1, <3>1, <3>2 DEF SubFits, Checkout, Deletion
  <2> QED
    BY <2>2, <2>3
<1> QED
  BY <1>6, <1>7, <1>8, <1>10 DEF Fit, JobsFit, SubsFit

LEMMA NextFit == Fit /\ [Next]_vars => Fit'
<1> SUFFICES ASSUME Fit, [Next]_vars PROVE Fit'
  OBVIOUS
<1>0. TypeOK'
  BY NextTyped
<1>1. CASE UNCHANGED vars
  BY <1>0, <1>1 DEF vars, Fit, JobsFit, JobFits, OnePending, SubsFit, SubFits, Pending, At,
                    Checkout, Deletion
<1>2. ASSUME NEW w \in Worker, Handle(w) \/ Die(w) PROVE Fit'
  BY <1>0, <1>2, DeliveryFit, HandlerFit DEF Handle
<1>3. ASSUME NEW s \in Sub, NEW t \in Tier,
             (\E fits \in BOOLEAN : OpenSession(s, t, fits)) \/ SwitchInPortal(s, t) PROVE Fit'
  BY <1>0, <1>3, OutsideFit
<1>4. ASSUME NEW s \in Sub, ExpireSession(s) \/ PayInStripe(s) \/ EndInStripe(s) PROVE Fit'
  BY <1>0, <1>4, BillingAssumption, OutsideFit
<1>5. CASE RevokeGrant
  BY <1>0, <1>5 DEF RevokeGrant, Fit, JobsFit, JobFits, OnePending, SubsFit, SubFits, Pending,
                    At, Checkout, Deletion
<1> QED
  BY <1>1, <1>2, <1>3, <1>4, <1>5 DEF Next

LEMMA FitAlways == Spec => []Fit
BY InitFit, NextFit, PTL DEF Spec

\* The billing row, the ledger, the deliveries under way and what Stripe bills
\* stay well typed, however webhooks are lost, repeated and overtaken
\* (handleStripeWebhook).
THEOREM BillingTypeCorrect == Spec => []TypeOK
<1>1. Fit => TypeOK
  BY DEF Fit
<1> QED
  BY <1>1, FitAlways, PTL

\* However often and however concurrently Stripe delivers a checkout, it
\* writes the row once at most (recordWebhookEventIfNew).
THEOREM CheckoutOnce == Spec => []CheckoutAppliesOnce
<1>1. Fit => CheckoutAppliesOnce
  BY DEF Fit, SubsFit, SubFits, CheckoutAppliesOnce
<1> QED
  BY <1>1, FitAlways, PTL

-----------------------------------------------------------------------------
(* One grant, one free year.                                               *)

\* Whatever happens, reasons are only added, paid sessions and writes of the
\* row are not undone, a stamp stays, and so does the end of a subscription.
LEMMA Onwards ==
    ASSUME Fit, [Next]_vars
    PROVE  /\ grant = "started" => grant' = "started"
           /\ \A s \in Sub : /\ stuck[s] \subseteq stuck'[s]
                             /\ session[s].stage = "paid" => session'[s] = session[s]
                             /\ stripe[s].status = "ended" => stripe'[s].status = "ended"
                             /\ applied[s] = 1 => applied'[s] = 1
<1>0. TypeOK /\ SubsFit /\ Fit' /\ SubsFit'
  BY NextFit DEF Fit
<1>1. CASE UNCHANGED vars
  BY <1>1 DEF vars
<1>2. ASSUME NEW s \in Sub, NEW t \in Tier,
             (\E fits \in BOOLEAN : OpenSession(s, t, fits)) \/ SwitchInPortal(s, t)
      PROVE  /\ UNCHANGED <<grant, stuck, applied>>
             /\ \A o \in Sub : /\ session[o].stage = "paid" => session'[o] = session[o]
                               /\ stripe[o].status = "ended" => stripe'[o].status = "ended"
  BY <1>0, <1>2 DEF OpenSession, SwitchInPortal, TypeOK
<1>3. ASSUME NEW s \in Sub, ExpireSession(s) \/ PayInStripe(s) \/ EndInStripe(s)
      PROVE  /\ UNCHANGED <<grant, stuck, applied>>
             /\ \A o \in Sub : /\ session[o].stage = "paid" => session'[o] = session[o]
                               /\ stripe[o].status = "ended" => stripe'[o].status = "ended"
  <2>1. stripe[s].status = "ended" => session[s].stage = "paid"
    BY <1>0 DEF SubsFit, SubFits
  <2> QED
    BY <1>0, <1>3, <2>1 DEF ExpireSession, PayInStripe, EndInStripe, TypeOK
<1>4. CASE RevokeGrant
  BY <1>4 DEF RevokeGrant
<1>5. ASSUME NEW w \in Worker, NEW e \in sent,
             \/ Duplicate(w, e) \/ DeliverCheckout(w, e)
             \/ DeliverDeletion(w, e) \/ DeliverUpdate(w, e)
      PROVE  UNCHANGED <<grant, session, stripe, applied, stuck>>
  BY <1>5 DEF Duplicate, DeliverCheckout, DeliverDeletion, DeliverUpdate
<1>6. ASSUME NEW w \in Worker,
             \/ ClaimTrial(w) \/ RejectTrial(w) \/ ApplyCheckout(w) \/ FindFirm(w)
             \/ RevertToFree(w) \/ FetchSnapshot(w) \/ MirrorTier(w) \/ Die(w)
      PROVE  /\ grant = "started" => grant' = "started"
             /\ UNCHANGED session
             /\ \A o \in Sub : /\ stuck[o] \subseteq stuck'[o]
                               /\ stripe[o].status = "ended" => stripe'[o].status = "ended"
                               /\ applied[o] = 1 => applied'[o] = 1
  <2>1. JobFits(w) /\ job[w].event.sub \in Sub
    BY <1>6, HandlerMoves
  <2>2. \A o \in Sub : applied[o] = 1 => applied'[o] = 1
    <3>1. CASE ApplyCheckout(w)
      <4>1. applied[job[w].event.sub] = 0
        BY <2>1, <3>1 DEF ApplyCheckout, At, JobFits
      <4>2. \A o \in Sub \ {job[w].event.sub} : applied'[o] = applied[o]
        BY <1>0, <3>1 DEF ApplyCheckout, TypeOK
      <4> QED
        BY <4>1, <4>2
    <3>2. CASE ~ApplyCheckout(w)
      BY <1>6, <3>2 DEF ClaimTrial, RejectTrial, FindFirm, RevertToFree, FetchSnapshot,
            MirrorTier, Die
    <3> QED
      BY <3>1, <3>2
  <2>3. \A o \in Sub : stuck[o] \subseteq stuck'[o]
    <3>1. ASSUME NEW reason, stuck' = Mark(job[w].event.sub, reason)
          PROVE  \A o \in Sub : stuck[o] \subseteq stuck'[o]
      BY <1>0, <2>1, <3>1 DEF Mark, TypeOK
    <3>2. CASE RevertToFree(w) \/ MirrorTier(w)
      BY <3>2 DEF RevertToFree, MirrorTier
    <3>3. CASE ~(RevertToFree(w) \/ MirrorTier(w))
      <4>1. stuck' = stuck \/ \E reason \in Reasons : stuck' = Mark(job[w].event.sub, reason)
        BY <1>6, <3>3 DEF ClaimTrial, RejectTrial, ApplyCheckout, FindFirm, FetchSnapshot,
              Die, MarkIf, Reasons
      <4> QED
        BY <3>1, <4>1
    <3> QED
      BY <3>2, <3>3
  <2>4. \A o \in Sub : stripe[o].status = "ended" => stripe'[o].status = "ended"
    <3>1. CASE RejectTrial(w)
      <4>1. \/ stripe' = stripe
            \/ stripe' = [stripe EXCEPT ![job[w].event.sub].status = "ended"]
        BY <3>1 DEF RejectTrial
      <4> QED
        BY <1>0, <2>1, <4>1 DEF TypeOK
    <3>2. CASE ~RejectTrial(w)
      BY <1>6, <3>2 DEF ClaimTrial, ApplyCheckout, FindFirm, RevertToFree, FetchSnapshot,
            MirrorTier, Die
    <3> QED
      BY <3>1, <3>2
  <2>5. (grant = "started" => grant' = "started") /\ UNCHANGED session
    BY <1>6 DEF ClaimTrial, RejectTrial, ApplyCheckout, FindFirm, RevertToFree,
          FetchSnapshot, MirrorTier, Die, Unstarted
  <2> QED
    BY <2>2, <2>3, <2>4, <2>5
<1> QED
  BY <1>1, <1>2, <1>3, <1>4, <1>5, <1>6 DEF Next, Handle

\* A founding trial whose checkout was handled was applied, is being handled,
\* was cancelled, or is known to need a person.
Accounted(s) ==
    session[s].founding /\ Checkout(s) \in ledger =>
        \/ \E w \in Worker : Pending(w, s)
        \/ applied[s] = 1
        \/ stripe[s].status = "ended"
        \/ stuck[s] \intersect {"lost", "byhand"} # {}

\* A founding trial that has the stamp.
Stamped(s) ==
    /\ session[s].founding /\ "unstamped" \notin stuck[s]
    /\ applied[s] = 1 \/ \E w \in Worker : job[w].at = "apply" /\ job[w].event.sub = s

YearInv ==
    /\ \A s \in Sub : Accounted(s)
    /\ \A s \in Sub : Stamped(s) => grant = "started"
    /\ \A s, o \in Sub : Stamped(s) /\ Stamped(o) => s = o

LEMMA InitYear == Init => YearInv
BY DEF Init, YearInv, Accounted, Stamped, Idle

\* Stamps are had by those that had them, or by the one that gets the grant.
LEMMA WhoIsStamped ==
    ASSUME Fit, [Next]_vars, NEW s \in Sub, Stamped(s)'
    PROVE  \/ Stamped(s)
           \/ \E w \in Worker : /\ ClaimTrial(w) /\ job[w].event.sub = s
                                /\ grant = "open" /\ grant' = "started"
<1>0. TypeOK /\ JobsFit /\ SubsFit /\ Fit' /\ TypeOK' /\ JobsFit' /\ SubsFit'
  BY NextFit DEF Fit
<1>on. /\ stuck[s] \subseteq stuck'[s]
       /\ session[s].stage = "paid" => session'[s] = session[s]
  <2>1. \A o \in Sub : /\ stuck[o] \subseteq stuck'[o]
                       /\ session[o].stage = "paid" => session'[o] = session[o]
    BY Onwards
  <2> QED
    BY <2>1
<1>at. session'[s].founding /\ "unstamped" \notin stuck'[s]
  BY DEF Stamped
<1>1. "unstamped" \notin stuck[s]
  BY <1>on, <1>at
<1>2. session[s].stage = "paid" => session[s].founding
  BY <1>on, <1>at
<1>3. Checkout(s) \in ledger => session[s].stage = "paid"
  BY <1>0 DEF SubsFit, SubFits, TypeOK
<1>4. applied[s] = 1 => Stamped(s)
  <2>1. applied[s] = 1 => Checkout(s) \in ledger
    BY <1>0 DEF SubsFit, SubFits
  <2> QED
    BY <1>1, <1>2, <1>3, <2>1 DEF Stamped
<1>5. ASSUME NEW w \in Worker, job[w].at = "apply", job[w].event.sub = s
      PROVE  Stamped(s)
  <2>1. JobFits(w)
    BY <1>0, <1>5 DEF JobsFit, At
  <2>2. Checkout(s) \in ledger
    BY <1>5, <2>1 DEF JobFits
  <2> QED
    BY <1>1, <1>2, <1>3, <1>5, <2>2 DEF Stamped
<1>6. SUFFICES ASSUME applied[s] # 1,
                      ~ \E w \in Worker : job[w].at = "apply" /\ job[w].event.sub = s
               PROVE  \E w \in Worker : /\ ClaimTrial(w) /\ job[w].event.sub = s
                                        /\ grant = "open" /\ grant' = "started"
  BY <1>4, <1>5
<1>7. CASE UNCHANGED <<applied, job>>
  BY <1>6, <1>7 DEF Stamped
<1>8. ASSUME NEW w \in Worker, NEW e \in sent,
             \/ Duplicate(w, e) \/ DeliverCheckout(w, e)
             \/ DeliverDeletion(w, e) \/ DeliverUpdate(w, e)
      PROVE  FALSE
  <2>1. UNCHANGED <<applied, session>> /\ \A v \in Worker \ {w} : job'[v] = job[v]
    BY <1>0, <1>8 DEF Duplicate, DeliverCheckout, DeliverDeletion, DeliverUpdate, Ack, Hold,
                      TypeOK
  <2>2. job'[w].at = "apply" => job'[w].event = e /\ ~session[e.sub].founding
    BY <1>0, <1>8 DEF Duplicate, DeliverCheckout, DeliverDeletion, DeliverUpdate, Ack, Hold,
                      Held, Idle, TypeOK
  <2> QED
    BY <1>6, <2>1, <2>2 DEF Stamped
<1>9. ASSUME NEW w \in Worker,
             \/ ClaimTrial(w) \/ RejectTrial(w) \/ ApplyCheckout(w) \/ FindFirm(w)
             \/ RevertToFree(w) \/ FetchSnapshot(w) \/ MirrorTier(w) \/ Die(w)
      PROVE  ClaimTrial(w) /\ job[w].event.sub = s /\ grant = "open" /\ grant' = "started"
  <2>1. applied'[s] # 1
    <3>1. ApplyCheckout(w) => job[w].event.sub # s
      BY <1>6 DEF ApplyCheckout, At
    <3> QED
      BY <1>0, <1>6, <1>9, <3>1 DEF ClaimTrial, RejectTrial, ApplyCheckout, FindFirm,
            RevertToFree, FetchSnapshot, MirrorTier, Die, TypeOK
  <2>2. PICK v \in Worker : job'[v].at = "apply" /\ job'[v].event.sub = s
    BY <2>1 DEF Stamped
  <2>3. v = w
    BY <1>6, <1>9, <2>2, HandlerMoves
  <2>4. job[w].at = "claim" /\ job[w].event.sub = s
    BY <1>6, <1>9, <2>2, <2>3, HandlerMoves DEF Idle
  <2>5. ClaimTrial(w)
    <3>1. job'[w] # Idle
      BY <2>2, <2>3 DEF Idle
    <3>2. ~Die(w)
      BY <1>0, <3>1 DEF Die, TypeOK
    <3> QED
      BY <1>9, <2>4, <3>2 DEF RejectTrial, ApplyCheckout, FindFirm, RevertToFree,
                              FetchSnapshot, MirrorTier, At
\* It took the grant: had the stamp failed, that would be on record.
  <2>6. stuck' # Mark(s, "unstamped")
    BY <1>0 DEF Stamped, Mark, TypeOK
  <2>7. job'[w].at # "reject"
    BY <2>2, <2>3
  <2>8. job' # [job EXCEPT ![w].at = "reject"]
    <3>1. ~At(w, "idle") /\ w \in DOMAIN job
      BY <1>0, <2>4 DEF At, TypeOK
    <3>2. "at" \in DOMAIN job[w]
      BY <1>0, <3>1, BusyTyped
    <3> QED
      BY <2>7, <3>1, <3>2
  <2>9. grant = "open" /\ grant' = "started"
    BY <2>4, <2>5, <2>6, <2>8 DEF ClaimTrial, Unstarted
  <2> QED
    BY <2>4, <2>5, <2>9
<1>10. CASE UNCHANGED vars
  BY <1>7, <1>10 DEF vars
<1>11. ASSUME NEW o \in Sub, NEW t \in Tier,
             (\E fits \in BOOLEAN : OpenSession(o, t, fits)) \/ SwitchInPortal(o, t)
       PROVE  UNCHANGED <<applied, job>>
  BY <1>11 DEF OpenSession, SwitchInPortal
<1>12. ASSUME NEW o \in Sub, ExpireSession(o) \/ PayInStripe(o) \/ EndInStripe(o)
       PROVE  UNCHANGED <<applied, job>>
  BY <1>12 DEF ExpireSession, PayInStripe, EndInStripe
<1>13. RevokeGrant => UNCHANGED <<applied, job>>
  BY DEF RevokeGrant
<1>14. ASSUME NEW w \in Worker, Handle(w) \/ Die(w)
       PROVE  ClaimTrial(w) /\ job[w].event.sub = s /\ grant = "open" /\ grant' = "started"
  BY <1>8, <1>9, <1>14 DEF Handle
<1> QED
  BY <1>7, <1>10, <1>11, <1>12, <1>13, <1>14 DEF Next

\* What has become of a founding trial is never forgotten.
LEMMA AccountKept ==
    ASSUME Fit, [Next]_vars, NEW s \in Sub, Accounted(s)
    PROVE  Accounted(s)'
<1>0. TypeOK /\ JobsFit /\ SubsFit /\ Fit'
  BY NextFit DEF Fit
<1>on. /\ stuck[s] \subseteq stuck'[s]
       /\ session[s].stage = "paid" => session'[s] = session[s]
       /\ stripe[s].status = "ended" => stripe'[s].status = "ended"
       /\ applied[s] = 1 => applied'[s] = 1
  BY Onwards
<1> SUFFICES ASSUME session'[s].founding, Checkout(s) \in ledger'
             PROVE  \/ \E w \in Worker : Pending(w, s)'
                    \/ applied'[s] = 1
                    \/ stripe'[s].status = "ended"
                    \/ stuck'[s] \intersect {"lost", "byhand"} # {}
  BY DEF Accounted, Checkout
<1>1. Checkout(s) \in ledger => session[s].stage = "paid"
  BY <1>0 DEF SubsFit, SubFits, TypeOK
<1>2. Checkout(s) \in ledger =>
         \/ \E w \in Worker : Pending(w, s)
         \/ applied[s] = 1
         \/ stripe[s].status = "ended"
         \/ stuck[s] \intersect {"lost", "byhand"} # {}
  BY <1>on, <1>1 DEF Accounted
\* A step that leaves the deliveries that are pending, pending.
<1>3. ASSUME UNCHANGED ledger, \A w \in Worker : Pending(w, s) => Pending(w, s)'
      PROVE  \/ \E w \in Worker : Pending(w, s)'
             \/ applied'[s] = 1
             \/ stripe'[s].status = "ended"
             \/ stuck'[s] \intersect {"lost", "byhand"} # {}
  BY <1>on, <1>2, <1>3
<1>4. CASE UNCHANGED <<ledger, job>>
  BY <1>3, <1>4 DEF Pending
<1>5. ASSUME NEW w \in Worker, NEW e \in sent,
             \/ Duplicate(w, e) \/ DeliverCheckout(w, e)
             \/ DeliverDeletion(w, e) \/ DeliverUpdate(w, e)
      PROVE  \/ \E v \in Worker : Pending(v, s)'
             \/ applied'[s] = 1
             \/ stripe'[s].status = "ended"
             \/ stuck'[s] \intersect {"lost", "byhand"} # {}
  <2>1. At(w, "idle") /\ \A v \in Worker \ {w} : job'[v] = job[v]
    BY <1>0, <1>5 DEF Duplicate, DeliverCheckout, DeliverDeletion, DeliverUpdate, Ack, Hold,
                      TypeOK
  <2>2. \A v \in Worker : Pending(v, s) => Pending(v, s)'
    BY <2>1 DEF Pending, At
  <2>3. CASE Checkout(s) \in ledger
    BY <1>on, <1>2, <2>2, <2>3
  <2>4. CASE Checkout(s) \notin ledger
    <3>1. e = Checkout(s) /\ e.kind = "checkout" /\ e.sub = s
      BY <1>0, <1>5, <2>4 DEF Duplicate, DeliverCheckout, DeliverDeletion, DeliverUpdate,
                              Checkout
    <3>2. DeliverCheckout(w, e)
      BY <1>5, <2>4, <3>1 DEF Duplicate, DeliverDeletion, DeliverUpdate, IsNew
    <3>3. job'[w].at \in {"claim", "apply"} /\ job'[w].event = e
      BY <1>0, <3>2 DEF DeliverCheckout, Hold, Held, TypeOK
    <3> QED
      BY <3>1, <3>3 DEF Pending
  <2> QED
    BY <2>3, <2>4
<1>6. ASSUME NEW w \in Worker,
             \/ ClaimTrial(w) \/ RejectTrial(w) \/ ApplyCheckout(w) \/ FindFirm(w)
             \/ RevertToFree(w) \/ FetchSnapshot(w) \/ MirrorTier(w) \/ Die(w)
      PROVE  \/ \E v \in Worker : Pending(v, s)'
             \/ applied'[s] = 1
             \/ stripe'[s].status = "ended"
             \/ stuck'[s] \intersect {"lost", "byhand"} # {}
  <2>1. JobFits(w) /\ \A v \in Worker \ {w} : job'[v] = job[v]
    BY <1>6, HandlerMoves
  <2>2. UNCHANGED ledger
    BY <1>6 DEF ClaimTrial, RejectTrial, ApplyCheckout, FindFirm, RevertToFree, FetchSnapshot,
                MirrorTier, Die
  <2>3. CASE ~Pending(w, s)
    BY <1>3, <2>1, <2>2, <2>3 DEF Pending
  <2>4. CASE Pending(w, s)
    <3>1. job[w].at \in {"claim", "reject", "apply"} /\ job[w].event.sub = s
      BY <2>4 DEF Pending
    <3>2. job[w].event.kind = "checkout" /\ applied[s] = 0
      BY <2>1, <3>1 DEF JobFits, Checkout
    <3>3. CASE ClaimTrial(w)
      <4>1. job'[w].at \in {"apply", "reject"} /\ job'[w].event = job[w].event
        <5>1. PICK p \in {"apply", "reject"} : job' = [job EXCEPT ![w] = [job[w] EXCEPT !.at = p]]
          BY <1>0, <3>3 DEF ClaimTrial, TypeOK
        <5>2. job'[w] = [job[w] EXCEPT !.at = p]
          BY <1>0, <5>1 DEF TypeOK
        <5>3. {"at", "event"} \subseteq DOMAIN job[w]
          BY <1>0, <3>1, BusyTyped DEF At
        <5> QED
          BY <5>2, <5>3
      <4>2. job'[w].event.sub = s
        BY <3>1, <4>1
      <4>3. Pending(w, s)'
        BY <4>1, <4>2 DEF Pending
      <4> QED
        BY <4>3
    <3>4. CASE RejectTrial(w)
      <4>1. \/ stripe' = [stripe EXCEPT ![s].status = "ended"]
            \/ stuck' = Mark(s, "byhand")
        BY <3>1, <3>4 DEF RejectTrial
      <4>2. \/ stripe'[s].status = "ended"
            \/ stuck'[s] = stuck[s] \union {"byhand"}
        BY <1>0, <4>1 DEF Mark, TypeOK
      <4> QED
        BY <4>2
    <3>5. CASE ApplyCheckout(w)
      BY <1>0, <3>1, <3>2, <3>5 DEF ApplyCheckout, TypeOK
    <3>6. CASE Die(w)
      BY <1>0, <3>1, <3>2, <3>6 DEF Die, MarkIf, Mark, TypeOK
    <3> QED
      BY <1>6, <3>1, <3>3, <3>4, <3>5, <3>6
         DEF FindFirm, RevertToFree, FetchSnapshot, MirrorTier, At
  <2> QED
    BY <2>3, <2>4
<1>7. CASE UNCHANGED vars
  BY <1>4, <1>7 DEF vars
<1>8. ASSUME NEW o \in Sub, NEW t \in Tier,
             (\E fits \in BOOLEAN : OpenSession(o, t, fits)) \/ SwitchInPortal(o, t)
      PROVE  UNCHANGED <<ledger, job>>
  BY <1>8 DEF OpenSession, SwitchInPortal
<1>9. ASSUME NEW o \in Sub, ExpireSession(o) \/ PayInStripe(o) \/ EndInStripe(o)
      PROVE  UNCHANGED <<ledger, job>>
  BY <1>9 DEF ExpireSession, PayInStripe, EndInStripe
<1>10. RevokeGrant => UNCHANGED <<ledger, job>>
  BY DEF RevokeGrant
<1> QED
  BY <1>4, <1>5, <1>6, <1>7, <1>8, <1>9, <1>10 DEF Next, Handle

LEMMA NextYear == Fit /\ YearInv /\ [Next]_vars => YearInv'
<1> SUFFICES ASSUME Fit, YearInv, [Next]_vars PROVE YearInv'
  OBVIOUS
<1>1. ASSUME NEW s \in Sub PROVE Accounted(s)'
  BY AccountKept DEF YearInv
<1>2. grant = "started" => grant' = "started"
  BY Onwards
<1>3. ASSUME NEW s \in Sub, Stamped(s)' PROVE grant' = "started"
  BY <1>2, <1>3, WhoIsStamped DEF YearInv
<1>4. ASSUME NEW s \in Sub, NEW o \in Sub, Stamped(s)', Stamped(o)' PROVE s = o
  <2>1. CASE Stamped(s) /\ Stamped(o)
    BY <2>1 DEF YearInv
  <2>2. CASE Stamped(s) \/ Stamped(o)
    <3>1. grant # "open"
      BY <2>2 DEF YearInv
    <3>2. Stamped(s) /\ Stamped(o)
      BY <1>4, <3>1, WhoIsStamped
    <3> QED
      BY <2>1, <3>2
  <2>3. CASE ~Stamped(s) /\ ~Stamped(o)
    <3>1. PICK w \in Worker : ClaimTrial(w) /\ job[w].event.sub = s
      BY <1>4, <2>3, WhoIsStamped
    <3>2. PICK v \in Worker : ClaimTrial(v) /\ job[v].event.sub = o
      BY <1>4, <2>3, WhoIsStamped
    <3>3. ClaimTrial(w) => job'[w].at # "claim" /\ \A u \in Worker \ {w} : job'[u] = job[u]
      <4>1. ClaimTrial(w) =>
               /\ \A u \in Worker \ {w} : job'[u] = job[u]
               /\ job'[w] = Idle \/ job'[w].at \in {"apply", "reject", "revert", "mirror"}
        BY HandlerMoves
      <4> QED
        BY <4>1 DEF Idle
    <3>4. w = v
      <4>1. job[v].at = "claim" /\ job'[v].at # "claim"
        <5>1. ClaimTrial(v) =>
                 job'[v] = Idle \/ job'[v].at \in {"apply", "reject", "revert", "mirror"}
          BY HandlerMoves
        <5> QED
          BY <3>2, <5>1 DEF ClaimTrial, At, Idle
      <4> QED
        BY <3>1, <3>3, <4>1
    <3> QED
      BY <3>1, <3>2, <3>4
  <2> QED
    BY <2>1, <2>2, <2>3
<1> QED
  BY <1>1, <1>3, <1>4 DEF YearInv

\* One grant gives one free year, whatever sessions are opened with it, however
\* the webhooks overlap and whatever is lost (claimFoundingFirmTrialStart).
THEOREM OneGrantOneYear == Spec => []OneFreeYear
<1>1. Fit /\ YearInv => OneFreeYear
  <2> SUFFICES ASSUME Fit, YearInv, Quiet PROVE OneFreeYear
    BY DEF OneFreeYear
  <2> DEFINE Free == {s \in Sub : /\ session[s].founding
                                  /\ stripe[s].status = "live"
                                  /\ stuck[s] \intersect {"lost", "unstamped", "byhand"} = {}}
  <2>1. ASSUME NEW s \in Free PROVE Stamped(s)
    <3>1. Checkout(s) \in ledger
      BY <2>1 DEF Fit, SubsFit, SubFits, Quiet, TypeOK
    <3>2. ~ \E w \in Worker : Pending(w, s)
      BY DEF Quiet, Pending, At
    <3> QED
      BY <2>1, <3>1, <3>2 DEF YearInv, Accounted, Stamped
  <2>2. \A s, o \in Free : s = o
    BY <2>1 DEF YearInv
  <2>3. Cardinality(Free) <= 1
    <3> HIDE DEF Free
    <3>1. CASE Free = {}
      BY <3>1, FS_EmptySet
    <3>2. CASE Free # {}
      <4>1. PICK s : Free = {s}
        BY <2>2, <3>2
      <4> QED
        BY <4>1, FS_Singleton
    <3> QED
      BY <3>1, <3>2
  <2> QED
    BY <2>3 DEF OneFreeYear
<1> QED
  BY <1>1, InitYear, NextYear, FitAlways, PTL DEF Spec

-----------------------------------------------------------------------------
(* The row follows Stripe.                                                 *)

Clean(s) == stuck[s] \intersect {"lost", "early", "stale", "unsynced"} = {}

\* The end of a subscription is being handled.
Ending(s) ==
    \E w \in Worker : job[w].at \in {"find", "revert"} /\ job[w].event.sub = s

\* A switch of plan has not been answered yet.
Unread(s) == \E e \in sent \ acked : e.kind = "updated" /\ e.sub = s

EndIsSeen(s) ==
    Deletion(s) \in ledger /\ Clean(s) /\ (row.sub = s \/ applied[s] = 0) => Ending(s)

TierFollows(s) ==
    row.sub = s /\ Clean(s) /\ stripe[s].status = "live" =>
        row.tier = stripe[s].tier \/ Unread(s)

\* The number of a switch is not used again.
Numbered == \A e \in sent : e.kind = "updated" => e.n <= Changes

\* A subscription is put on the row by its checkout, or by a decision that was
\* made on the row as it still is.
LEMMA RowStep ==
    ASSUME Fit, [Next]_vars, NEW s \in Sub, row'.sub = s, "stale" \notin stuck'[s]
    PROVE  \/ row' = row
           \/ row.sub = s /\ row'.tier = stripe[s].tier /\ stripe' = stripe
           \/ applied[s] = 0 /\ row'.tier = session[s].tier /\ stripe' = stripe
<1>0. TypeOK /\ JobsFit
  BY DEF Fit
<1>1. ASSUME NEW w \in Worker, ApplyCheckout(w)
      PROVE  applied[s] = 0 /\ row'.tier = session[s].tier /\ stripe' = stripe
  <2>1. JobFits(w) /\ job[w].at = "apply"
    BY <1>1, HandlerMoves DEF ApplyCheckout, At
  <2>2. job[w].event.sub = s /\ row'.tier = job[w].tier /\ stripe' = stripe
    BY <1>1 DEF ApplyCheckout
  <2> QED
    BY <2>1, <2>2 DEF JobFits
<1>2. ASSUME NEW w \in Worker, RevertToFree(w) PROVE FALSE
  BY <1>2, BillingAssumption DEF RevertToFree
<1>3. ASSUME NEW w \in Worker, MirrorTier(w)
      PROVE  row.sub = s /\ row'.tier = stripe[s].tier /\ stripe' = stripe
  <2>1. JobFits(w) /\ job[w].at = "mirror"
    BY <1>3, HandlerMoves DEF MirrorTier, At
  <2>2. /\ row' = [tier |-> job[w].tier, sub |-> job[w].event.sub, customer |-> TRUE]
        /\ stuck' = [o \in Sub |->
                       IF row # job[w].seen \/ stripe[job[w].event.sub].tier # job[w].tier
                       THEN stuck[o] \union {"stale"} ELSE stuck[o]]
        /\ stripe' = stripe
    BY <1>3 DEF MirrorTier
  <2>3. row = job[w].seen /\ stripe[s].tier = job[w].tier /\ job[w].event.sub = s
    BY <2>2
  <2> QED
    BY <2>1, <2>2, <2>3 DEF JobFits
<1>4. ASSUME NEW w \in Worker,
             ClaimTrial(w) \/ RejectTrial(w) \/ FindFirm(w) \/ FetchSnapshot(w) \/ Die(w)
      PROVE  row' = row
  BY <1>4 DEF ClaimTrial, RejectTrial, FindFirm, FetchSnapshot, Die
<1>5. ASSUME NEW w \in Worker, NEW e \in sent,
             \/ Duplicate(w, e) \/ DeliverCheckout(w, e)
             \/ DeliverDeletion(w, e) \/ DeliverUpdate(w, e)
      PROVE  row' = row
  BY <1>5 DEF Duplicate, DeliverCheckout, DeliverDeletion, DeliverUpdate
<1>6. ASSUME NEW o \in Sub, NEW t \in Tier,
             (\E fits \in BOOLEAN : OpenSession(o, t, fits)) \/ SwitchInPortal(o, t)
      PROVE  row' = row
  BY <1>6 DEF OpenSession, SwitchInPortal
<1>7. ASSUME NEW o \in Sub, ExpireSession(o) \/ PayInStripe(o) \/ EndInStripe(o)
      PROVE  row' = row
  BY <1>7 DEF ExpireSession, PayInStripe, EndInStripe
<1>8. RevokeGrant \/ UNCHANGED vars => row' = row
  BY DEF RevokeGrant, vars
<1> QED
  BY <1>1, <1>2, <1>3, <1>4, <1>5, <1>6, <1>7, <1>8 DEF Next, Handle

\* What is live now and was written was live before.
LEMMA LiveBefore ==
    ASSUME Fit, [Next]_vars, NEW s \in Sub, applied[s] = 1, stripe'[s].status = "live"
    PROVE  stripe[s].status = "live"
<1>1. session[s].stage = "paid" /\ stripe[s].status \in {"none", "live", "ended"}
  BY DEF Fit, SubsFit, SubFits, TypeOK
<1>2. stripe[s].status # "none"
  BY <1>1 DEF Fit, SubsFit, SubFits
<1>3. stripe[s].status = "ended" => stripe'[s].status = "ended"
  BY Onwards
<1> QED
  BY <1>1, <1>2, <1>3

\* What takes a subscription off the row.
LEMMA DropStep ==
    ASSUME Fit, Next, NEW s \in Sub, row.sub = s, row'.sub # s
    PROVE  \/ stripe[s].status = "ended"
           \/ \E o \in Sub \ {s} : applied'[o] # applied[o]
           \/ \E w \in Worker : StaleDecision(w)
<1>0. TypeOK /\ JobsFit /\ SubsFit
  BY DEF Fit
<1>1. ASSUME NEW w \in Worker, RevertToFree(w) \/ MirrorTier(w), row # job[w].seen
      PROVE  StaleDecision(w)
  BY <1>0, <1>1 DEF RevertToFree, MirrorTier, StaleDecision, Ack, TypeOK
<1>2. ASSUME NEW w \in Worker, RevertToFree(w), row = job[w].seen
      PROVE  stripe[s].status = "ended"
  <2>1. JobFits(w) /\ job[w].at = "revert"
    BY <1>2, HandlerMoves DEF RevertToFree, At
  <2>2. Deletion(s) \in sent
    BY <1>0, <1>2, <2>1 DEF JobFits, TypeOK
  <2> QED
    BY <1>0, <2>2 DEF SubsFit, SubFits
<1>3. ASSUME NEW w \in Worker, MirrorTier(w), row = job[w].seen PROVE FALSE
  <2>1. JobFits(w) /\ job[w].at = "mirror"
    BY <1>3, HandlerMoves DEF MirrorTier, At
  <2>2. row'.sub = job[w].event.sub
    BY <1>3 DEF MirrorTier
  <2> QED
    BY <1>3, <2>1, <2>2 DEF JobFits
<1>4. ASSUME NEW w \in Worker, ApplyCheckout(w)
      PROVE  \E o \in Sub \ {s} : applied'[o] # applied[o]
  <2>1. JobFits(w) /\ job[w].at = "apply" /\ job[w].event.sub \in Sub
    BY <1>4, HandlerMoves DEF ApplyCheckout, At
  <2>2. row'.sub = job[w].event.sub
    BY <1>4 DEF ApplyCheckout
  <2>3. applied[job[w].event.sub] = 0 /\ applied'[job[w].event.sub] = 1
    BY <1>0, <1>4, <2>1 DEF ApplyCheckout, JobFits, TypeOK
  <2> QED
    BY <2>1, <2>2, <2>3
<1>5. row' # row
  OBVIOUS
<1> QED
  BY <1>1, <1>2, <1>3, <1>4, <1>5 DEF Next, Handle, Duplicate, DeliverCheckout, DeliverDeletion,
     DeliverUpdate, ClaimTrial, RejectTrial, FindFirm, FetchSnapshot, Die, OpenSession,
     SwitchInPortal, ExpireSession, PayInStripe, EndInStripe, RevokeGrant

\* A firm goes off a subscription only when Stripe has ended that very one, when
\* another checkout is applied over it, or in a step that decides on a stale
\* read (findFirmByStripeSubscriptionId, updateFirmBilling).
THEOREM NobodyDropped == Spec => NobodyDroppedByAnother
<1> DEFINE Drop ==
      \A s \in Sub : row.sub = s /\ row'.sub # s =>
          \/ stripe[s].status = "ended"
          \/ \E o \in Sub \ {s} : applied'[o] # applied[o]
          \/ \E w \in Worker : StaleDecision(w)
<1>1. Fit /\ [Next]_vars => [Drop]_vars
  BY DropStep
<1> HIDE DEF Drop
<1>2. Spec => [][Drop]_vars
  BY <1>1, FitAlways, PTL DEF Spec
<1> QED
  BY <1>2 DEF NobodyDroppedByAnother, Drop

LEMMA EndIsSeenKept ==
    ASSUME Fit, [Next]_vars, NEW s \in Sub, EndIsSeen(s)
    PROVE  EndIsSeen(s)'
<1>0. TypeOK /\ JobsFit /\ SubsFit /\ Fit' /\ SubsFit'
  BY NextFit DEF Fit
<1>on. stuck[s] \subseteq stuck'[s] /\ (applied[s] = 1 => applied'[s] = 1)
  <2>1. \A o \in Sub : stuck[o] \subseteq stuck'[o] /\ (applied[o] = 1 => applied'[o] = 1)
    BY Onwards
  <2> QED
    BY <2>1
<1> SUFFICES ASSUME Deletion(s) \in ledger', Clean(s)', row'.sub = s \/ applied'[s] = 0
             PROVE  Ending(s)'
  BY DEF EndIsSeen, Deletion
<1>1. Clean(s) /\ "stale" \notin stuck'[s] /\ "lost" \notin stuck'[s] /\ "early" \notin stuck'[s]
  BY <1>on DEF Clean
<1>2. row.sub = s \/ applied[s] = 0
  <2>1. CASE row'.sub = s
    <3>1. row' = row \/ row.sub = s \/ applied[s] = 0
      BY <1>1, <2>1, RowStep
    <3> QED
      BY <2>1, <3>1
  <2>2. CASE applied'[s] = 0
    BY <1>0, <1>on, <2>2 DEF SubsFit, SubFits
  <2> QED
    BY <2>1, <2>2
<1>3. Deletion(s) \in ledger => Ending(s)
  BY <1>1, <1>2 DEF EndIsSeen
<1>4. CASE UNCHANGED <<ledger, job>>
  BY <1>3, <1>4 DEF Ending, Deletion
<1>5. ASSUME NEW w \in Worker, NEW e \in sent,
             \/ Duplicate(w, e) \/ DeliverCheckout(w, e)
             \/ DeliverDeletion(w, e) \/ DeliverUpdate(w, e)
      PROVE  Ending(s)'
  <2>1. At(w, "idle") /\ \A v \in Worker \ {w} : job'[v] = job[v]
    BY <1>0, <1>5 DEF Duplicate, DeliverCheckout, DeliverDeletion, DeliverUpdate, Ack, Hold,
                      TypeOK
  <2>2. CASE Deletion(s) \in ledger
    BY <1>3, <2>1, <2>2 DEF Ending, At
  <2>3. CASE Deletion(s) \notin ledger
    <3>1. e = Deletion(s) /\ e.kind = "deleted" /\ e.sub = s
      BY <1>0, <1>5, <2>3 DEF Duplicate, DeliverCheckout, DeliverDeletion, DeliverUpdate,
                              Deletion
    <3>2. DeliverDeletion(w, e)
      BY <1>5, <2>3, <3>1 DEF Duplicate, DeliverCheckout, DeliverUpdate, IsNew
    <3>3. job'[w].at = "find" /\ job'[w].event = e
      BY <1>0, <3>2 DEF DeliverDeletion, Hold, Held, TypeOK
    <3> QED
      BY <3>1, <3>3 DEF Ending
  <2> QED
    BY <2>2, <2>3
<1>6. ASSUME NEW w \in Worker,
             \/ ClaimTrial(w) \/ RejectTrial(w) \/ ApplyCheckout(w) \/ FindFirm(w)
             \/ RevertToFree(w) \/ FetchSnapshot(w) \/ MirrorTier(w) \/ Die(w)
      PROVE  Ending(s)'
  <2>1. JobFits(w) /\ \A v \in Worker \ {w} : job'[v] = job[v]
    BY <1>6, HandlerMoves
  <2>2. UNCHANGED ledger
    BY <1>6 DEF ClaimTrial, RejectTrial, ApplyCheckout, FindFirm, RevertToFree, FetchSnapshot,
                MirrorTier, Die
  <2>3. PICK v \in Worker : job[v].at \in {"find", "revert"} /\ job[v].event.sub = s
    BY <1>3, <2>2 DEF Ending, Deletion
  <2>4. CASE v # w
    BY <2>1, <2>3, <2>4 DEF Ending
  <2>5. CASE v = w
    <3>1. job[w].at \in {"find", "revert"} /\ job[w].event.sub = s /\ job[w].event.kind = "deleted"
      BY <2>1, <2>3, <2>5 DEF JobFits, Deletion
    <3>2. CASE FindFirm(w)
      <4>1. CASE row.sub = s
        <5>1. job'[w].at = "revert" /\ job'[w].event = job[w].event
          BY <1>0, <3>1, <3>2, <4>1 DEF FindFirm, IsFirmOf, Hold, Held, TypeOK
        <5> QED
          BY <3>1, <5>1 DEF Ending
      <4>2. CASE row.sub # s
        <5>1. stuck' = Mark(s, "early")
          BY <1>2, <3>1, <3>2, <4>2 DEF FindFirm, IsFirmOf, MarkIf
        <5> QED
          BY <1>0, <1>1, <5>1 DEF Mark, TypeOK
      <4> QED
        BY <4>1, <4>2
    <3>3. CASE RevertToFree(w)
      <4>1. row'.sub = None /\ applied' = applied
        BY <3>3 DEF RevertToFree
      <4>2. applied[s] = 1
        BY <2>1, <3>1, <3>3 DEF JobFits, RevertToFree, At
      <4> QED
        BY <4>1, <4>2, BillingAssumption
    <3>4. CASE Die(w)
      BY <1>0, <1>1, <3>1, <3>4 DEF Die, MarkIf, Mark, TypeOK
    <3> QED
      BY <1>6, <3>1, <3>2, <3>3, <3>4
         DEF ClaimTrial, RejectTrial, ApplyCheckout, FetchSnapshot, MirrorTier, At
  <2> QED
    BY <2>4, <2>5
<1>7. CASE UNCHANGED vars
  BY <1>4, <1>7 DEF vars
<1>8. ASSUME NEW o \in Sub, NEW t \in Tier,
             (\E fits \in BOOLEAN : OpenSession(o, t, fits)) \/ SwitchInPortal(o, t)
      PROVE  UNCHANGED <<ledger, job>>
  BY <1>8 DEF OpenSession, SwitchInPortal
<1>9. ASSUME NEW o \in Sub, ExpireSession(o) \/ PayInStripe(o) \/ EndInStripe(o)
      PROVE  UNCHANGED <<ledger, job>>
  BY <1>9 DEF ExpireSession, PayInStripe, EndInStripe
<1>10. RevokeGrant => UNCHANGED <<ledger, job>>
  BY DEF RevokeGrant
<1> QED
  BY <1>4, <1>5, <1>6, <1>7, <1>8, <1>9, <1>10 DEF Next, Handle

\* A switch of plan of s is only answered by a handler that looked at the row.
LEMMA Answered ==
    ASSUME Fit, [Next]_vars, NEW s \in Sub, row'.sub = s, row' = row, Clean(s)',
           stripe'[s].status = "live", stripe'[s] = stripe[s],
           NEW u \in sent \ acked, u.kind = "updated", u.sub = s
    PROVE  row'.tier = stripe'[s].tier \/ u \notin acked'
<1>0. TypeOK /\ JobsFit /\ "stale" \notin stuck'[s]
  BY DEF Fit, Clean
<1> SUFFICES ASSUME u \in acked' PROVE row'.tier = stripe'[s].tier
  OBVIOUS
<1>1. ASSUME NEW w \in Worker, NEW e \in sent,
             \/ Duplicate(w, e) \/ DeliverCheckout(w, e)
             \/ DeliverDeletion(w, e) \/ DeliverUpdate(w, e)
      PROVE  FALSE
  <2>1. CASE Duplicate(w, e)
    BY <2>1 DEF Duplicate, Ack
  <2>2. CASE DeliverCheckout(w, e) \/ DeliverDeletion(w, e)
    BY <2>2 DEF DeliverCheckout, DeliverDeletion, Hold
  <2>3. CASE DeliverUpdate(w, e)
    BY <2>3 DEF DeliverUpdate, IsFirmOf, Hold, Ack
  <2> QED
    BY <1>1, <2>1, <2>2, <2>3
<1>2. ASSUME NEW w \in Worker,
             RejectTrial(w) \/ ApplyCheckout(w) \/ FindFirm(w) \/ RevertToFree(w)
      PROVE  FALSE
  <2>1. JobFits(w)
    BY <1>2, HandlerMoves
  <2>2. job[w].at \in {"reject", "apply", "find", "revert"}
    BY <1>2 DEF RejectTrial, ApplyCheckout, FindFirm, RevertToFree, At
  <2>3. job[w].event.kind # "updated"
    BY <2>1, <2>2 DEF JobFits, Checkout, Deletion
  <2>4. acked' \subseteq acked \union {job[w].event}
    BY <1>2 DEF RejectTrial, ApplyCheckout, FindFirm, RevertToFree, Ack, Hold
  <2> QED
    BY <2>3, <2>4
<1>3. ASSUME NEW w \in Worker, ClaimTrial(w) \/ Die(w) PROVE FALSE
  BY <1>3 DEF ClaimTrial, Die
<1>4. ASSUME NEW w \in Worker, FetchSnapshot(w) PROVE row'.tier = stripe'[s].tier
  <2>0. job[w].event = u /\ stuck' # Mark(s, "unsynced")
    <3>1. job[w].event = u
      BY <1>4 DEF FetchSnapshot, Ack
    <3>2. stuck' # Mark(s, "unsynced")
      BY <1>0 DEF Clean, Mark, TypeOK
    <3> QED
      BY <3>1, <3>2
  <2>1. /\ job[w].event = u
        /\ stripe[u.sub].status # "live" \/ TierToMirror(u) = job[w].seen.tier
        /\ stuck' = MarkIf(row # job[w].seen, u.sub, "stale")
    BY <1>4, <2>0 DEF FetchSnapshot, Ack
  <2>2. row = job[w].seen
    BY <1>0, <2>1 DEF MarkIf, Mark, TypeOK
  <2> QED
    BY <2>1, <2>2 DEF TierToMirror
<1>5. ASSUME NEW w \in Worker, MirrorTier(w) PROVE row'.tier = stripe'[s].tier
  <2>1. /\ job[w].event = u
        /\ row' = [tier |-> job[w].tier, sub |-> u.sub, customer |-> TRUE]
        /\ stuck' = [o \in Sub |->
                       IF row # job[w].seen \/ stripe[u.sub].tier # job[w].tier
                       THEN stuck[o] \union {"stale"} ELSE stuck[o]]
    BY <1>5 DEF MirrorTier, Ack
  <2> QED
    BY <1>0, <2>1
<1>6. ASSUME NEW o \in Sub, NEW t \in Tier,
             (\E fits \in BOOLEAN : OpenSession(o, t, fits)) \/ SwitchInPortal(o, t)
      PROVE  FALSE
  BY <1>6 DEF OpenSession, SwitchInPortal
<1>7. ASSUME NEW o \in Sub, ExpireSession(o) \/ PayInStripe(o) \/ EndInStripe(o)
      PROVE  FALSE
  BY <1>7 DEF ExpireSession, PayInStripe, EndInStripe
<1>8. RevokeGrant \/ UNCHANGED vars => FALSE
  BY DEF RevokeGrant, vars
<1> QED
  BY <1>1, <1>2, <1>3, <1>4, <1>5, <1>6, <1>7, <1>8 DEF Next, Handle

\* What Stripe has emitted stays, and what it bills for s only changes by a
\* payment, a switch of plan or an end.
LEMMA BillStep ==
    ASSUME Fit, [Next]_vars, NEW s \in Sub, applied[s] = 1, stripe'[s].status = "live",
           ~ \E t \in Tier : SwitchInPortal(s, t)
    PROVE  stripe'[s] = stripe[s] /\ sent \subseteq sent'
<1>0. TypeOK /\ SubsFit
  BY DEF Fit
<1>1. session[s].stage = "paid"
  BY <1>0 DEF SubsFit, SubFits, TypeOK
<1>2. CASE UNCHANGED <<stripe, sent>>
  BY <1>2
<1>3. ASSUME NEW w \in Worker, RejectTrial(w) PROVE stripe'[s] = stripe[s] /\ sent \subseteq sent'
  <2>1. sent \subseteq sent'
    BY <1>3 DEF RejectTrial, Emit
  <2>2. stripe' = stripe \/ stripe' = [stripe EXCEPT ![job[w].event.sub].status = "ended"]
    BY <1>3 DEF RejectTrial
  <2>3. job[w].event.sub \in Sub
    BY <1>3, HandlerMoves
  <2> QED
    BY <1>0, <2>1, <2>2, <2>3 DEF TypeOK
<1>4. ASSUME NEW o \in Sub, PayInStripe(o) PROVE stripe'[s] = stripe[s] /\ sent \subseteq sent'
  BY <1>0, <1>1, <1>4 DEF PayInStripe, Emit, TypeOK
<1>5. ASSUME NEW o \in Sub, EndInStripe(o) PROVE stripe'[s] = stripe[s] /\ sent \subseteq sent'
  BY <1>0, <1>5 DEF EndInStripe, Emit, TypeOK
<1>6. ASSUME NEW o \in Sub, NEW t \in Tier, SwitchInPortal(o, t)
      PROVE  stripe'[s] = stripe[s] /\ sent \subseteq sent'
  BY <1>0, <1>6 DEF SwitchInPortal, Emit, TypeOK
<1>7. ASSUME ~ \E w \in Worker : RejectTrial(w),
             ~ \E o \in Sub : PayInStripe(o) \/ EndInStripe(o),
             ~ \E o \in Sub, t \in Tier : SwitchInPortal(o, t)
      PROVE  UNCHANGED <<stripe, sent>>
  BY <1>7, ZenonT(40) DEF Next, vars, Handle, Duplicate, DeliverCheckout, DeliverDeletion, DeliverUpdate,
              ClaimTrial, ApplyCheckout, FindFirm, RevertToFree, FetchSnapshot, MirrorTier, Die,
              OpenSession, ExpireSession, RevokeGrant
<1> QED
  BY <1>2, <1>3, <1>4, <1>5, <1>6, <1>7

LEMMA TierFollowsKept ==
    ASSUME Fit, [Next]_vars, NEW s \in Sub, TierFollows(s), Numbered
    PROVE  TierFollows(s)'
<1>0. TypeOK /\ SubsFit /\ Fit' /\ SubsFit'
  BY NextFit DEF Fit
<1>on. stuck[s] \subseteq stuck'[s]
  <2>1. \A o \in Sub : stuck[o] \subseteq stuck'[o]
    BY Onwards
  <2> QED
    BY <2>1
<1> SUFFICES ASSUME row'.sub = s, Clean(s)', stripe'[s].status = "live"
             PROVE  row'.tier = stripe'[s].tier \/ Unread(s)'
  BY DEF TierFollows
<1>1. Clean(s) /\ "stale" \notin stuck'[s]
  BY <1>on DEF Clean
<1>2. ASSUME NEW t \in Tier, SwitchInPortal(s, t) PROVE Unread(s)'
  <2> DEFINE new == [kind |-> "updated", sub |-> s, n |-> Changes + 1]
  <2>1. sent' = sent \union {new} /\ acked' = acked
    BY <1>2 DEF SwitchInPortal, Emit
  <2>2. new \notin sent
    <3>1. Changes \in Nat
      BY <1>0, ChangesCounted
    <3> QED
      BY <3>1 DEF Numbered
  <2>3. new \in sent' \ acked' /\ new.kind = "updated" /\ new.sub = s
    BY <1>0, <2>1, <2>2 DEF TypeOK
  <2> HIDE DEF new
  <2> QED
    BY <2>3 DEF Unread
<1>3. ASSUME ~ \E t \in Tier : SwitchInPortal(s, t)
      PROVE  row'.tier = stripe'[s].tier \/ Unread(s)'
  <2>1. \/ row' = row
        \/ row.sub = s /\ row'.tier = stripe[s].tier /\ stripe' = stripe
        \/ applied[s] = 0 /\ row'.tier = session[s].tier /\ stripe' = stripe
    BY <1>1, RowStep
  <2>2. CASE row.sub = s /\ row'.tier = stripe[s].tier /\ stripe' = stripe
    BY <2>2
  <2>3. CASE applied[s] = 0 /\ row'.tier = session[s].tier /\ stripe' = stripe
    BY <1>0, <2>3 DEF SubsFit, SubFits
  <2>4. CASE row' = row
    <3>1. row.sub = s /\ applied[s] = 1
      BY <1>0, <2>4 DEF SubsFit, SubFits
    <3>2. stripe'[s] = stripe[s] /\ sent \subseteq sent'
      BY <1>3, <3>1, BillStep
    <3>3. row.tier = stripe[s].tier \/ Unread(s)
      BY <1>1, <3>1, <3>2 DEF TierFollows
    <3>4. ASSUME NEW u \in sent \ acked, u.kind = "updated", u.sub = s
          PROVE  row'.tier = stripe'[s].tier \/ u \notin acked'
      BY <2>4, <3>2, <3>4, Answered
    <3>5. Unread(s) => row'.tier = stripe'[s].tier \/ Unread(s)'
      BY <3>2, <3>4 DEF Unread
    <3> QED
      BY <2>4, <3>2, <3>3, <3>5
  <2> QED
    BY <2>1, <2>2, <2>3, <2>4
<1> QED
  BY <1>2, <1>3

LEMMA NumberedKept == Fit /\ Numbered /\ [Next]_vars => Numbered'
<1> SUFFICES ASSUME Fit, Numbered, [Next]_vars PROVE Numbered'
  OBVIOUS
<1> DEFINE Switches == {e \in sent : e.kind = "updated"}
<1>0. IsFiniteSet(Switches) /\ Changes \in Nat /\ Changes = Cardinality(Switches)
  BY FS_Subset, ChangesCounted DEF Fit, TypeOK, Changes
<1>1. ASSUME NEW s \in Sub, NEW t \in Tier, SwitchInPortal(s, t) PROVE Numbered'
  <2> DEFINE new == [kind |-> "updated", sub |-> s, n |-> Changes + 1]
  <2>1. sent' = sent \union {new}
    BY <1>1 DEF SwitchInPortal, Emit
  <2>2. new \notin sent
    BY <1>0 DEF Numbered
  <2>3. Switches' = Switches \union {new} /\ new \notin Switches
    BY <2>1, <2>2
  <2>4. Cardinality(Switches') = Changes + 1
    <3> HIDE DEF Switches, new
    <3> QED
      BY <1>0, <2>3, FS_AddElement
  <2>5. Changes' = Changes + 1
    BY <2>4 DEF Changes
  <2>6. ASSUME NEW e \in sent', e.kind = "updated" PROVE e.n <= Changes'
    <3>1. CASE e = new
      BY <1>0, <2>5, <3>1
    <3>2. CASE e \in sent
      <4>1. e.n \in Nat /\ e.n <= Changes
        BY <2>6, <3>2, BillingAssumption DEF Numbered, Fit, TypeOK, Event
      <4> QED
        BY <1>0, <2>5, <4>1
    <3> QED
      BY <2>1, <3>1, <3>2
  <2> QED
    BY <2>6 DEF Numbered
<1>2. ASSUME {e \in sent' : e.kind = "updated"} = Switches PROVE Numbered'
  <2>1. Changes' = Changes
    BY <1>2 DEF Changes
  <2>2. ASSUME NEW e \in sent', e.kind = "updated" PROVE e.n <= Changes'
    <3>1. e \in Switches
      BY <1>2, <2>2
    <3> QED
      BY <2>1, <3>1 DEF Numbered
  <2> QED
    BY <2>2 DEF Numbered
<1>3. ASSUME NEW s, sent' = sent \union {[kind |-> "checkout", sub |-> s, n |-> 0]}
                    \/ sent' = sent \union {[kind |-> "deleted", sub |-> s, n |-> 0]}
      PROVE  {e \in sent' : e.kind = "updated"} = Switches
  BY <1>3
<1>4. ASSUME NEW w \in Worker, RejectTrial(w)
      PROVE  {e \in sent' : e.kind = "updated"} = Switches
  BY <1>3, <1>4 DEF RejectTrial, Emit
<1>5. ASSUME NEW s \in Sub, PayInStripe(s) \/ EndInStripe(s)
      PROVE  {e \in sent' : e.kind = "updated"} = Switches
  BY <1>3, <1>5 DEF PayInStripe, EndInStripe, Emit
<1>6. ASSUME ~ \E w \in Worker : RejectTrial(w),
             ~ \E o \in Sub : PayInStripe(o) \/ EndInStripe(o),
             ~ \E o \in Sub, t \in Tier : SwitchInPortal(o, t)
      PROVE  UNCHANGED sent
  BY <1>6, ZenonT(40) DEF Next, vars, Handle, Duplicate, DeliverCheckout, DeliverDeletion, DeliverUpdate,
              ClaimTrial, ApplyCheckout, FindFirm, RevertToFree, FetchSnapshot, MirrorTier, Die,
              OpenSession, ExpireSession, RevokeGrant
<1> QED
  BY <1>1, <1>2, <1>4, <1>5, <1>6

\* When everything is answered, the row follows Stripe: what is on it is live and
\* gives the tier Stripe bills, except after a loss, an overtaking or a stale
\* decision (handleStripeWebhook, applySubscriptionUpdatedEvent).
THEOREM BillingFollowsStripe == Spec => []RowFollowsStripe
<1> DEFINE FollowInv == Numbered /\ \A s \in Sub : EndIsSeen(s) /\ TierFollows(s)
<1>1. Init => FollowInv
  BY BillingAssumption DEF Init, EndIsSeen, TierFollows, Numbered
<1>2. Fit /\ FollowInv /\ [Next]_vars => FollowInv'
  BY EndIsSeenKept, TierFollowsKept, NumberedKept
<1>3. Fit /\ FollowInv => RowFollowsStripe
  <2> SUFFICES ASSUME Fit, FollowInv, NEW s \in Sub, Quiet, row.sub = s, Clean(s)
               PROVE  stripe[s].status = "live" /\ row.tier = stripe[s].tier
    BY DEF RowFollowsStripe, Clean
  <2>0. TypeOK /\ SubFits(s)
    BY DEF Fit, SubsFit
  <2>1. ~Ending(s) /\ ~Unread(s)
    BY DEF Ending, Unread, Quiet, At
  <2>2. Deletion(s) \notin sent
    BY <2>0, <2>1 DEF EndIsSeen, Quiet, TypeOK
  <2>3. stripe[s].status = "live"
    BY <2>0, <2>2 DEF SubFits, TypeOK
  <2> QED
    BY <2>1, <2>3 DEF TierFollows
<1> HIDE DEF FollowInv
<1> QED
  BY <1>1, <1>2, <1>3, FitAlways, PTL DEF Spec

-----------------------------------------------------------------------------
(* The roster of the same firm, paused and unpaused as its plan changes    *)
(* (RosterPause): for every roster, cap, number of dashboard loads and     *)
(* number of changes of plan.                                              *)

(* While a marker is set whose pick nothing crossed, no invocation is      *)
(* about to write rows or to unpause everybody.                            *)
ChoiceInv ==
    choice /\ ~crossed => /\ Person \ paused = picked
                          /\ \A w \in Invocation : ~Unaware(w)

-----------------------------------------------------------------------------

LEMMA InitRoster == RosterInit => RosterTypeOK /\ ChoiceInv
<1>1. NoVisit \in VisitType
  BY DEF VisitType
<1>2. 0 \in 0 .. MaxPlanChanges
  BY RosterAssumption
<1> QED
  BY <1>1, <1>2 DEF RosterInit, RosterTypeOK, Trials, ChoiceInv

\* The plan and the calendar touch no row and no invocation.
LEMMA CalendarKeeps ==
    ASSUME RosterTypeOK, ChangePlan \/ TrialMovesOn \/ SwitchApproval
    PROVE  RosterTypeOK' /\ UNCHANGED <<choice, paused, visit, picked, crossed>>
<1>1. CASE ChangePlan
  BY <1>1, RosterAssumption DEF RosterTypeOK, ChangePlan
<1>2. CASE TrialMovesOn
  BY <1>2 DEF RosterTypeOK, Trials, TrialMovesOn
<1>3. CASE SwitchApproval
  BY <1>3 DEF RosterTypeOK, SwitchApproval
<1> QED
  BY <1>1, <1>2, <1>3

\* What a step of an invocation makes of it.
LEMMA RosterStepTyped ==
    ASSUME RosterTypeOK, NEW w \in Invocation,
           \/ ReadFirm(w) \/ Step(w) \/ \E keep \in SUBSET Person : StartPick(w, keep)
    PROVE  RosterTypeOK'
<1>1. visit[w] \in VisitType /\ NoVisit.at = "idle"
  BY DEF RosterTypeOK, NoVisit
<1>2. ASSUME NEW j \in VisitType, visit' = [visit EXCEPT ![w] = j]
      PROVE  visit' \in [Invocation -> VisitType]
  BY <1>2 DEF RosterTypeOK
<1>3. CASE ReadFirm(w)
  <2>1. [at |-> "roster", firm |-> [tier |-> tier, trial |-> trial, choice |-> choice]] \in VisitType
    BY DEF VisitType, FirmType, RosterTypeOK
  <2> QED
    BY <1>2, <1>3, <2>1 DEF ReadFirm, Go, RosterTypeOK
<1>4. CASE ReadRoster(w)
  <2>1. PICK j : /\ visit' = [visit EXCEPT ![w] = j]
                 /\ \/ j \in {NoVisit, [at |-> "unpause"]}
                    \/ \E o \in {NoVisit, [at |-> "unpause"]} : j = [at |-> "unmark", then |-> o]
                    \/ j = [at |-> "rows", pause |-> Person \ (Default \union paused),
                            unpause |-> Default \intersect paused]
    BY <1>4 DEF ReadRoster, Go
  <2>2. Default \intersect paused \in SUBSET Person
    BY RosterAssumption
  <2>3. j \in VisitType
    BY <2>1, <2>2 DEF VisitType
  <2> QED
    BY <1>2, <1>4, <2>1, <2>3 DEF ReadRoster, RosterTypeOK
<1>5. CASE ClearMarker(w)
  <2>1. visit[w].then \in VisitType
    BY <1>1, <1>5 DEF ClearMarker, VisitAt, VisitType, NoVisit
  <2> QED
    BY <1>2, <1>5, <2>1 DEF ClearMarker, Go, RosterTypeOK
<1>6. CASE UnpauseEveryone(w)
  BY <1>2, <1>6 DEF UnpauseEveryone, Go, RosterTypeOK, VisitType
<1>7. CASE WriteRow(w)
  <2> DEFINE j == visit[w]
  <2>1. j \in [at : {"rows"}, pause : SUBSET Person, unpause : SUBSET Person]
    BY <1>1, <1>7 DEF WriteRow, VisitAt, VisitType, NoVisit
  <2>2. ASSUME NEW p
        PROVE  /\ [j EXCEPT !.pause = @ \ {p}] \in VisitType
               /\ [j EXCEPT !.unpause = @ \ {p}] \in VisitType
    BY <2>1 DEF VisitType
  <2>3. NoVisit \in VisitType
    BY DEF VisitType
  <2>4. paused' \subseteq Person
    BY <1>7, <2>1 DEF WriteRow, RosterTypeOK
  <2>5. \E k \in VisitType : visit' = [visit EXCEPT ![w] = k]
    BY <1>7, <2>2, <2>3 DEF WriteRow, Go
  <2> QED
    BY <1>2, <1>7, <2>4, <2>5 DEF WriteRow, RosterTypeOK
<1>8. CASE SavePick(w)
  <2>1. visit[w].keep \subseteq Person /\ [at |-> "again"] \in VisitType
    BY <1>1, <1>8 DEF SavePick, VisitAt, VisitType, NoVisit
  <2> QED
    BY <1>2, <1>8, <2>1 DEF SavePick, Go, RosterTypeOK
<1>9. ASSUME NEW keep \in SUBSET Person, StartPick(w, keep) PROVE RosterTypeOK'
  <2>1. [at |-> "pick", keep |-> keep] \in VisitType
    BY DEF VisitType
  <2> QED
    BY <1>2, <1>9, <2>1 DEF StartPick, Go, RosterTypeOK
<1> QED
  BY <1>3, <1>4, <1>5, <1>6, <1>7, <1>8, <1>9 DEF Step

\* An invocation that goes on has seen the marker or clears it, and leaves the
\* rows alone until it is cleared.
LEMMA StepKeepsChoice ==
    ASSUME RosterTypeOK, ChoiceInv, NEW w \in Invocation,
           \/ ReadFirm(w) \/ Step(w) \/ \E keep \in SUBSET Person : StartPick(w, keep)
    PROVE  ChoiceInv'
<1>0. \A v \in Invocation \ {w} : visit'[v] = visit[v]
  BY DEF ReadFirm, ReadRoster, ClearMarker, UnpauseEveryone, WriteRow, SavePick, StartPick, Step,
         Go, RosterTypeOK
<1>1. ASSUME UNCHANGED <<choice, paused, picked, crossed>>, choice /\ ~crossed => ~Unaware(w)'
      PROVE  ChoiceInv'
  BY <1>0, <1>1 DEF ChoiceInv, Unaware, VisitAt
<1>2. CASE ReadFirm(w)
  BY <1>1, <1>2 DEF ReadFirm, Go, Unaware, VisitAt, RosterTypeOK
<1>3. CASE ReadRoster(w)
  <2>1. choice /\ ~crossed => visit[w].firm.choice
    BY <1>3 DEF ReadRoster, ChoiceInv, Unaware, VisitAt
  <2>2. visit[w].firm.choice => visit'[w].at \in {"idle", "unmark"}
    BY <1>3 DEF ReadRoster, MarkerToClear, Go, RosterTypeOK, NoVisit
  <2> QED
    BY <1>1, <1>3, <2>1, <2>2 DEF ReadRoster, Unaware, VisitAt
<1>4. CASE ClearMarker(w)
  BY <1>4 DEF ClearMarker, ChoiceInv
<1>5. CASE UnpauseEveryone(w) \/ WriteRow(w)
  <2>1. ~(choice /\ ~crossed)
    BY <1>5 DEF UnpauseEveryone, WriteRow, ChoiceInv, Unaware, VisitAt
  <2>2. choice' = choice /\ crossed' = crossed
    BY <1>5 DEF UnpauseEveryone, WriteRow
  <2>3. ~(choice' /\ ~crossed')
    BY <2>1, <2>2
  <2> QED
    BY <2>3 DEF ChoiceInv
<1>6. CASE SavePick(w)
  <2>1. visit'[w].at = "again"
    BY <1>6 DEF SavePick, Go, RosterTypeOK
  <2>2. ASSUME ~crossed' PROVE \A v \in Invocation : ~Unaware(v)'
    BY <1>0, <1>6, <2>1, <2>2 DEF SavePick, Unaware, VisitAt
  <2>3. visit[w].keep \subseteq Person
    BY <1>6 DEF SavePick, VisitAt, RosterTypeOK, VisitType, NoVisit
  <2> QED
    BY <1>6, <2>2, <2>3 DEF SavePick, ChoiceInv
<1>7. ASSUME NEW keep \in SUBSET Person, StartPick(w, keep) PROVE ChoiceInv'
  BY <1>1, <1>7 DEF StartPick, Go, Unaware, VisitAt, RosterTypeOK
<1> QED
  BY <1>2, <1>3, <1>4, <1>5, <1>6, <1>7 DEF Step

LEMMA RosterNextTyped == RosterTypeOK /\ [RosterNext]_rosterVars => RosterTypeOK'
<1>1. RosterTypeOK /\ UNCHANGED rosterVars => RosterTypeOK'
  BY DEF rosterVars, RosterTypeOK
<1> QED
  BY <1>1, CalendarKeeps, RosterStepTyped DEF RosterNext

LEMMA NextChoice == RosterTypeOK /\ ChoiceInv /\ [RosterNext]_rosterVars => ChoiceInv'
<1>1. ChoiceInv /\ UNCHANGED <<choice, paused, visit, picked, crossed>> => ChoiceInv'
  BY DEF ChoiceInv, Unaware, VisitAt
<1>2. UNCHANGED rosterVars => UNCHANGED <<choice, paused, visit, picked, crossed>>
  BY DEF rosterVars
<1> QED
  BY <1>1, <1>2, CalendarKeeps, StepKeepsChoice DEF RosterNext

\* The firm, its paused rows and what every invocation holds stay well typed
\* (reconcileRosterPauseState, setRosterActivePicks).
THEOREM RosterTypeCorrect == RosterSpec => []RosterTypeOK
BY InitRoster, RosterNextTyped, PTL DEF RosterSpec

\* A firm that is marked as having chosen has exactly the people it chose
\* reminded when nothing is under way, unless a reconciliation that had not seen
\* the pick was under way when it was saved (store.ts:3590-3601).
THEOREM ChoiceKept == RosterSpec => []ChoiceIsKept
<1>1. RosterInit => RosterTypeOK /\ ChoiceInv
  BY InitRoster
<1>2. RosterTypeOK /\ ChoiceInv /\ [RosterNext]_rosterVars => ChoiceInv'
  BY NextChoice
<1>3. ChoiceInv => ChoiceIsKept
  BY DEF ChoiceInv, ChoiceIsKept
<1> QED
  BY <1>1, <1>2, <1>3, RosterTypeCorrect, PTL DEF RosterSpec
=============================================================================
