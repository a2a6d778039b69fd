------------------------- MODULE HandoffProjection -------------------------
(***************************************************************************)
(* HandoffProjection of handoff.py.  subject is the handoff_id; value is   *)
(* the target of an offer, the content type of a context, and the          *)
(* payload's accepted_by or declined_by; flag marks an accept the runtime  *)
(* issued for the target (implicit).                                       *)
(***************************************************************************)
EXTENDS ProjectionView

HandoffParsed == {"HandoffOffer", "HandoffContext", "HandoffAccept", "HandoffDecline"}
Nobody == "nobody"
Pending == {"offered", "context_sent"}

HandoffInit ==
    [phase |-> "Pending", commitment |-> NoCommitment, anomalies |-> <<>>, handoffs |-> <<>>]

Offer(e) ==
    [target |-> e.value, status |-> "offered", context |-> "none",
     acceptedBy |-> Nobody, declinedBy |-> Nobody, implicit |-> FALSE]

Known(v, e) == e.subject \in DOMAIN v.handoffs
IsPending(v, h) == v.handoffs[h].status \in Pending

OnOffer(v, e) == SetPhase([v EXCEPT !.handoffs = Put(@, e.subject, Offer(e))], "OfferPending")

\* A late context is recorded; it reopens neither the handoff nor the phase.
OnContext(v, e) ==
    LET h == v.handoffs[e.subject]
        w == [v EXCEPT !.handoffs[e.subject].status = IF @ = "offered" THEN "context_sent" ELSE @,
                       !.handoffs[e.subject].context = e.value]
    IN  IF ~Known(v, e) THEN v
        ELSE IF v.phase = "OfferPending" THEN SetPhase(w, "ContextSharing") ELSE w

\* Settles once, from a pending offer; a later accept or decline is misuse, one
\* about an unknown offer is nothing at all.
OnAccept(v, e) ==
    IF ~Known(v, e) THEN v
    ELSE IF ~IsPending(v, e.subject) THEN RecordAnomaly(v, "settled_handoff", e)
    ELSE SetPhase([v EXCEPT !.handoffs[e.subject].status = "accepted",
                            !.handoffs[e.subject].acceptedBy = e.value,
                            !.handoffs[e.subject].implicit = e.flag], "Accepted")

OnDecline(v, e) ==
    IF ~Known(v, e) THEN v
    ELSE IF ~IsPending(v, e.subject) THEN RecordAnomaly(v, "settled_handoff", e)
    ELSE SetPhase([v EXCEPT !.handoffs[e.subject].status = "declined",
                            !.handoffs[e.subject].declinedBy = e.value], "Declined")

HandoffStep(v, e) ==
    CASE e.type = "HandoffOffer"   -> OnOffer(v, e)
      [] e.type = "HandoffContext" -> OnContext(v, e)
      [] e.type = "HandoffAccept"  -> OnAccept(v, e)
      [] e.type = "HandoffDecline" -> OnDecline(v, e)
      [] OTHER -> v

-----------------------------------------------------------------------------
\* Queries.
PendingHandoffs(v) == {h \in DOMAIN v.handoffs : IsPending(v, h)}
HasAcceptedOffer(v) == \E h \in DOMAIN v.handoffs : v.handoffs[h].status = "accepted"

\* By the offer's target: declined_by is payload data and may be empty.
DeclinedTargets(v) ==
    {v.handoffs[h].target : h \in {g \in DOMAIN v.handoffs : v.handoffs[g].status = "declined"}}

CanOfferTo(v, target) ==
    target \notin DeclinedTargets(v) /\ PendingHandoffs(v) = {} /\ ~HasAcceptedOffer(v)
=============================================================================
