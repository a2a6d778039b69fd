--------------------------- MODULE HandoffSession ---------------------------
(***************************************************************************)
(* A Handoff session as one of its projections follows it.                 *)
(***************************************************************************)
EXTENDS HandoffProjection

CONSTANTS
    NoId,              \* the empty message_id
    Envelopes,         \* the envelopes of the instance
    MaxLength          \* bound on the transcript

VARIABLE proj

HandoffMode == "handoff"

INSTANCE EnvelopeFeed
    WITH Mode <- HandoffMode, ParsedTypes <- HandoffParsed, ModeStep <- HandoffStep, InitView <- HandoffInit

\* What the log alone says, as the runtime reads it.
Of(t, type, h) == {i \in DOMAIN t : t[i].type = type /\ t[i].subject = h}
Offered(t) == {t[i].subject : i \in {j \in DOMAIN t : t[j].type = "HandoffOffer"}}
TargetOf(t, h) == LET i == CHOOSE j \in Of(t, "HandoffOffer", h) : TRUE IN t[i].value
Declined(t, h) == Of(t, "HandoffDecline", h) # {}
Settled(t, h) == Declined(t, h) \/ Of(t, "HandoffAccept", h) # {}

\* No offer outstanding or accepted, and never to a target that declined (rule 3a).
MayOffer(t, target) ==
    \A h \in Offered(t) : Declined(t, h) /\ TargetOf(t, h) # target

\* A conforming runtime (external), RFC-MACP-0010 as handoff.py and
\* docs/modes/handoff.md cite it: serial offers under new ids, answered once by
\* their target (an implicit accept comes in the target's name), a commitment
\* after an accept or a decline, and nothing after it.
Conforming(t, e) ==
    /\ e.ok /\ e.mode = HandoffMode
    /\ \A i \in DOMAIN t : t[i].type # "Commitment" /\ t[i].id # e.id
    /\ e.type = "HandoffOffer" => e.subject \notin Offered(t) /\ MayOffer(t, e.value)
    /\ e.type = "HandoffContext" => e.subject \in Offered(t) /\ ~Settled(t, e.subject)
    /\ e.type \in {"HandoffAccept", "HandoffDecline"} =>
            e.subject \in Offered(t) /\ ~Settled(t, e.subject) /\ e.sender = TargetOf(t, e.subject)
    /\ e.type = "Commitment" => \E h \in Offered(t) : Settled(t, h)

-----------------------------------------------------------------------------
Shows(call, v) ==
    CASE call.method = "offer" -> v.handoffs[call.subject].target = call.means
      [] call.method = "add_context" -> v.handoffs[call.subject].context = call.means
      [] call.method = "accept_handoff" ->
            v.handoffs[call.subject].acceptedBy = call.means /\ ~v.handoffs[call.subject].implicit
      [] call.method = "decline" ->
            v.handoffs[call.subject].declinedBy = call.means /\ ~CanOfferTo(v, call.means)

\* A settled handoff keeps its outcome and who gave it, whatever competes with it
\* later, unless its very offer is made again (RFC-MACP-0010 5.4, settle once).
OutcomeKept ==
    \A h \in DOMAIN view.handoffs :
        LET old == view.handoffs[h]
            new == proj'.view.handoffs[h]
        IN  ~IsPending(view, h) /\ ~(\E e \in Envelopes : Applied(e) /\ e.type = "HandoffOffer"
                                                            /\ e.subject = h)
            => [new EXCEPT !.context = old.context] = old

\* Every answer to an offer the projection knew settled it or left an anomaly, so
\* a discarded answer is never silent.
AnswersAccounted ==
    LET answers == {i \in DOMAIN proj.transcript :
                        /\ proj.transcript[i].type \in {"HandoffAccept", "HandoffDecline"}
                        /\ \E j \in 1..i - 1 : proj.transcript[j].type = "HandoffOffer"
                                        /\ proj.transcript[j].subject = proj.transcript[i].subject}
        settled == {h \in DOMAIN view.handoffs : ~IsPending(view, h)}
    IN  /\ Cardinality(answers) >= Cardinality(settled) + Len(view.anomalies)
        /\ Cardinality(Offered(proj.transcript))
                = Cardinality({i \in DOMAIN proj.transcript :
                                    proj.transcript[i].type = "HandoffOffer"})
            => Cardinality(answers) = Cardinality(settled) + Len(view.anomalies)

\* can_offer_to answers as the runtime would, on full history.
CanOfferAgrees ==
    \A e \in Envelopes : e.type = "HandoffOffer" /\ view.phase # "Committed" =>
        (MayOffer(proj.transcript, e.value) <=> CanOfferTo(view, e.value))

\* The phase tells the state of the newest offer: it is terminal for a participant
\* exactly when no offer is pending, so on_terminal never fires early or late.
PhaseTellsOutcome ==
    view.phase # "Committed" =>
        /\ view.phase = "Accepted" <=> HasAcceptedOffer(view)
        /\ view.phase = "Declined" <=> DOMAIN view.handoffs # {} /\ PendingHandoffs(view) = {}
                                            /\ ~HasAcceptedOffer(view)
        /\ view.phase = "ContextSharing" <=>
                \E h \in PendingHandoffs(view) : view.handoffs[h].status = "context_sent"
=============================================================================
