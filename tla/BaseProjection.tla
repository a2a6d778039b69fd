--------------------------- MODULE BaseProjection ---------------------------
(***************************************************************************)
(* BaseProjection of base_projection.py: how a projection takes one        *)
(* envelope.  A projection is a record of                                  *)
(*   transcript  the envelopes applied, in the order they were applied,    *)
(*   seen        the message ids the dedup gate refuses,                   *)
(*   view        everything derived: phase, commitment, anomalies and the  *)
(*               collections of the mode.                                  *)
(* ModeStep is the subclass's _apply_mode_message on the view.  An         *)
(* envelope is a record [id, mode, type, sender, subject, value, ok]: ok   *)
(* says whether the payload parses, subject is the id the payload is about *)
(* (proposal, request, task, handoff), value what it says of it; some      *)
(* modes add a flag.                                                       *)
(***************************************************************************)
EXTENDS ProjectionView

CONSTANTS
    Mode,              \* MODE of the projection's class
    NoId,              \* the empty message_id, the proto3 default
    ParsedTypes,       \* message types whose payload the mode parses
    ModeStep(_, _)     \* _apply_mode_message(view, envelope), payload parsed

\* The dedup gate.  An empty id is not an identity and is never deduplicated.
Redelivered_Never(p, e) == FALSE
Redelivered(p, e) == e.id # NoId /\ e.id \in p.seen

\* The two early returns: another mode's envelope, and one already applied.
Ignored(p, e) == e.mode # Mode \/ Redelivered(p, e)

\* ParseFromString is the one fallible step, and it comes before any mutation.
Raises(e) == e.type \in ParsedTypes \cup {"Commitment"} /\ ~e.ok

\* Before the effect: enter the envelope in the transcript and its id in seen.
Enter(p, e) ==
    [transcript |-> Append(p.transcript, e),
     seen |-> p.seen \cup ({e.id} \ {NoId}),
     view |-> p.view]

\* The except block: undo exactly what Enter did.
Rollback_KeepsId(p, e) ==
    [transcript |-> SubSeq(p.transcript, 1, Len(p.transcript) - 1),
     seen |-> p.seen,
     view |-> p.view]
Rollback(p, e) ==
    [transcript |-> SubSeq(p.transcript, 1, Len(p.transcript) - 1),
     seen |-> p.seen \ {e.id},
     view |-> p.view]

\* The effect on the view: a Commitment is handled by the base class, every
\* other message by the mode.
Effect(view, e) ==
    IF e.type = "Commitment"
    THEN [view EXCEPT !.commitment = e.subject, !.phase = "Committed"]
    ELSE ModeStep(view, e)

WithEffect(p, e) ==
    [transcript |-> p.transcript, seen |-> p.seen, view |-> Effect(p.view, e)]

\* apply_envelope when nothing raises, and when the payload fails to parse:
\* the early returns come first in both.
Apply_EffectAnyway(p, e) ==
    IF Ignored(p, e) THEN WithEffect(p, e) ELSE WithEffect(Enter(p, e), e)
Apply(p, e) ==
    IF Ignored(p, e) THEN p ELSE WithEffect(Enter(p, e), e)

ApplyFails(p, e) == IF Ignored(p, e) THEN p ELSE Rollback(Enter(p, e), e)

\* apply_envelope: what the projection is after the call, exception or not.
ApplyEnvelope(p, e) == IF Raises(e) THEN ApplyFails(p, e) ELSE Apply(p, e)

\* __init__
Fresh(view) == [transcript |-> <<>>, seen |-> {}, view |-> view]

\* What is left of projection p after the envelopes of t, one apply each.
Replay(p, t) ==
    LET after[n \in 0..Len(t)] == IF n = 0 THEN p ELSE Apply(after[n - 1], t[n])
    IN  after[Len(t)]
=============================================================================
