---------------------------- MODULE EnvelopeFeed ----------------------------
(***************************************************************************)
(* One projection and whatever calls apply_envelope on it, one call at a   *)
(* time: the same envelope again, one whose payload does not parse, one of *)
(* another mode, one without an id.  Each mode's session instantiates it.   *)
(***************************************************************************)
EXTENDS BaseProjection

CONSTANTS
    Envelopes,         \* the envelopes of the instance
    InitView,          \* the view __init__ sets up
    MaxLength          \* bound on the transcript

VARIABLE proj

Init == proj = Fresh(InitView)

Receive(e) ==
    /\ Len(proj.transcript) < MaxLength
    /\ proj' = ApplyEnvelope(proj, e)

Next == \E e \in Envelopes : Receive(e)

Spec == Init /\ [][Next]_proj

-----------------------------------------------------------------------------
view == proj.view

Identified == {i \in DOMAIN proj.transcript : proj.transcript[i].id # NoId}

\* The transcript holds envelopes of this mode whose payloads parsed.
TypeOK ==
    /\ proj.transcript \in Seq({e \in Envelopes : e.mode = Mode /\ ~Raises(e)})
    /\ proj.seen = {proj.transcript[i].id : i \in Identified}
    /\ Len(proj.transcript) <= MaxLength

\* The steps a property speaks of: those that apply an envelope, and which.
Applied(e) == proj'.transcript = Append(proj.transcript, e)
=============================================================================
