--------------------------- MODULE ProjectionView ---------------------------
(***************************************************************************)
(* What every projection's view has in common (BaseProjection in           *)
(* base_projection.py): a phase, the commitment, the anomalies, and how a  *)
(* mode may write them.                                                    *)
(***************************************************************************)
EXTENDS Integers, Sequences, FiniteSets

NoCommitment == "none"     \* the projection's commitment is None

\* d[k] = v on a dict.
Put(d, k, v) == [x \in DOMAIN d \cup {k} |-> IF x = k THEN v ELSE d[x]]

\* Committed is absorbing: no mode message moves the phase out of it.
SetPhase(view, phase) ==
    IF view.phase = "Committed" THEN view ELSE [view EXCEPT !.phase = phase]

\* A discarded message leaves a trace: what kind, which message, about what.
RecordAnomaly(view, kind, e) ==
    [view EXCEPT !.anomalies =
        Append(@, [kind |-> kind, id |-> e.id, sender |-> e.sender, subject |-> e.subject])]
=============================================================================
