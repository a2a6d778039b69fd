--------------------------- MODULE AcceptedHistory ---------------------------
(***************************************************************************)
(* What a projection fed by a subscribe stream promises: its view is the   *)
(* effect of the accepted history, each envelope exactly once and in       *)
(* order, however often the transport delivers it.  The runtime may be     *)
(* ahead of the view by any suffix of the log.                             *)
(***************************************************************************)
EXTENDS Naturals, Sequences

CONSTANTS
    Messages,          \* envelopes a runtime may accept
    InitView,          \* the view of a projection nothing was applied to
    Step(_, _)         \* the effect of one envelope on a view

VARIABLES
    log,               \* accepted history, in acceptance order
    view,              \* derived state
    applied            \* how many envelopes of log the view reflects

avars == <<log, view, applied>>

Init == log = <<>> /\ view = InitView /\ applied = 0

\* The runtime accepts one more envelope.
Accept ==
    /\ \E e \in Messages : log' = Append(log, e)
    /\ UNCHANGED <<view, applied>>

\* The next envelope takes effect, once.
ApplyNext ==
    /\ applied < Len(log)
    /\ view' = Step(view, log[applied + 1])
    /\ applied' = applied + 1
    /\ UNCHANGED log

\* The process restarts: projections live in memory only.
Forget ==
    /\ view' = InitView
    /\ applied' = 0
    /\ UNCHANGED log

Next == Accept \/ ApplyNext \/ Forget

Spec == Init /\ [][Next]_avars
=============================================================================
