------------------------------ MODULE Dispatch ------------------------------
(***************************************************************************)
(* What a Participant does with one message (agent/participant.py): apply  *)
(* it to the projection, call the message handlers, and report a phase     *)
(* transition and the end of the session.  An agent is a record of         *)
(*   projected     does its mode have a projection (no extension mode has),*)
(*   phase, seen   of the projection (seen as in BaseProjection),          *)
(*   lastPhase     the phase reported last,                                *)
(*   stopped       the stop flag the run loop checks,                      *)
(*   reported      phases on_phase_change was called with, in order,       *)
(*   fired         states on_terminal was called with, in order,           *)
(*   raised        whether the last message ended in an exception.         *)
(* An envelope is [id, type, phase]: phase is the one the mode moves to on *)
(* it, or "same".  A fault says where user code (or the payload's parser)  *)
(* raises while the message is processed: "apply", "message", "phase",     *)
(* "terminal", or "none".                                                  *)
(***************************************************************************)
EXTENDS Naturals, Sequences

TerminalPhases == {"Committed", "Accepted", "Declined", "Cancelled", "TerminalRejected"}

NewAgent(projected, phase) ==
    [projected |-> projected, phase |-> phase, seen |-> {}, lastPhase |-> phase, stopped |-> FALSE,
     reported |-> <<>>, fired |-> <<>>, raised |-> FALSE]

Raised(a) == [a EXCEPT !.raised = TRUE]

\* apply_envelope as far as phases go: dedup, then the transition, never out of Committed.
Projected_Unconditional(a, e) ==
    IF ~a.projected \/ e.id \in a.seen THEN a
    ELSE [a EXCEPT !.seen = @ \cup {e.id}, !.phase = e.phase]
Projected(a, e) ==
    IF ~a.projected \/ e.id \in a.seen THEN a
    ELSE [a EXCEPT !.seen = @ \cup {e.id},
                   !.phase = IF e.phase = "same" \/ @ = "Committed" THEN @ ELSE e.phase]

\* dispatch_terminal; the stop flag is set only after the handler returned.
FireTerminal_RunsOn(a, state, fault) ==
    LET b == [a EXCEPT !.fired = Append(@, state)]
    IN  IF fault = "terminal" THEN Raised(b) ELSE b
FireTerminal(a, state, fault) ==
    LET b == [a EXCEPT !.fired = Append(@, state)]
    IN  IF fault = "terminal" THEN Raised(b) ELSE [b EXCEPT !.stopped = TRUE]

PhaseMoved(a) == a.projected /\ a.phase # a.lastPhase

\* The phase is noted before its handlers run; a terminal one then ends the session.
ReportPhase_Unnoted(a, fault) ==
    LET b == [a EXCEPT !.reported = Append(@, a.phase)]
    IN  CASE fault = "phase" -> Raised(b)
          [] fault # "phase" /\ b.phase \in TerminalPhases -> FireTerminal(b, b.phase, fault)
          [] OTHER -> b
ReportPhase_EndFirst(a, fault) ==
    LET b == IF a.phase \in TerminalPhases THEN FireTerminal(a, a.phase, fault) ELSE a
    IN  CASE b.raised -> b
          [] ~b.raised /\ fault = "phase" -> Raised(b)
          [] OTHER -> [b EXCEPT !.lastPhase = a.phase, !.reported = Append(@, a.phase)]
ReportPhase(a, fault) ==
    LET b == [a EXCEPT !.lastPhase = a.phase, !.reported = Append(@, a.phase)]
    IN  CASE fault = "phase" -> Raised(b)
          [] fault # "phase" /\ b.phase \in TerminalPhases -> FireTerminal(b, b.phase, fault)
          [] OTHER -> b

\* A SessionCancel ends the session on its type, unless its phase already did.
CancelFires(a, e) ==
    e.type = "SessionCancel" /\ ~(a.projected /\ a.phase \in TerminalPhases)

\* _process_envelope
ProcessEnvelope(agent, e, fault) ==
    LET a == Projected([agent EXCEPT !.raised = FALSE], e)
        b == IF PhaseMoved(a) THEN ReportPhase(a, fault) ELSE a
    IN  CASE fault = "apply" /\ agent.projected /\ e.id \notin agent.seen -> Raised(agent)
          [] fault = "message" -> Raised(a)
          [] OTHER -> IF ~b.raised /\ CancelFires(b, e)
                      THEN FireTerminal(b, "Cancelled", fault) ELSE b

\* _process_message, for a transport that decodes envelopes upstream: the
\* projection is not fed, and the message type counts only without one.
ProcessMessage(agent, e, fault) ==
    LET a == [agent EXCEPT !.raised = FALSE]
    IN  CASE fault = "message" -> Raised(a)
          [] fault # "message" /\ PhaseMoved(a) -> ReportPhase(a, fault)
          [] fault # "message" /\ ~a.projected /\ e.type = "Commitment"
                -> FireTerminal(a, "Committed", fault)
          [] fault # "message" /\ ~a.projected /\ e.type = "SessionCancel"
                -> FireTerminal(a, "Cancelled", fault)
          [] OTHER -> a
=============================================================================
