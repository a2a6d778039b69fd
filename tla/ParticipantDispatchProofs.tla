--------------------- MODULE ParticipantDispatchProofs ---------------------
(***************************************************************************)
(* Proofs about ParticipantDispatch, for any histories, any mode, either   *)
(* transport and any number of exceptions and replays.                     *)
(*                                                                         *)
(* The argument.  lastPhase is what on_phase_change was called with last,  *)
(* or the initial phase: it is noted before the handlers run, so that an   *)
(* exception of theirs cannot undo it, and a phase is reported only when   *)
(* it differs.  on_terminal is called with a phase right after its report. *)
(* A cancel is told at a phase the session goes on from, once everything   *)
(* before it in the history is applied; from there on every envelope that  *)
(* is delivered again is one the projection has seen, up to that cancel,   *)
(* where the flag stops the loop.  A commitment is the phase for good, and *)
(* a terminal phase that was noted stopped the loop unless a handler       *)
(* raised, so an end that was handed over is heard.                        *)
(***************************************************************************)
EXTENDS ParticipantDispatch, TLAPS

Agents ==
    [projected : BOOLEAN, phase : Phases, seen : SUBSET Nat, lastPhase : Phases,
     stopped : BOOLEAN, reported : Seq(Phases), fired : Seq(TerminalPhases), raised : BOOLEAN]

LastNoted(a) ==
    IF a.reported = <<>> THEN a.lastPhase = InitPhase
    ELSE a.reported[Len(a.reported)] = a.lastPhase

Once(a) ==
    /\ \A i \in 1..Len(a.reported) - 1 : a.reported[i] # a.reported[i + 1]
    /\ a.reported # <<>> => a.reported[1] # InitPhase

WasReported(a, state) ==
    a.projected => state = "Cancelled" \/ \E j \in DOMAIN a.reported : a.reported[j] = state

Told(a) ==
    /\ LastNoted(a) /\ Once(a)
    /\ \A i \in DOMAIN a.fired : WasReported(a, a.fired[i])

Ids == {script[i].id : i \in DOMAIN script}

IInv ==
    /\ script \in Scripts /\ raw \in BOOLEAN
    /\ [raw |-> raw, projected |-> agent.projected] \in Kinds
    /\ next \in 1..Len(script) + 1 /\ fetched \in next - 1..Len(script)
    /\ faults \in Seq(Faults) /\ Len(faults) <= MaxFaults
    /\ agent \in Agents /\ agent.seen \subseteq Ids /\ Told(agent)

-----------------------------------------------------------------------------
\* What the handling of an envelope e may make of an agent a.
Envelope(e) == e.id \in Nat /\ e.phase \in Phases \cup {"same"}
Keeps(a, b) == b \in Agents /\ Told(b) /\ b.projected = a.projected

\* Applying an envelope reports nothing.
LEMMA ProjectedKeeps ==
    ASSUME NEW a \in Agents, Told(a), NEW e, Envelope(e)
    PROVE  Keeps(a, Projected(a, e)) /\ Projected(a, e).seen \subseteq a.seen \cup {e.id}
<1> DEFINE b == Projected(a, e)
<1>1. b \in Agents /\ b.seen \subseteq a.seen \cup {e.id}
  BY DEF Agents, Projected, Envelope
<1>2. /\ b.reported = a.reported /\ b.lastPhase = a.lastPhase
      /\ b.fired = a.fired /\ b.projected = a.projected
  BY DEF Agents, Projected
<1>3. Told(b)
  BY <1>2 DEF Told, LastNoted, Once, WasReported
<1> QED BY <1>1, <1>2, <1>3 DEF Keeps

LEMMA RaisedKeeps ==
    ASSUME NEW a \in Agents, Told(a), NEW flag \in BOOLEAN
    PROVE  LET b == [a EXCEPT !.raised = flag] IN Keeps(a, b) /\ b.seen = a.seen
<1> DEFINE b == [a EXCEPT !.raised = flag]
<1>1. b \in Agents /\ b.seen = a.seen
  BY DEF Agents
<1>2. /\ b.reported = a.reported /\ b.lastPhase = a.lastPhase
      /\ b.fired = a.fired /\ b.projected = a.projected
  BY DEF Agents
<1>3. Told(b)
  BY <1>2 DEF Told, LastNoted, Once, WasReported
<1> QED BY <1>1, <1>2, <1>3 DEF Keeps

\* on_terminal may be called with a state that was reported.
LEMMA FireTerminalKeeps ==
    ASSUME NEW a \in Agents, Told(a), NEW state \in TerminalPhases, NEW fault,
           WasReported(a, state)
    PROVE  LET b == FireTerminal(a, state, fault) IN Keeps(a, b) /\ b.seen = a.seen
<1> DEFINE b == FireTerminal(a, state, fault)
           c == [a EXCEPT !.fired = Append(@, state)]
<1>0. c \in Agents /\ c = [a EXCEPT !.fired = Append(a.fired, state)]
  <2>1. Append(a.fired, state) \in Seq(TerminalPhases)
    BY DEF Agents
  <2> QED BY <2>1 DEF Agents
<1>1. b \in Agents /\ b.seen = a.seen
  BY <1>0 DEF Agents, FireTerminal, Raised
<1>2. /\ b.reported = a.reported /\ b.lastPhase = a.lastPhase /\ b.projected = a.projected
      /\ b.fired = Append(a.fired, state)
  <2>1. b = [c EXCEPT !.raised = TRUE] \/ b = [c EXCEPT !.stopped = TRUE]
    BY DEF FireTerminal, Raised
  <2>2. /\ c.reported = a.reported /\ c.lastPhase = a.lastPhase /\ c.projected = a.projected
        /\ c.fired = Append(a.fired, state)
    BY DEF Agents
  <2>3. /\ b.reported = c.reported /\ b.lastPhase = c.lastPhase /\ b.projected = c.projected
        /\ b.fired = c.fired
    BY <1>0, <2>1 DEF Agents
  <2> QED BY <2>2, <2>3
<1>3. ASSUME NEW i \in DOMAIN b.fired PROVE WasReported(b, b.fired[i])
  <2>1. b.fired[i] = state \/ (i \in DOMAIN a.fired /\ b.fired[i] = a.fired[i])
    BY <1>2 DEF Agents
  <2>2. WasReported(a, b.fired[i])
    BY <2>1 DEF Told
  <2> QED BY <1>2, <2>2 DEF WasReported
<1>4. Told(b)
  BY <1>2, <1>3 DEF Told, LastNoted, Once
<1> QED BY <1>1, <1>2, <1>4 DEF Keeps

\* A phase is noted as it is reported, and only one that has moved is.
LEMMA NotedKeeps ==
    ASSUME NEW a \in Agents, Told(a), a.phase # a.lastPhase
    PROVE  LET b == [a EXCEPT !.lastPhase = a.phase, !.reported = Append(@, a.phase)]
           IN  Keeps(a, b) /\ b.seen = a.seen /\ b.phase = a.phase /\ WasReported(b, a.phase)
<1> DEFINE b == [a EXCEPT !.lastPhase = a.phase, !.reported = Append(@, a.phase)]
<1>0. Append(a.reported, a.phase) \in Seq(Phases)
  BY DEF Agents
<1>1. b \in Agents /\ b.seen = a.seen
  BY <1>0 DEF Agents
<1>2. /\ b.reported = Append(a.reported, a.phase) /\ b.lastPhase = a.phase
      /\ b.fired = a.fired /\ b.projected = a.projected /\ b.phase = a.phase
  BY DEF Agents
<1>3. a.reported \in Seq(Phases) /\ a.phase \in Phases
  BY DEF Agents
<1>4. /\ Len(b.reported) = Len(a.reported) + 1 /\ b.reported[Len(a.reported) + 1] = a.phase
      /\ \A i \in 1..Len(a.reported) : b.reported[i] = a.reported[i]
  BY <1>2, <1>3
<1>5. LastNoted(b)
  BY <1>2, <1>3, <1>4 DEF LastNoted
<1>6. Once(b)
  <2>1. ASSUME NEW i \in 1..Len(b.reported) - 1 PROVE b.reported[i] # b.reported[i + 1]
    <3>1. CASE i < Len(a.reported)
      BY <3>1, <1>3, <1>4 DEF Told, Once
    <3>2. CASE i = Len(a.reported)
      BY <3>2, <1>3, <1>4 DEF Told, LastNoted
    <3> QED BY <3>1, <3>2, <1>3, <1>4
  <2>2. b.reported[1] # InitPhase
    BY <1>3, <1>4 DEF Told, Once, LastNoted
  <2> QED BY <2>1, <2>2 DEF Once
<1>7. ASSUME NEW state, WasReported(a, state) PROVE WasReported(b, state)
  BY <1>2, <1>3, <1>4, <1>7 DEF WasReported
<1>8. Told(b)
  BY <1>2, <1>5, <1>6, <1>7 DEF Told
<1>9. WasReported(b, a.phase)
  BY <1>2, <1>3, <1>4 DEF WasReported
<1> QED BY <1>1, <1>2, <1>8, <1>9 DEF Keeps

LEMMA ReportPhaseKeeps ==
    ASSUME NEW a \in Agents, Told(a), a.phase # a.lastPhase, NEW fault
    PROVE  LET b == ReportPhase(a, fault) IN Keeps(a, b) /\ b.seen = a.seen
<1> DEFINE b == [a EXCEPT !.lastPhase = a.phase, !.reported = Append(@, a.phase)]
<1>1. Keeps(a, b) /\ b.seen = a.seen /\ b.phase = a.phase /\ WasReported(b, a.phase)
  BY NotedKeeps
<1>2. b \in Agents /\ Told(b) /\ b.projected = a.projected
  BY <1>1 DEF Keeps
<1> HIDE DEF b
<1>3. LET r == Raised(b) IN Keeps(b, r) /\ r.seen = b.seen
  BY <1>2, RaisedKeeps DEF Raised
<1>4. b.phase \in TerminalPhases =>
        LET t == FireTerminal(b, b.phase, fault) IN Keeps(b, t) /\ t.seen = b.seen
  BY <1>1, <1>2, FireTerminalKeeps
<1>5. \/ ReportPhase(a, fault) = Raised(b)
      \/ b.phase \in TerminalPhases /\ ReportPhase(a, fault) = FireTerminal(b, b.phase, fault)
      \/ ReportPhase(a, fault) = b
  <2>1. CASE fault = "phase"
    BY <2>1 DEF ReportPhase, b
  <2>2. CASE fault # "phase" /\ b.phase \in TerminalPhases
    BY <2>2 DEF ReportPhase, b
  <2>3. CASE fault # "phase" /\ b.phase \notin TerminalPhases
    BY <2>3 DEF ReportPhase, b
  <2> QED BY <2>1, <2>2, <2>3
<1> QED BY <1>1, <1>2, <1>3, <1>4, <1>5 DEF Keeps

\* _process_envelope and _process_message keep the story, wherever user code raises.
LEMMA ProcessEnvelopeKeeps ==
    ASSUME NEW a \in Agents, Told(a), NEW e, Envelope(e), NEW fault
    PROVE  LET b == ProcessEnvelope(a, e, fault)
           IN  Keeps(a, b) /\ b.seen \subseteq a.seen \cup {e.id}
<1> DEFINE calm == [a EXCEPT !.raised = FALSE]
           applied == Projected(calm, e)
           reported == IF PhaseMoved(applied) THEN ReportPhase(applied, fault) ELSE applied
           Fine(b) == Keeps(a, b) /\ b.seen \subseteq a.seen \cup {e.id}
<1>1. Keeps(a, calm) /\ calm.seen = a.seen
  BY RaisedKeeps
<1>2. Fine(applied)
  <2> HIDE DEF calm
  <2>1. calm \in Agents /\ Told(calm)
    BY <1>1 DEF Keeps
  <2>2. Keeps(calm, applied) /\ applied.seen \subseteq calm.seen \cup {e.id}
    BY <2>1, ProjectedKeeps
  <2> QED BY <1>1, <2>2 DEF Keeps
<1> HIDE DEF applied
<1>3. Fine(reported)
  <2>1. CASE PhaseMoved(applied)
    BY <1>2, <2>1, ReportPhaseKeeps DEF Keeps, PhaseMoved
  <2>2. CASE ~PhaseMoved(applied)
    BY <1>2, <2>2
  <2> QED BY <2>1, <2>2
<1> HIDE DEF reported
<1>4. Fine(Raised(a)) /\ Fine(Raised(applied))
  BY <1>2, RaisedKeeps DEF Raised, Keeps
<1>5. Fine(FireTerminal(reported, "Cancelled", fault))
  <2>1. WasReported(reported, "Cancelled") /\ "Cancelled" \in TerminalPhases
    BY DEF WasReported, TerminalPhases
  <2> QED BY <1>3, <2>1, FireTerminalKeeps DEF Keeps
<1>6. \/ ProcessEnvelope(a, e, fault) = Raised(a)
      \/ ProcessEnvelope(a, e, fault) = Raised(applied)
      \/ ProcessEnvelope(a, e, fault) = FireTerminal(reported, "Cancelled", fault)
      \/ ProcessEnvelope(a, e, fault) = reported
  BY DEF ProcessEnvelope, applied, reported
<1> QED BY <1>3, <1>4, <1>2, <1>5, <1>6

LEMMA ProcessMessageKeeps ==
    ASSUME NEW a \in Agents, Told(a), NEW e, NEW fault
    PROVE  LET b == ProcessMessage(a, e, fault) IN Keeps(a, b) /\ b.seen = a.seen
<1> DEFINE calm == [a EXCEPT !.raised = FALSE]
           Fine(b) == Keeps(a, b) /\ b.seen = a.seen
<1>1. Fine(calm)
  BY RaisedKeeps
<1>2. calm \in Agents /\ Told(calm)
  BY <1>1 DEF Keeps
<1> HIDE DEF calm
<1>3. Fine(Raised(calm))
  BY <1>1, <1>2, RaisedKeeps DEF Raised, Keeps
<1>4. PhaseMoved(calm) => Fine(ReportPhase(calm, fault))
  BY <1>1, <1>2, ReportPhaseKeeps DEF PhaseMoved, Keeps
<1>5. ~calm.projected => \A state \in TerminalPhases : Fine(FireTerminal(calm, state, fault))
  BY <1>1, <1>2, FireTerminalKeeps DEF WasReported, Keeps
<1>6. \/ ProcessMessage(a, e, fault) = Raised(calm)
      \/ PhaseMoved(calm) /\ ProcessMessage(a, e, fault) = ReportPhase(calm, fault)
      \/ /\ ~calm.projected
         /\ \E state \in {"Committed", "Cancelled"} :
                ProcessMessage(a, e, fault) = FireTerminal(calm, state, fault)
      \/ ProcessMessage(a, e, fault) = calm
  BY DEF ProcessMessage, calm
<1>7. {"Committed", "Cancelled"} \subseteq TerminalPhases
  BY DEF TerminalPhases
<1> QED BY <1>1, <1>3, <1>4, <1>5, <1>6, <1>7

-----------------------------------------------------------------------------
\* What is delivered is an envelope of the script.
LEMMA ScriptEnvelope ==
    ASSUME IInv, next <= fetched
    PROVE  /\ next \in DOMAIN script /\ Envelope(script[next]) /\ script[next].id \in Ids
<1>1. script \in Seq([id : Nat, type : STRING, phase : STRING]) /\ next \in DOMAIN script
  BY DispatchAssumption DEF IInv
<1>2. script[next].phase \in Phases \cup {"same"} /\ script[next].id \in Ids \cap Nat
  <2>1. script \in Scripts
    BY DEF IInv
  <2>2. script[next].id \in Nat
    <3> DEFINE E == [id : Nat, type : STRING, phase : STRING]
    <3>1. script \in Seq(E) /\ next \in 1..Len(script)
      BY <1>1
    <3> HIDE DEF E
    <3>2. script[next] \in E
      BY <3>1
    <3> QED BY <3>2 DEF E
  <2>3. script[next].id \in Ids
    BY <1>1 DEF Ids
  <2>4. {script[i].phase : i \in DOMAIN script} \in {{s[i].phase : i \in DOMAIN s} : s \in Scripts}
    BY <2>1
  <2>5. script[next].phase \in {script[i].phase : i \in DOMAIN script}
    BY <1>1
  <2>6. script[next].phase \in UNION {{s[i].phase : i \in DOMAIN s} : s \in Scripts}
    BY <2>4, <2>5
  <2>7. script[next].phase \in Phases \cup {"same"}
    <3> DEFINE U == UNION {{s[i].phase : i \in DOMAIN s} : s \in Scripts}
    <3>1. script[next].phase \in U
      BY ONLY <2>6
    <3>2. Phases = {InitPhase} \cup (U \ {"same"})
      BY ONLY DEF Phases
    <3> HIDE DEF U
    <3> QED BY <3>1, <3>2
  <2> QED BY <2>2, <2>3, <2>7
<1> QED BY <1>1, <1>2 DEF Envelope

LEMMA Delivered ==
    ASSUME IInv, next <= fetched, NEW fault
    PROVE  LET b == Process(script[next], fault)
           IN  Keeps(agent, b) /\ b.seen \subseteq Ids
<1>1. agent \in Agents /\ Told(agent) /\ agent.seen \subseteq Ids /\ Envelope(script[next])
      /\ script[next].id \in Ids
  BY ScriptEnvelope DEF IInv
<1> QED BY <1>1, ProcessEnvelopeKeeps, ProcessMessageKeeps DEF Process

LEMMA InitInv == Init => IInv
<1> SUFFICES ASSUME Init PROVE IInv
  OBVIOUS
<1>1. PICK kind \in Kinds : raw = kind.raw /\ agent = NewAgent(kind.projected, InitPhase)
  BY DEF Init
<1>2. kind \in [raw : BOOLEAN, projected : BOOLEAN]
  BY DispatchAssumption
<1>3. agent \in Agents /\ agent.seen = {} /\ agent.projected = kind.projected
  BY <1>1, <1>2 DEF NewAgent, Agents, Phases
<1>4. Told(agent)
  BY <1>1 DEF NewAgent, Told, LastNoted, Once
<1>5. [raw |-> raw, projected |-> agent.projected] \in Kinds
  BY <1>1, <1>2, <1>3
<1>6. script \in Scripts /\ Len(script) \in Nat /\ next = 1 /\ faults = <<>>
      /\ fetched \in {0, Len(script)}
  BY DispatchAssumption DEF Init, Subscribed
<1>7. faults \in Seq(Faults) /\ Len(faults) <= MaxFaults
  BY <1>6, DispatchAssumption
<1> QED BY <1>1, <1>2, <1>3, <1>4, <1>5, <1>6, <1>7 DEF IInv

\* The inductive invariant.
THEOREM Invariance == Spec => []IInv
<1>1. IInv /\ [Next]_vars => IInv'
  <2> SUFFICES ASSUME IInv, [Next]_vars PROVE IInv'
    OBVIOUS
  <2>0. Len(script) \in Nat /\ next \in 1..Len(script) + 1 /\ fetched \in next - 1..Len(script)
    BY DispatchAssumption DEF IInv
  <2>1. CASE Deliver
    <3>1. agent' = Process(script[next], "none") /\ next <= fetched
      BY <2>1 DEF Deliver
    <3>2. Keeps(agent, agent') /\ agent'.seen \subseteq Ids
      BY <3>1, Delivered
    <3> QED BY <2>0, <2>1, <3>1, <3>2 DEF IInv, Deliver, Keeps, Ids
  <2>2. ASSUME NEW f \in Faults \ {"poll"}, DeliverRaises(f) PROVE IInv'
    <3>1. agent' = Process(script[next], f) /\ next <= fetched
      BY <2>2 DEF DeliverRaises
    <3>2. Keeps(agent, agent') /\ agent'.seen \subseteq Ids
      BY <3>1, Delivered
    <3>3. faults' \in Seq(Faults) /\ Len(faults') <= MaxFaults
      BY <2>2, DispatchAssumption DEF IInv, DeliverRaises, Fault
    <3> QED BY <2>2, <3>2, <3>3 DEF IInv, DeliverRaises, Keeps, Ids
  <2>3. CASE Resubscribe
    <3>1. agent' = [agent EXCEPT !.raised = FALSE]
      BY <2>3 DEF Resubscribe
    <3>2. Keeps(agent, agent') /\ agent'.seen = agent.seen
      BY <3>1, RaisedKeeps DEF IInv
    <3>3. next' = 1 /\ fetched' \in {0, Len(script)}
      BY <2>3 DEF Resubscribe, Subscribed
    <3> QED BY <2>0, <2>3, <3>2, <3>3 DEF IInv, Resubscribe, Keeps, Ids
  <2>4. CASE Poll
    BY <2>0, <2>4 DEF IInv, Poll, Ids
  <2>5. CASE PollBreaks
    <3>1. next' = next /\ fetched' = next - 1
      BY <2>5 DEF PollBreaks, ResumeAt
    <3>2. faults' \in Seq(Faults) /\ Len(faults') <= MaxFaults
      BY <2>5, DispatchAssumption DEF IInv, PollBreaks, Fault
    <3> QED BY <2>0, <2>5, <3>1, <3>2 DEF IInv, PollBreaks, Ids
  <2>6. CASE UNCHANGED vars
    BY <2>6 DEF IInv, vars, Ids
  <2> QED BY <2>1, <2>2, <2>3, <2>4, <2>5, <2>6 DEF Next
<1> QED BY InitInv, <1>1, PTL DEF Spec

\* For any histories, modes and faults the participant, the poller's page and its
\* cursor stay in their types: the page never runs behind last_seq or past the history.
THEOREM TypeCorrect == Spec => []TypeOK
<1>1. IInv => TypeOK
  BY DEF IInv, TypeOK, Agents, Ids
<1> QED BY Invariance, <1>1, PTL

\* on_phase_change is called once for a phase that is reached, whatever is redelivered
\* and wherever a handler raises (_last_phase).
THEOREM ReportedOnce == Spec => []PhaseReportedOnce
<1>1. IInv => PhaseReportedOnce
  BY DEF IInv, Told, Once, PhaseReportedOnce
<1> QED BY Invariance, <1>1, PTL

-----------------------------------------------------------------------------
\* Where a session ends for a participant without phases, and as what.
End(i) == script[i].type = "SessionCancel" \/ (~raw /\ script[i].type = "Commitment")
EndName(i) == IF script[i].type = "SessionCancel" THEN "Cancelled" ELSE "Committed"

\* Over gRPC what was delivered is applied; a cancel is told at a phase the session goes
\* on from, everything before it being applied, and nothing behind it is delivered.
CancelTold == \E i \in DOMAIN agent.fired : agent.fired[i] = "Cancelled"
AppliedInv == raw /\ agent.projected => \A i \in 1..next - 1 : script[i].id \in agent.seen
CancelInv ==
    raw /\ agent.projected /\ CancelTold =>
        /\ agent.lastPhase = agent.phase /\ agent.phase \notin TerminalPhases
        /\ \E k \in DOMAIN script :
            /\ script[k].type = "SessionCancel"
            /\ \A i \in 1..k : script[i].id \in agent.seen
            /\ next <= k \/ agent.stopped

\* A poller's projection is not fed; without phases nothing passes the first end.
PollerInv == ~raw /\ agent.projected => agent.phase = agent.lastPhase /\ agent.fired = <<>>
EndInv ==
    ~agent.projected =>
        /\ ~agent.stopped => \A i \in 1..next - 1 : ~End(i)
        /\ \A j \in DOMAIN agent.fired : \E k \in DOMAIN script :
                End(k) /\ (\A i \in 1..k - 1 : ~End(i)) /\ agent.fired[j] = EndName(k)

StoryInv == AppliedInv /\ CancelInv /\ PollerInv /\ EndInv

\* What one call of _process_envelope does to the end of a session with phases.
Outcome(a, e, b) ==
    /\ a.seen \subseteq b.seen /\ (a.stopped => b.stopped)
    /\ ~b.raised => e.id \in b.seen
    /\ e.id \in a.seen => b.phase = a.phase
    /\ e.id \in a.seen /\ a.phase = a.lastPhase => b.lastPhase = a.lastPhase
    /\ e.type = "SessionCancel" /\ ~b.raised => b.phase \in TerminalPhases \/ b.stopped
    /\ \/ b.fired = a.fired
       \/ b.fired = Append(a.fired, b.phase)
       \/ /\ b.fired = Append(a.fired, "Cancelled") /\ e.type = "SessionCancel"
          /\ b.lastPhase = b.phase /\ b.phase \notin TerminalPhases /\ e.id \in b.seen
          /\ b.raised \/ b.stopped

\* on_terminal, then the stop flag unless it raised.
LEMMA Fired ==
    ASSUME NEW a \in Agents, NEW state \in TerminalPhases, NEW fault,
           NEW b, b = FireTerminal(a, state, fault)
    PROVE  /\ b \in Agents
           /\ b.fired = Append(a.fired, state) /\ b.seen = a.seen /\ b.projected = a.projected
           /\ b.phase = a.phase /\ b.lastPhase = a.lastPhase
           /\ (b.raised \/ b.stopped) /\ (a.stopped => b.stopped)
           /\ fault # "terminal" => b.raised = a.raised
<1> PICK c : c = [a EXCEPT !.fired = Append(a.fired, state)]
  OBVIOUS
<1>0. c \in Agents
  <2>1. Append(a.fired, state) \in Seq(TerminalPhases)
    BY DEF Agents
  <2> QED BY <2>1 DEF Agents
<1>1. /\ DOMAIN c = DOMAIN a /\ c.fired = Append(a.fired, state) /\ c.seen = a.seen /\ c.projected = a.projected
      /\ c.phase = a.phase /\ c.lastPhase = a.lastPhase /\ c.stopped = a.stopped /\ c.raised = a.raised
  BY DEF Agents
<1>2. DOMAIN a = {"projected", "phase", "seen", "lastPhase", "stopped", "reported", "fired", "raised"}
  BY DEF Agents
<1>3. CASE fault = "terminal"
  <2>1. b = [c EXCEPT !.raised = TRUE]
    BY <1>3 DEF FireTerminal, Raised
  <2>2. b \in Agents
    BY <1>0, <2>1 DEF Agents
  <2> QED BY <1>1, <1>2, <1>3, <2>1, <2>2
<1>4. CASE fault # "terminal"
  <2>1. b = [c EXCEPT !.stopped = TRUE]
    BY <1>4 DEF FireTerminal
  <2>2. b \in Agents
    BY <1>0, <2>1 DEF Agents
  <2> QED BY <1>1, <1>2, <1>4, <2>1, <2>2
<1> QED BY <1>3, <1>4

\* A phase that moved is noted, and ends the session if it is terminal.
LEMMA Reported ==
    ASSUME NEW a \in Agents, NEW fault, NEW b, b = ReportPhase(a, fault)
    PROVE  /\ b \in Agents
           /\ b.seen = a.seen /\ b.projected = a.projected /\ b.phase = a.phase /\ b.lastPhase = a.phase
           /\ (a.stopped => b.stopped)
           /\ b.fired = a.fired \/ b.fired = Append(a.fired, a.phase)
           /\ ~b.raised /\ b.phase \notin TerminalPhases => b.fired = a.fired
           /\ fault \notin {"phase", "terminal"} => b.raised = a.raised
<1> PICK c : c = [a EXCEPT !.lastPhase = a.phase, !.reported = Append(a.reported, a.phase)]
  OBVIOUS
<1>0. c \in Agents
  <2>1. Append(a.reported, a.phase) \in Seq(Phases)
    BY DEF Agents
  <2> QED BY <2>1 DEF Agents
<1>1. /\ DOMAIN c = DOMAIN a /\ c.fired = a.fired /\ c.seen = a.seen /\ c.projected = a.projected
      /\ c.phase = a.phase /\ c.lastPhase = a.phase /\ c.stopped = a.stopped /\ c.raised = a.raised
  BY DEF Agents
<1>2. DOMAIN a = {"projected", "phase", "seen", "lastPhase", "stopped", "reported", "fired", "raised"}
  BY DEF Agents
<1>3. CASE fault = "phase"
  <2>1. b = [c EXCEPT !.raised = TRUE]
    BY <1>3 DEF ReportPhase, Raised
  <2>2. b \in Agents
    BY <1>0, <2>1 DEF Agents
  <2> QED BY <1>1, <1>2, <1>3, <2>1, <2>2
<1>4. CASE fault # "phase" /\ c.phase \in TerminalPhases
  <2>1. b = FireTerminal(c, c.phase, fault)
    BY <1>4 DEF ReportPhase
  <2>3. /\ b \in Agents
        /\ b.fired = Append(c.fired, c.phase) /\ b.seen = c.seen /\ b.projected = c.projected
        /\ b.phase = c.phase /\ b.lastPhase = c.lastPhase
        /\ (b.raised \/ b.stopped) /\ (c.stopped => b.stopped)
        /\ fault # "terminal" => b.raised = c.raised
    <3>1. ASSUME NEW x \in Agents, NEW y \in TerminalPhases, NEW z, z = FireTerminal(x, y, fault)
          PROVE  /\ z \in Agents
                 /\ z.fired = Append(x.fired, y) /\ z.seen = x.seen /\ z.projected = x.projected
                 /\ z.phase = x.phase /\ z.lastPhase = x.lastPhase
                 /\ (z.raised \/ z.stopped) /\ (x.stopped => z.stopped)
                 /\ fault # "terminal" => z.raised = x.raised
      BY ONLY <3>1, Fired
    <3> QED BY ONLY <1>0, <1>4, <2>1, <3>1
  <2> QED BY <1>1, <1>4, <2>3
<1>5. CASE fault # "phase" /\ c.phase \notin TerminalPhases
  <2>1. b = c
    BY <1>5 DEF ReportPhase
  <2> QED BY <1>0, <1>1, <1>5, <2>1
<1> QED BY <1>3, <1>4, <1>5

\* Applying, then reporting: the first two steps of _process_envelope.
LEMMA Applied ==
    ASSUME NEW a \in Agents, a.projected, NEW e, Envelope(e), NEW b, b = Projected([a EXCEPT !.raised = FALSE], e)
    PROVE  /\ b \in Agents /\ b.projected /\ b.lastPhase = a.lastPhase /\ b.stopped = a.stopped
           /\ b.fired = a.fired /\ ~b.raised /\ b.seen = a.seen \cup {e.id}
           /\ e.id \in a.seen => b.phase = a.phase
<1> PICK c : c = [a EXCEPT !.raised = FALSE]
  OBVIOUS
<1>1. /\ c \in Agents /\ c.projected = a.projected /\ c.lastPhase = a.lastPhase /\ c.stopped = a.stopped
      /\ c.fired = a.fired /\ ~c.raised /\ c.seen = a.seen /\ c.phase = a.phase
  BY DEF Agents
<1>2. b = Projected(c, e)
  OBVIOUS
<1>3. CASE e.id \in c.seen
  <2>1. b = c
    BY <1>2, <1>3 DEF Projected
  <2> QED BY <1>1, <1>3, <2>1
<1>4. CASE e.id \notin c.seen
  <2> PICK phase \in Phases :
        b = [c EXCEPT !.seen = c.seen \cup {e.id}, !.phase = phase]
    <3>1. b = [c EXCEPT !.seen = c.seen \cup {e.id},
                        !.phase = IF e.phase = "same" \/ c.phase = "Committed" THEN c.phase ELSE e.phase]
      BY <1>1, <1>2, <1>4 DEF Projected
    <3>2. (IF e.phase = "same" \/ c.phase = "Committed" THEN c.phase ELSE e.phase) \in Phases
      BY <1>1 DEF Envelope, Agents
    <3> QED BY <3>1, <3>2
  <2>1. e.id \in Nat
    BY DEF Envelope
  <2>2. b \in Agents /\ b.seen = c.seen \cup {e.id}
    <3>1. c.seen \cup {e.id} \in SUBSET Nat
      BY <1>1, <2>1 DEF Agents
    <3> QED BY <1>1, <3>1 DEF Agents
  <2>3. /\ b.projected = c.projected /\ b.lastPhase = c.lastPhase /\ b.stopped = c.stopped
        /\ b.fired = c.fired /\ b.raised = c.raised
    BY <1>1 DEF Agents
  <2> QED BY <1>1, <1>4, <2>2, <2>3
<1> QED BY <1>3, <1>4

\* _process_envelope, wherever user code raises.
LEMMA EnvelopeOutcome ==
    ASSUME NEW a \in Agents, a.projected, NEW e, Envelope(e), NEW fault,
           NEW b, b = ProcessEnvelope(a, e, fault)
    PROVE  Outcome(a, e, b) /\ (fault = "none" => ~b.raised)
<1> PICK p : p = Projected([a EXCEPT !.raised = FALSE], e)
  OBVIOUS
<1>1. /\ p \in Agents /\ p.projected /\ p.lastPhase = a.lastPhase /\ p.stopped = a.stopped
      /\ p.fired = a.fired /\ ~p.raised /\ p.seen = a.seen \cup {e.id}
      /\ e.id \in a.seen => p.phase = a.phase
  BY Applied
<1> PICK r : r = IF PhaseMoved(p) THEN ReportPhase(p, fault) ELSE p
  OBVIOUS
<1>2. /\ r \in Agents
      /\ r.seen = p.seen /\ r.projected = p.projected /\ r.phase = p.phase /\ r.lastPhase = p.phase
      /\ (p.stopped => r.stopped)
      /\ r.fired = p.fired \/ r.fired = Append(p.fired, p.phase)
      /\ ~r.raised /\ r.phase \notin TerminalPhases => r.fired = p.fired
      /\ fault \notin {"phase", "terminal"} => r.raised = p.raised
  <2>1. CASE PhaseMoved(p)
    <3>1. ASSUME NEW x \in Agents, NEW z, z = ReportPhase(x, fault)
          PROVE  /\ z \in Agents
                 /\ z.seen = x.seen /\ z.projected = x.projected /\ z.phase = x.phase /\ z.lastPhase = x.phase
                 /\ (x.stopped => z.stopped)
                 /\ z.fired = x.fired \/ z.fired = Append(x.fired, x.phase)
                 /\ ~z.raised /\ z.phase \notin TerminalPhases => z.fired = x.fired
                 /\ fault \notin {"phase", "terminal"} => z.raised = x.raised
      BY ONLY <3>1, Reported
    <3>2. p \in Agents /\ r = ReportPhase(p, fault)
      BY <1>1, <2>1
    <3> QED BY ONLY <3>1, <3>2
  <2>2. CASE ~PhaseMoved(p)
    BY <1>1, <2>2 DEF PhaseMoved
  <2> QED BY <2>1, <2>2
<1> DEFINE Fails == fault = "apply" /\ a.projected /\ e.id \notin a.seen
<1>3. CASE Fails
  <2>1. b = [a EXCEPT !.raised = TRUE]
    BY <1>3 DEF ProcessEnvelope, Raised
  <2> QED BY <1>3, <2>1 DEF Agents, Outcome
<1>4. CASE ~Fails /\ fault = "message"
  <2>1. b = [p EXCEPT !.raised = TRUE]
    BY <1>4 DEF ProcessEnvelope, Raised
  <2>2. /\ b.raised /\ b.seen = p.seen /\ b.fired = p.fired /\ b.phase = p.phase
        /\ b.lastPhase = p.lastPhase /\ b.stopped = p.stopped
    BY <1>1, <2>1 DEF Agents
  <2> QED BY <1>1, <1>4, <2>2 DEF Outcome
<1>5. CASE ~Fails /\ fault # "message" /\ ~r.raised /\ CancelFires(r, e)
  <2>1. b = FireTerminal(r, "Cancelled", fault)
    BY <1>5 DEF ProcessEnvelope
  <2>2. /\ b.fired = Append(r.fired, "Cancelled") /\ b.seen = r.seen
        /\ b.phase = r.phase /\ b.lastPhase = r.lastPhase
        /\ (b.raised \/ b.stopped) /\ (r.stopped => b.stopped)
        /\ fault # "terminal" => b.raised = r.raised
    <3>1. ASSUME NEW x \in Agents, NEW y \in TerminalPhases, NEW z, z = FireTerminal(x, y, fault)
          PROVE  /\ z.fired = Append(x.fired, y) /\ z.seen = x.seen
                 /\ z.phase = x.phase /\ z.lastPhase = x.lastPhase
                 /\ (z.raised \/ z.stopped) /\ (x.stopped => z.stopped)
                 /\ fault # "terminal" => z.raised = x.raised
      BY ONLY <3>1, Fired
    <3>2. "Cancelled" \in TerminalPhases
      BY DEF TerminalPhases
    <3> QED BY ONLY <1>2, <2>1, <3>1, <3>2
  <2>3. e.type = "SessionCancel" /\ r.phase \notin TerminalPhases
    BY <1>1, <1>2, <1>5 DEF CancelFires
  <2>4. r.fired = a.fired
    BY <1>1, <1>2, <1>5, <2>3
  <2>5. b.phase \notin TerminalPhases /\ b.lastPhase = b.phase /\ e.id \in b.seen /\ a.seen \subseteq b.seen
    BY <1>1, <1>2, <2>2, <2>3
  <2> QED BY <1>1, <1>2, <1>5, <2>2, <2>3, <2>4, <2>5 DEF Outcome
<1>6. CASE ~Fails /\ fault # "message" /\ (r.raised \/ ~CancelFires(r, e))
  <2>1. b = r
    BY <1>6 DEF ProcessEnvelope
  <2>2. e.type = "SessionCancel" /\ ~r.raised => r.phase \in TerminalPhases
    BY <1>6 DEF CancelFires
  <2> QED BY <1>1, <1>2, <1>6, <2>1, <2>2 DEF Outcome
<1> QED BY <1>3, <1>4, <1>5, <1>6

\* The agent an envelope finds, its last exception forgotten.
LEMMA Calm ==
    ASSUME NEW a \in Agents, NEW c, c = [a EXCEPT !.raised = FALSE]
    PROVE  /\ c \in Agents /\ c.projected = a.projected /\ c.lastPhase = a.lastPhase
           /\ c.stopped = a.stopped /\ c.fired = a.fired /\ ~c.raised /\ c.seen = a.seen
           /\ c.phase = a.phase
BY DEF Agents

LEMMA RaisedOnly ==
    ASSUME NEW a \in Agents, NEW b, b = Raised(a)
    PROVE  /\ b \in Agents /\ b.projected = a.projected /\ b.lastPhase = a.lastPhase
           /\ b.stopped = a.stopped /\ b.fired = a.fired /\ b.raised /\ b.seen = a.seen
           /\ b.phase = a.phase
BY DEF Agents, Raised

\* What the handling of an envelope that is an end or not does without phases.
EndOutcome(a, b, end, name, fault) ==
    /\ fault = "none" => ~b.raised /\ (end => b.stopped)
    /\ a.stopped => b.stopped
    /\ b.fired = a.fired \/ (end /\ b.fired = Append(a.fired, name))

\* on_terminal ends a session without phases, or an exception leaves the handlers before.
LEMMA EndFires ==
    ASSUME NEW a \in Agents, NEW c \in Agents, c.stopped = a.stopped, c.fired = a.fired, ~c.raised,
           NEW end, NEW name, NEW fault, NEW b,
           \/ b = Raised(c) /\ fault # "none"
           \/ end /\ name \in TerminalPhases /\ b = FireTerminal(c, name, fault)
           \/ ~end /\ b = c
    PROVE  EndOutcome(a, b, end, name, fault)
<1>1. CASE b = Raised(c) /\ fault # "none"
  <2>1. b.stopped = c.stopped /\ b.fired = c.fired
    BY <1>1, RaisedOnly
  <2> QED BY <1>1, <2>1 DEF EndOutcome
<1>2. CASE end /\ name \in TerminalPhases /\ b = FireTerminal(c, name, fault)
  <2>1. /\ b.fired = Append(c.fired, name) /\ (b.raised \/ b.stopped) /\ (c.stopped => b.stopped)
        /\ fault # "terminal" => b.raised = c.raised
    BY <1>2, Fired
  <2> QED BY <1>2, <2>1 DEF EndOutcome
<1>3. CASE ~end /\ b = c
  BY <1>3 DEF EndOutcome
<1> QED BY <1>1, <1>2, <1>3

\* Without phases _process_envelope ends on a cancel, _process_message on a commitment too.
LEMMA EnvelopeEnds ==
    ASSUME NEW a \in Agents, ~a.projected, NEW e, NEW fault, NEW b, b = ProcessEnvelope(a, e, fault)
    PROVE  EndOutcome(a, b, e.type = "SessionCancel", "Cancelled", fault)
<1> PICK c : c = [a EXCEPT !.raised = FALSE]
  OBVIOUS
<1>1. c \in Agents /\ c.stopped = a.stopped /\ c.fired = a.fired /\ ~c.raised /\ ~c.projected
  BY Calm
<1>2. Projected(c, e) = c /\ ~PhaseMoved(c) /\ (CancelFires(c, e) <=> e.type = "SessionCancel")
  BY <1>1 DEF Projected, PhaseMoved, CancelFires
<1>3. \/ b = Raised(c) /\ fault # "none"
      \/ e.type = "SessionCancel" /\ b = FireTerminal(c, "Cancelled", fault)
      \/ e.type # "SessionCancel" /\ b = c
  BY <1>1, <1>2 DEF ProcessEnvelope
<1>4. "Cancelled" \in TerminalPhases
  BY DEF TerminalPhases
<1> QED BY <1>1, <1>3, <1>4, EndFires

LEMMA MessageEnds ==
    ASSUME NEW a \in Agents, ~a.projected, NEW e, NEW fault, NEW b, b = ProcessMessage(a, e, fault)
    PROVE  EndOutcome(a, b, e.type \in {"SessionCancel", "Commitment"},
                      IF e.type = "SessionCancel" THEN "Cancelled" ELSE "Committed", fault)
<1> PICK c : c = [a EXCEPT !.raised = FALSE]
  OBVIOUS
<1> PICK name : name = IF e.type = "SessionCancel" THEN "Cancelled" ELSE "Committed"
  OBVIOUS
<1>1. c \in Agents /\ c.stopped = a.stopped /\ c.fired = a.fired /\ ~c.raised /\ ~c.projected
  BY Calm
<1>2. ~PhaseMoved(c) /\ name \in TerminalPhases
  BY <1>1 DEF PhaseMoved, TerminalPhases
<1>3. \/ b = Raised(c) /\ fault # "none"
      \/ e.type \in {"SessionCancel", "Commitment"} /\ b = FireTerminal(c, name, fault)
      \/ e.type \notin {"SessionCancel", "Commitment"} /\ b = c
  BY <1>1, <1>2 DEF ProcessMessage
<1>4. EndOutcome(a, b, e.type \in {"SessionCancel", "Commitment"}, name, fault)
  BY <1>1, <1>2, <1>3, EndFires
<1> QED BY <1>4

\* A poller's participant with phases, whose projection nobody feeds, is told nothing.
LEMMA PolledIdle ==
    ASSUME NEW a \in Agents, a.projected, a.phase = a.lastPhase, NEW e, NEW fault,
           NEW b, b = ProcessMessage(a, e, fault)
    PROVE  b.phase = b.lastPhase /\ b.fired = a.fired
<1> PICK c : c = [a EXCEPT !.raised = FALSE]
  OBVIOUS
<1>1. c \in Agents /\ c.phase = a.phase /\ c.lastPhase = a.lastPhase /\ c.fired = a.fired /\ c.projected
  BY Calm
<1>2. b = Raised(c) \/ b = c
  BY <1>1 DEF ProcessMessage, PhaseMoved
<1>3. CASE b = Raised(c)
  BY <1>1, <1>3, RaisedOnly
<1>4. CASE b = c
  BY <1>1, <1>4
<1> QED BY <1>2, <1>3, <1>4

-----------------------------------------------------------------------------
LEMMA StoryInit == Init => StoryInv
<1> SUFFICES ASSUME Init PROVE StoryInv
  OBVIOUS
<1>1. next = 1 /\ agent.fired = <<>> /\ agent.phase = agent.lastPhase
  BY DEF Init, NewAgent
<1> QED BY <1>1 DEF StoryInv, AppliedInv, CancelInv, CancelTold, PollerInv, EndInv

\* Handing over the next message keeps the story, whether user code raises in it or not.
LEMMA StoryStep ==
    ASSUME IInv, IInv', StoryInv, Asking, next <= fetched, NEW fault, UNCHANGED <<script, raw>>,
           agent' = Process(script[next], fault),
           next' = next \/ (next' = next + 1 /\ fault = "none")
    PROVE  StoryInv'
<1> DEFINE e == script[next]
<1>1. /\ next \in 1..Len(script) /\ Len(script) \in Nat /\ DOMAIN script = 1..Len(script)
      /\ Envelope(e)
  BY ScriptEnvelope, DispatchAssumption DEF IInv
<1>2. /\ agent \in Agents /\ agent' \in Agents /\ agent'.projected = agent.projected
      /\ ~agent.stopped /\ agent.fired \in Seq(TerminalPhases) /\ raw \in BOOLEAN
  BY Delivered DEF IInv, Keeps, Asking, Agents
<1>3. CASE raw /\ agent.projected
  <2>1. Outcome(agent, e, agent') /\ (fault = "none" => ~agent'.raised)
    BY <1>1, <1>2, <1>3, EnvelopeOutcome DEF Process
  <2>2. AppliedInv'
    <3>1. \A i \in 1..next - 1 : script[i].id \in agent.seen
      BY <1>3 DEF StoryInv, AppliedInv
    <3>2. ASSUME NEW i \in 1..next' - 1 PROVE script[i].id \in agent'.seen
      BY <1>1, <2>1, <3>1, <3>2 DEF Outcome
    <3> QED BY <3>2 DEF AppliedInv
  <2>3. ASSUME CancelTold PROVE CancelInv'
    <3>1. PICK k \in DOMAIN script :
            /\ script[k].type = "SessionCancel"
            /\ \A i \in 1..k : script[i].id \in agent.seen
            /\ next <= k
      BY <1>2, <1>3, <2>3 DEF StoryInv, CancelInv
    <3>2. agent.lastPhase = agent.phase /\ agent.phase \notin TerminalPhases
      BY <1>3, <2>3 DEF StoryInv, CancelInv
    <3>3. e.id \in agent.seen
      BY <1>1, <3>1
    <3>4. agent'.phase = agent.phase /\ agent'.lastPhase = agent.phase
      BY <2>1, <3>2, <3>3 DEF Outcome
    <3>5. \A i \in 1..k : script[i].id \in agent'.seen
      BY <2>1, <3>1 DEF Outcome
    <3>6. next' <= k \/ agent'.stopped
      <4>1. CASE next' = next + 1 /\ next = k
        BY <1>1, <2>1, <3>1, <3>2, <3>4, <4>1 DEF Outcome
      <4> QED BY <1>1, <3>1, <4>1
    <3>7. script' = script
      OBVIOUS
    <3> QED BY <3>1, <3>2, <3>4, <3>5, <3>6, <3>7 DEF CancelInv
  <2>4. ASSUME ~CancelTold, CancelTold' PROVE CancelInv'
    <3>1. /\ agent'.fired = Append(agent.fired, "Cancelled") /\ e.type = "SessionCancel"
          /\ agent'.lastPhase = agent'.phase /\ agent'.phase \notin TerminalPhases
          /\ e.id \in agent'.seen /\ (agent'.raised \/ agent'.stopped)
      <4>1. agent'.phase # "Cancelled"
        BY <1>2, PhasesAssumption DEF Agents
      <4>2. agent'.fired # agent.fired
        BY <2>4 DEF CancelTold
      <4>3. agent'.fired # Append(agent.fired, agent'.phase)
        BY <1>2, <2>4, <4>1 DEF CancelTold
      <4> QED BY <2>1, <4>2, <4>3 DEF Outcome
    <3>2. \A i \in 1..next : script[i].id \in agent'.seen
      BY <1>1, <1>3, <2>1, <3>1 DEF StoryInv, AppliedInv, Outcome
    <3>3. next' <= next \/ agent'.stopped
      BY <1>1, <2>1, <3>1
    <3>4. script' = script
      OBVIOUS
    <3> QED BY <1>1, <3>1, <3>2, <3>3, <3>4 DEF CancelInv
  <2>5. CancelInv'
    BY <2>3, <2>4 DEF CancelInv
  <2> QED BY <1>2, <1>3, <2>2, <2>5 DEF StoryInv, PollerInv, EndInv
<1>4. CASE ~raw /\ agent.projected
  <2>1. agent.phase = agent.lastPhase /\ agent.fired = <<>>
    BY <1>4 DEF StoryInv, PollerInv
  <2>2. agent'.phase = agent'.lastPhase /\ agent'.fired = agent.fired
    BY <1>2, <1>4, <2>1, PolledIdle DEF Process
  <2> QED BY <1>2, <1>4, <2>1, <2>2 DEF StoryInv, AppliedInv, CancelInv, PollerInv, EndInv
<1>5. CASE ~agent.projected
  <2>1. EndOutcome(agent, agent', End(next), EndName(next), fault)
    <3>1. CASE raw
      <4>1. EndOutcome(agent, agent', e.type = "SessionCancel", "Cancelled", fault)
        BY <1>2, <1>5, <3>1, EnvelopeEnds DEF Process
      <4> QED BY <3>1, <4>1 DEF End, EndName, EndOutcome
    <3>2. CASE ~raw
      <4>1. EndOutcome(agent, agent', e.type \in {"SessionCancel", "Commitment"},
                       IF e.type = "SessionCancel" THEN "Cancelled" ELSE "Committed", fault)
        BY <1>2, <1>5, <3>2, MessageEnds DEF Process
      <4> QED BY <3>2, <4>1 DEF End, EndName, EndOutcome
    <3> QED BY <3>1, <3>2
  <2>2. \A i \in 1..next - 1 : ~End(i)
    BY <1>2, <1>5 DEF StoryInv, EndInv
  <2>3. \A i : (End(i)' <=> End(i)) /\ EndName(i)' = EndName(i)
    BY DEF End, EndName
  <2>4. ASSUME ~agent'.stopped, NEW i \in 1..next' - 1 PROVE ~End(i)
    <3>1. CASE next' = next + 1 /\ i = next
      BY <1>1, <2>1, <2>4, <3>1 DEF EndOutcome
    <3> QED BY <1>1, <2>2, <2>4, <3>1
  <2>5. ASSUME NEW j \in DOMAIN agent'.fired
        PROVE  \E k \in DOMAIN script :
                    End(k) /\ (\A i \in 1..k - 1 : ~End(i)) /\ agent'.fired[j] = EndName(k)
    <3>1. CASE j \in DOMAIN agent.fired /\ agent'.fired[j] = agent.fired[j]
      BY <1>5, <3>1 DEF StoryInv, EndInv
    <3>2. CASE End(next) /\ agent'.fired[j] = EndName(next)
      BY <1>1, <2>2, <3>2
    <3>3. \/ j \in DOMAIN agent.fired /\ agent'.fired[j] = agent.fired[j]
          \/ End(next) /\ agent'.fired[j] = EndName(next)
      BY <1>2, <2>1, <2>5 DEF EndOutcome
    <3> QED BY <3>1, <3>2, <3>3
  <2>6. EndInv'
    BY <2>3, <2>4, <2>5 DEF EndInv
  <2> QED BY <1>2, <1>5, <2>6 DEF StoryInv, AppliedInv, CancelInv, PollerInv
<1> QED BY <1>3, <1>4, <1>5, <1>2

\* The story's part of the inductive invariant.
THEOREM StoryInvariance == Spec => []StoryInv
<1>1. IInv /\ IInv' /\ StoryInv /\ [Next]_vars => StoryInv'
  <2> SUFFICES ASSUME IInv, IInv', StoryInv, [Next]_vars PROVE StoryInv'
    OBVIOUS
  <2>0. Len(script) \in Nat /\ next \in 1..Len(script) + 1 /\ raw \in BOOLEAN /\ agent \in Agents
    BY DispatchAssumption DEF IInv
  <2>1. CASE Deliver
    <3>1. /\ Asking /\ next <= fetched /\ UNCHANGED <<script, raw>>
          /\ agent' = Process(script[next], "none") /\ next' = next + 1
      BY <2>1 DEF Deliver
    <3> QED BY <3>1, StoryStep
  <2>2. ASSUME NEW f \in Faults \ {"poll"}, DeliverRaises(f) PROVE StoryInv'
    <3>1. /\ Asking /\ next <= fetched /\ UNCHANGED <<script, raw>>
          /\ agent' = Process(script[next], f) /\ next' = next
      BY <2>2 DEF DeliverRaises
    <3> QED BY <3>1, StoryStep
  <2>3. CASE Resubscribe
    <3>1. /\ agent'.projected = agent.projected /\ agent'.phase = agent.phase
          /\ agent'.lastPhase = agent.lastPhase /\ agent'.fired = agent.fired
          /\ agent'.seen = agent.seen /\ agent'.stopped = agent.stopped
      BY <2>0, <2>3, Calm DEF Resubscribe
    <3>2. next' = 1 /\ script' = script /\ raw' = raw
      BY <2>3 DEF Resubscribe
    <3> QED BY <2>0, <3>1, <3>2
            DEF StoryInv, AppliedInv, CancelInv, CancelTold, PollerInv, EndInv, End, EndName
  <2>4. CASE Poll
    BY <2>4 DEF Poll, StoryInv, AppliedInv, CancelInv, CancelTold, PollerInv, EndInv, End, EndName
  <2>5. CASE PollBreaks
    <3>1. next' = next /\ UNCHANGED <<script, agent, raw>>
      BY <2>5 DEF PollBreaks, ResumeAt
    <3> QED BY <3>1 DEF StoryInv, AppliedInv, CancelInv, CancelTold, PollerInv, EndInv, End, EndName
  <2>6. CASE UNCHANGED vars
    BY <2>6 DEF vars, StoryInv, AppliedInv, CancelInv, CancelTold, PollerInv, EndInv, End, EndName
  <2> QED BY <2>1, <2>2, <2>3, <2>4, <2>5, <2>6 DEF Next
<1> QED BY Invariance, StoryInit, <1>1, PTL DEF Spec

\* on_terminal and on_phase_change tell one story: a phase the session ends in was
\* reported first, a cancel is told at a phase the session goes on from, and without
\* phases one end is told, the history's first.
THEOREM TerminalFollowsReport == Spec => []TerminalWasReported
<1>1. IInv /\ StoryInv => TerminalWasReported
  <2> SUFFICES ASSUME IInv, StoryInv PROVE TerminalWasReported
    OBVIOUS
  <2>0. Len(script) \in Nat /\ DOMAIN script = 1..Len(script) /\ raw \in BOOLEAN /\ agent \in Agents
    BY DispatchAssumption DEF IInv
  <2>1. CASE agent.projected
    <3>1. ASSUME NEW i \in DOMAIN agent.fired
          PROVE  agent.fired[i] = "Cancelled" \/ \E j \in DOMAIN agent.reported :
                                                    agent.reported[j] = agent.fired[i]
      BY <2>1 DEF IInv, Told, WasReported
    <3>2. CancelTold => agent.lastPhase \notin TerminalPhases
      BY <2>0, <2>1 DEF StoryInv, CancelInv, PollerInv, CancelTold
    <3> QED BY <2>1, <3>1, <3>2 DEF TerminalWasReported, CancelTold
  <2>2. CASE ~agent.projected
    <3>1. ASSUME NEW i \in DOMAIN agent.fired, NEW j \in DOMAIN agent.fired
          PROVE  agent.fired[i] = agent.fired[j]
      <4>1. PICK k \in DOMAIN script :
              End(k) /\ (\A m \in 1..k - 1 : ~End(m)) /\ agent.fired[i] = EndName(k)
        BY <2>2 DEF StoryInv, EndInv
      <4>2. PICK l \in DOMAIN script :
              End(l) /\ (\A m \in 1..l - 1 : ~End(m)) /\ agent.fired[j] = EndName(l)
        BY <2>2 DEF StoryInv, EndInv
      <4>3. k = l
        BY <2>0, <4>1, <4>2
      <4> QED BY <4>1, <4>2, <4>3
    <3> QED BY <2>2, <3>1 DEF TerminalWasReported
  <2> QED BY <2>0, <2>1, <2>2 DEF Agents
<1> QED BY Invariance, StoryInvariance, <1>1, PTL

-----------------------------------------------------------------------------
\* A terminal phase, once noted, ended the participant, or its handler raised; a
\* commitment that was applied is the phase for good; what was delivered is reported.
Committing ==
    \A i \in DOMAIN script :
        script[i].type = "Commitment" /\ script[i].id \in agent.seen => agent.phase = "Committed"
HeardInv ==
    raw /\ agent.projected =>
        /\ Committing
        /\ agent.lastPhase \in TerminalPhases => agent.stopped \/ Lost
        /\ agent.raised \/ next = 1 \/ agent.phase = agent.lastPhase

\* Whom an end was handed to has stopped, unless the handler that would have stopped it
\* raised: the safety half of EventuallyStopped.
EndHeard == (\E i \in 1..next - 1 : EndsAt(i)) => agent.stopped \/ Lost

\* What one call of _process_envelope does to the phase and what was noted of it.
Hearing(a, e, fault, b) ==
    /\ b.lastPhase = a.lastPhase \/ b.lastPhase = b.phase
    /\ b.lastPhase # a.lastPhase /\ b.lastPhase \in TerminalPhases =>
            b.stopped \/ fault \in {"phase", "terminal"}
    /\ ~b.raised => b.phase = b.lastPhase
    /\ b.seen \subseteq a.seen \cup {e.id}
    /\ a.phase = "Committed" => b.phase = "Committed"
    /\ e.phase = "Committed" /\ e.id \in b.seen /\ e.id \notin a.seen => b.phase = "Committed"

\* Applying moves the phase unless it is Committed.
LEMMA AppliedPhase ==
    ASSUME NEW a \in Agents, a.projected, NEW e, Envelope(e), NEW b, b = Projected([a EXCEPT !.raised = FALSE], e)
    PROVE  /\ a.phase = "Committed" => b.phase = "Committed"
           /\ e.phase = "Committed" /\ e.id \notin a.seen => b.phase = "Committed"
<1> PICK c : c = [a EXCEPT !.raised = FALSE]
  OBVIOUS
<1>1. c \in Agents /\ c.projected /\ c.seen = a.seen /\ c.phase = a.phase
  BY DEF Agents
<1>2. CASE e.id \in c.seen
  <2>1. b = c
    BY <1>2 DEF Projected
  <2> QED BY <1>1, <1>2, <2>1
<1>3. CASE e.id \notin c.seen
  <2>1. b = [c EXCEPT !.seen = c.seen \cup {e.id},
                      !.phase = IF e.phase = "same" \/ c.phase = "Committed" THEN c.phase ELSE e.phase]
    BY <1>1, <1>3 DEF Projected
  <2>2. b.phase = IF e.phase = "same" \/ c.phase = "Committed" THEN c.phase ELSE e.phase
    BY <1>1, <2>1 DEF Agents
  <2> QED BY <1>1, <2>2
<1> QED BY <1>2, <1>3

\* A terminal phase ends the session unless a handler raises.
LEMMA ReportedEnds ==
    ASSUME NEW a \in Agents, a.phase \in TerminalPhases, NEW fault, fault \notin {"phase", "terminal"},
           NEW b, b = ReportPhase(a, fault)
    PROVE  b.stopped
<1> PICK c : c = [a EXCEPT !.lastPhase = a.phase, !.reported = Append(a.reported, a.phase)]
  OBVIOUS
<1>1. b = FireTerminal(c, c.phase, fault)
  BY DEF ReportPhase, Agents
<1>2. b = [[c EXCEPT !.fired = Append(c.fired, c.phase)] EXCEPT !.stopped = TRUE]
  BY <1>1 DEF FireTerminal
<1>3. DOMAIN a = {"projected", "phase", "seen", "lastPhase", "stopped", "reported", "fired", "raised"}
  BY DEF Agents
<1> QED BY <1>2, <1>3

LEMMA EnvelopeHeard ==
    ASSUME NEW a \in Agents, a.projected, NEW e, Envelope(e), NEW fault,
           NEW b, b = ProcessEnvelope(a, e, fault)
    PROVE  Hearing(a, e, fault, b)
<1> PICK p : p = Projected([a EXCEPT !.raised = FALSE], e)
  OBVIOUS
<1>1. /\ p \in Agents /\ p.projected /\ p.lastPhase = a.lastPhase /\ p.stopped = a.stopped
      /\ ~p.raised /\ p.seen = a.seen \cup {e.id}
      /\ a.phase = "Committed" => p.phase = "Committed"
      /\ e.phase = "Committed" /\ e.id \notin a.seen => p.phase = "Committed"
  BY Applied, AppliedPhase
<1> PICK r : r = IF PhaseMoved(p) THEN ReportPhase(p, fault) ELSE p
  OBVIOUS
<1>2. /\ r \in Agents /\ r.seen = p.seen /\ r.phase = p.phase /\ r.lastPhase = p.phase
      /\ p.phase # p.lastPhase /\ p.phase \in TerminalPhases => r.stopped \/ fault \in {"phase", "terminal"}
  <2>1. CASE PhaseMoved(p)
    <3>1. r = ReportPhase(p, fault)
      BY <2>1
    <3>2. r \in Agents /\ r.seen = p.seen /\ r.phase = p.phase /\ r.lastPhase = p.phase
      BY <1>1, <3>1, Reported
    <3>3. p.phase \in TerminalPhases => r.stopped \/ fault \in {"phase", "terminal"}
      BY <1>1, <3>1, ReportedEnds
    <3> QED BY <3>2, <3>3
  <2>2. CASE ~PhaseMoved(p)
    BY <1>1, <2>2 DEF PhaseMoved
  <2> QED BY <2>1, <2>2
<1> DEFINE Fails == fault = "apply" /\ a.projected /\ e.id \notin a.seen
<1>3. CASE Fails
  <2>1. b = Raised(a)
    BY <1>3 DEF ProcessEnvelope
  <2>2. b.raised /\ b.seen = a.seen /\ b.phase = a.phase /\ b.lastPhase = a.lastPhase
    BY <2>1, RaisedOnly
  <2> QED BY <1>3, <2>2 DEF Hearing
<1>4. CASE ~Fails /\ fault = "message"
  <2>1. b = Raised(p)
    BY <1>4 DEF ProcessEnvelope
  <2>2. b.raised /\ b.seen = p.seen /\ b.phase = p.phase /\ b.lastPhase = p.lastPhase
    BY <1>1, <2>1, RaisedOnly
  <2> QED BY <1>1, <2>2 DEF Hearing
<1>5. CASE ~Fails /\ fault # "message" /\ ~r.raised /\ CancelFires(r, e)
  <2>1. b = FireTerminal(r, "Cancelled", fault) /\ "Cancelled" \in TerminalPhases
    BY <1>5 DEF ProcessEnvelope, TerminalPhases
  <2>2. /\ b.seen = r.seen /\ b.phase = r.phase /\ b.lastPhase = r.lastPhase /\ (r.stopped => b.stopped)
    BY <1>2, <2>1, Fired
  <2> QED BY <1>1, <1>2, <2>2 DEF Hearing
<1>6. CASE ~Fails /\ fault # "message" /\ (r.raised \/ ~CancelFires(r, e))
  <2>1. b = r
    BY <1>6 DEF ProcessEnvelope
  <2> QED BY <1>1, <1>2, <2>1 DEF Hearing
<1> QED BY <1>3, <1>4, <1>5, <1>6

\* A fault is remembered.
LEMMA LostStays ==
    ASSUME IInv, NEW f
    PROVE  /\ (Fault(f) \/ faults' = faults) /\ Lost => Lost'
           /\ Fault(f) /\ f \in {"phase", "terminal"} => Lost'
<1>1. faults \in Seq(Faults)
  BY DEF IInv
<1>2. ASSUME Fault(f)
      PROVE  /\ f \in Faults /\ faults' = Append(faults, f)
  BY <1>2 DEF Fault
<1>3. ASSUME Fault(f)
      PROVE  /\ \A i \in DOMAIN faults : i \in DOMAIN faults' /\ faults'[i] = faults[i]
             /\ Len(faults) + 1 \in DOMAIN faults' /\ faults'[Len(faults) + 1] = f
  BY <1>1, <1>2, <1>3
<1> QED BY <1>3 DEF Lost

\* Handing over the next message, whether user code raises in it or not.
LEMMA HeardStep ==
    ASSUME CommitmentsEnd, IInv, IInv', StoryInv, StoryInv', HeardInv, EndHeard, Asking, next <= fetched,
           NEW fault, UNCHANGED <<script, raw>>, agent' = Process(script[next], fault),
           \/ fault = "none" /\ next' = next + 1 /\ UNCHANGED faults
           \/ Fault(fault) /\ next' = next /\ agent'.raised
    PROVE  HeardInv' /\ EndHeard'
<1> DEFINE e == script[next]
<1>1. /\ next \in 1..Len(script) /\ Len(script) \in Nat /\ DOMAIN script = 1..Len(script)
      /\ Envelope(e)
  BY ScriptEnvelope, DispatchAssumption DEF IInv
<1>2. /\ agent \in Agents /\ agent' \in Agents /\ agent'.projected = agent.projected
      /\ ~agent.stopped /\ raw \in BOOLEAN
  BY Delivered DEF IInv, Keeps, Asking, Agents
<1>3. /\ Lost => Lost'
      /\ fault \in {"phase", "terminal"} => Lost'
  BY LostStays
<1>4. /\ \A i, j \in DOMAIN script : script[i].id = script[j].id => i = j
      /\ \A i \in DOMAIN script : script[i].type = "Commitment" => script[i].phase = "Committed"
  BY DEF CommitmentsEnd, IInv
<1>5. HeardInv'
  <2> SUFFICES ASSUME raw, agent.projected
               PROVE  /\ Committing'
                      /\ agent'.lastPhase \in TerminalPhases => agent'.stopped \/ Lost'
                      /\ agent'.raised \/ next' = 1 \/ agent'.phase = agent'.lastPhase
    BY <1>2 DEF HeardInv
  <2>1. Hearing(agent, e, fault, agent')
    BY <1>1, <1>2, EnvelopeHeard DEF Process
  <2>2. Committing'
    <3> SUFFICES ASSUME NEW i \in DOMAIN script, script[i].type = "Commitment", script[i].id \in agent'.seen
                 PROVE  agent'.phase = "Committed"
      BY DEF Committing
    <3>1. CASE script[i].id \in agent.seen
      BY <2>1, <3>1 DEF HeardInv, Committing, Hearing
    <3>2. CASE script[i].id \notin agent.seen
      <4>1. i = next
        BY <1>1, <1>4, <2>1, <3>2 DEF Hearing
      <4> QED BY <1>4, <2>1, <3>2, <4>1 DEF Hearing
    <3> QED BY <3>1, <3>2
  <2>3. agent'.lastPhase \in TerminalPhases => agent'.stopped \/ Lost'
    BY <1>2, <1>3, <2>1 DEF HeardInv, Hearing
  <2>4. agent'.raised \/ agent'.phase = agent'.lastPhase
    BY <2>1 DEF Hearing
  <2> QED BY <2>2, <2>3, <2>4
<1>6. EndHeard'
  <2>1. \A i : EndsAt(i)' <=> EndsAt(i)
    BY <1>2 DEF EndsAt
  <2>2. ASSUME NEW i \in 1..next - 1, EndsAt(i) PROVE agent'.stopped \/ Lost'
    BY <1>2, <1>3, <2>2 DEF EndHeard
  <2>3. ASSUME fault = "none", EndsAt(next) PROVE agent'.stopped \/ Lost'
    <3>1. CASE raw /\ agent.projected
      <4>1. Outcome(agent, e, agent') /\ ~agent'.raised
        BY <1>1, <1>2, <2>3, <3>1, EnvelopeOutcome DEF Process
      <4>2. Hearing(agent, e, fault, agent')
        BY <1>1, <1>2, <3>1, EnvelopeHeard DEF Process
      <4>3. agent'.phase = agent'.lastPhase /\ e.id \in agent'.seen
        BY <4>1, <4>2 DEF Hearing, Outcome
      <4>4. agent'.lastPhase \in TerminalPhases => agent'.stopped \/ Lost'
        BY <1>2, <1>5, <3>1 DEF HeardInv
      <4>5. CASE e.type = "SessionCancel"
        BY <4>1, <4>3, <4>4, <4>5 DEF Outcome
      <4>6. CASE e.type = "Commitment"
        <5>1. script' = script /\ Committing'
          BY <1>2, <1>5, <3>1 DEF HeardInv
        <5>2. agent'.phase = "Committed"
          BY <1>1, <4>3, <4>6, <5>1 DEF Committing
        <5>3. "Committed" \in TerminalPhases
          BY DEF TerminalPhases
        <5> QED BY <4>3, <4>4, <5>2, <5>3
      <4> QED BY <2>3, <4>5, <4>6 DEF EndsAt
    <3>2. CASE ~raw /\ agent.projected
      BY <2>3, <3>2 DEF EndsAt
    <3>3. CASE ~agent.projected
      <4>1. End(next) /\ ~agent'.projected
        BY <1>2, <2>3, <3>3 DEF EndsAt, End
      <4>2. agent'.stopped \/ \A i \in 1..next' - 1 : ~End(i)'
        BY <4>1 DEF StoryInv, EndInv
      <4>3. next' = next + 1
        BY <2>3, DispatchAssumption DEF Fault
      <4>4. \A i : End(i)' <=> End(i)
        BY DEF End
      <4>5. next \in 1..next' - 1
        BY <1>1, <4>3
      <4> QED BY <4>1, <4>2, <4>4, <4>5
    <3> QED BY <1>2, <3>1, <3>2, <3>3
  <2>4. SUFFICES ASSUME NEW i \in 1..next' - 1, EndsAt(i) PROVE agent'.stopped \/ Lost'
    BY <2>1 DEF EndHeard
  <2>5. CASE i \in 1..next - 1
    BY <2>2, <2>4, <2>5
  <2>6. CASE i \notin 1..next - 1
    <3>1. i = next /\ fault = "none"
      BY <1>1, <2>4, <2>6
    <3> QED BY <2>3, <2>4, <3>1
  <2> QED BY <2>5, <2>6
<1> QED BY <1>5, <1>6

\* Any history, transport and mode, any exceptions and replays: an end that was handed
\* over is heard (_process_envelope, _process_message), if histories are such as a session has.
THEOREM EndIsHeard == ASSUME CommitmentsEnd PROVE Spec => []EndHeard
<1>1. Init => HeardInv /\ EndHeard
  <2> SUFFICES ASSUME Init PROVE HeardInv /\ EndHeard
    OBVIOUS
  <2>1. next = 1 /\ agent.seen = {} /\ agent.lastPhase = InitPhase
    BY DEF Init, NewAgent
  <2>2. InitPhase \notin TerminalPhases
    BY DEF CommitmentsEnd
  <2> QED BY <2>1, <2>2 DEF HeardInv, Committing, EndHeard
<1>2. IInv /\ IInv' /\ StoryInv /\ StoryInv' /\ HeardInv /\ EndHeard /\ [Next]_vars => HeardInv' /\ EndHeard'
  <2> SUFFICES ASSUME IInv, IInv', StoryInv, StoryInv', HeardInv, EndHeard, [Next]_vars
               PROVE  HeardInv' /\ EndHeard'
    OBVIOUS
  <2>1. CASE Deliver
    <3>1. /\ Asking /\ next <= fetched /\ UNCHANGED <<script, raw>>
          /\ agent' = Process(script[next], "none") /\ next' = next + 1 /\ UNCHANGED faults
      BY <2>1 DEF Deliver
    <3> QED BY <3>1, HeardStep
  <2>2. ASSUME NEW f \in Faults \ {"poll"}, DeliverRaises(f) PROVE HeardInv' /\ EndHeard'
    <3>1. /\ Asking /\ next <= fetched /\ UNCHANGED <<script, raw>> /\ Fault(f)
          /\ agent' = Process(script[next], f) /\ next' = next /\ agent'.raised
      BY <2>2 DEF DeliverRaises
    <3> QED BY <3>1, HeardStep
  <2>3. CASE Resubscribe
    <3>1. agent \in Agents
      BY DEF IInv
    <3>2. /\ agent'.projected = agent.projected /\ agent'.phase = agent.phase /\ agent'.seen = agent.seen
          /\ agent'.lastPhase = agent.lastPhase /\ agent'.stopped = agent.stopped
      BY <2>3, <3>1, Calm DEF Resubscribe
    <3>3. next' = 1 /\ UNCHANGED <<script, raw, faults>>
      BY <2>3 DEF Resubscribe
    <3> QED BY <3>2, <3>3 DEF HeardInv, Committing, EndHeard, Lost
  <2>4. CASE Poll
    BY <2>4 DEF Poll, HeardInv, Committing, EndHeard, EndsAt, Lost
  <2>5. CASE PollBreaks
    <3>1. next' = next /\ UNCHANGED <<script, agent, raw>> /\ Fault("poll")
      BY <2>5 DEF PollBreaks, ResumeAt
    <3>2. Lost => Lost'
      BY <3>1, LostStays
    <3> QED BY <3>1, <3>2 DEF HeardInv, Committing, EndHeard, EndsAt
  <2>6. CASE UNCHANGED vars
    BY <2>6 DEF vars, HeardInv, Committing, EndHeard, EndsAt, Lost
  <2> QED BY <2>1, <2>2, <2>3, <2>4, <2>5, <2>6 DEF Next
<1> QED BY <1>1, <1>2, Invariance, StoryInvariance, PTL DEF Spec
=============================================================================
