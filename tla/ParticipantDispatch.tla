------------------------ MODULE ParticipantDispatch ------------------------
(***************************************************************************)
(* One Participant fed a session's accepted history, in order: over gRPC,  *)
(* whose stream replays and follows it, or by HttpTransportAdapter, which  *)
(* polls for the events after last_seq and yields a page of them one by    *)
(* one; whatever breaks a poll, the rest of its page is fetched again.     *)
(* User handlers raise at the points Faults allows; an exception leaves    *)
(* the loop, and a supervisor replays the history from the start to the    *)
(* same participant.                                                       *)
(***************************************************************************)
EXTENDS Dispatch

CONSTANTS
    Scripts,           \* accepted histories, sequences of [id, type, phase]
    InitPhase,         \* the projection's initial phase
    Kinds,             \* participants: [raw, projected]; raw is the gRPC transport's
                       \* envelopes, projected a mode with a projection
    Faults,            \* where user code may raise, and "poll" may break
    MaxFaults          \* bound on raising handlers and broken polls

ASSUME DispatchAssumption ==
    /\ Scripts \subseteq Seq([id : Nat, type : STRING, phase : STRING]) /\ InitPhase \in STRING
    /\ Kinds \subseteq [raw : BOOLEAN, projected : BOOLEAN] /\ MaxFaults \in Nat
    /\ Faults \subseteq {"apply", "message", "phase", "terminal", "poll"}

VARIABLES
    script,            \* the session's history
    agent,             \* the participant
    raw,               \* does its transport hand over raw envelopes
    next,              \* index of the next envelope to deliver: last_seq + 1
    fetched,           \* index of the last one the transport has in hand
    faults             \* where user code raised or a poll broke so far

vars == <<script, agent, raw, next, fetched, faults>>

\* A subscribed stream holds the whole history, a new poller nothing.
Subscribed == IF raw THEN Len(script) ELSE 0

Init ==
    /\ script \in Scripts
    /\ \E kind \in Kinds : raw = kind.raw /\ agent = NewAgent(kind.projected, InitPhase)
    /\ next = 1 /\ fetched = Subscribed
    /\ faults = <<>>

Process(e, fault) ==
    IF raw THEN ProcessEnvelope(agent, e, fault) ELSE ProcessMessage(agent, e, fault)

\* The loop asks the transport for a message: stop is checked before and after each.
Asking == ~agent.stopped /\ ~agent.raised

Fault(kind) == kind \in Faults /\ Len(faults) < MaxFaults /\ faults' = Append(faults, kind)

\* One GET answers with a page of the events after last_seq, of any length.
Poll ==
    /\ ~raw /\ Asking /\ fetched < next
    /\ fetched' \in next..Len(script)
    /\ UNCHANGED <<script, agent, raw, next, faults>>

\* last_seq + 1 after a broken page: last_seq moved with each event, when it was yielded.
ResumeAt_PageEnd(at, last) == last + 1
ResumeAt(at, last) == at

\* An event of the page is no event: the loop swallows the exception, forgets the rest
\* of the page, and polls again after last_seq.
PollBreaks ==
    /\ ~raw /\ Asking /\ next <= fetched /\ Fault("poll")
    /\ next' = ResumeAt(next, fetched) /\ fetched' = next' - 1
    /\ UNCHANGED <<script, agent, raw>>

\* The next message is handed over; last_seq has moved before the loop sees it.
Deliver ==
    /\ Asking /\ next <= fetched
    /\ agent' = Process(script[next], "none")
    /\ next' = next + 1
    /\ UNCHANGED <<script, raw, fetched, faults>>

\* ... and user code raises: the exception leaves the loop.
DeliverRaises(fault) ==
    /\ Asking /\ next <= fetched /\ Fault(fault)
    /\ agent' = Process(script[next], fault)
    /\ agent'.raised
    /\ UNCHANGED <<script, raw, next, fetched>>

\* A supervisor catches it and feeds the same participant from the start again, over
\* a new transport.
Resubscribe ==
    /\ agent.raised
    /\ agent' = [agent EXCEPT !.raised = FALSE]
    /\ next' = 1 /\ fetched' = Subscribed
    /\ UNCHANGED <<script, raw, faults>>

Next == Deliver \/ (\E f \in Faults \ {"poll"} : DeliverRaises(f)) \/ Resubscribe \/ Poll
        \/ PollBreaks

\* The endpoint answers in the end with what it has; nobody owes a fault.
Spec ==
    /\ Init /\ [][Next]_vars
    /\ WF_vars(Deliver) /\ WF_vars(Resubscribe) /\ WF_vars(Poll)

-----------------------------------------------------------------------------
Phases == {InitPhase} \cup ((UNION {{s[i].phase : i \in DOMAIN s} : s \in Scripts}) \ {"same"})

\* No projection has a phase of the name a cancelled session ends with.
ASSUME PhasesAssumption == "Cancelled" \notin Phases

TypeOK ==
    /\ script \in Scripts
    /\ next \in 1..Len(script) + 1 /\ fetched \in next - 1..Len(script)
    /\ faults \in Seq(Faults) /\ Len(faults) <= MaxFaults
    /\ [raw |-> raw, projected |-> agent.projected] \in Kinds
    /\ agent.stopped \in BOOLEAN /\ agent.raised \in BOOLEAN
    /\ agent.phase \in Phases /\ agent.lastPhase \in Phases
    /\ agent.reported \in Seq(Phases) /\ agent.fired \in Seq(TerminalPhases)
    /\ agent.seen \subseteq {script[i].id : i \in DOMAIN script}

\* A phase is reported when it changes and never again, however often the
\* envelope that caused it is redelivered (_last_phase).
PhaseReportedOnce ==
    /\ \A i \in 1..Len(agent.reported) - 1 : agent.reported[i] # agent.reported[i + 1]
    /\ agent.reported # <<>> => agent.reported[1] # InitPhase

\* What on_terminal is called with was reported to on_phase_change first, or is a
\* cancel: the two callbacks tell one story.  A participant told of a cancel was last told
\* of a phase the session goes on from, even if the handler of a terminal one raised (the
\* fallback of _process_envelope); without phases there is one end, though it may be told
\* again when its handler raised.
TerminalWasReported ==
    LET cancelled == \E i \in DOMAIN agent.fired : agent.fired[i] = "Cancelled"
    IN  IF agent.projected
        THEN /\ \A i \in DOMAIN agent.fired :
                    agent.fired[i] = "Cancelled" \/ \E j \in DOMAIN agent.reported :
                                                        agent.reported[j] = agent.fired[i]
             /\ cancelled => agent.lastPhase \notin TerminalPhases
        ELSE \A i, j \in DOMAIN agent.fired : agent.fired[i] = agent.fired[j]

\* A session that ends stops its participant in the end, whatever handlers of messages
\* raised and polls broke on the way, as long as no handler of a phase or of the end
\* itself raised.
Lost == \E i \in DOMAIN faults : faults[i] \in {"phase", "terminal"}
EndsAt(i) ==
    \/ script[i].type = "SessionCancel" /\ (raw \/ ~agent.projected)
    \/ script[i].type = "Commitment" /\ (raw <=> agent.projected)
Ends == \E i \in DOMAIN script : EndsAt(i)

EventuallyStopped == Ends ~> agent.stopped \/ Lost

\* What accepted history and every projection owe it: no id is used twice, a Commitment
\* commits, and no mode begins in a phase that ends the session.
CommitmentsEnd ==
    /\ InitPhase \notin TerminalPhases
    /\ \A s \in Scripts :
        /\ \A i, j \in DOMAIN s : s[i].id = s[j].id => i = j
        /\ \A i \in DOMAIN s : s[i].type = "Commitment" => s[i].phase = "Committed"
=============================================================================
