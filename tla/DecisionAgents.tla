--------------------------- MODULE DecisionAgents ---------------------------
(***************************************************************************)
(* A Decision session whose participants run the built-in strategies of    *)
(* agent/strategies.py: an evaluation handler on Proposal, majority_voter  *)
(* on Evaluation, majority_committer on Vote.  Each agent is a thread that *)
(* follows the session's accepted history at its own pace, applies one     *)
(* envelope to its own projection, and may send one of its own from the    *)
(* handler, which the runtime takes or refuses against a history that has  *)
(* moved on.  A refusal raises in the handler and ends the agent's run().  *)
(***************************************************************************)
EXTENDS DecisionProjection, DecisionRuntime, Validation

CONSTANTS
    Agents,
    Initiator,         \* the agent that starts the session
    Wirings,           \* how the agents of an instance are set up
    NoId               \* the empty message_id

None == "none"                 \* Python's None
Nothing == [type |-> None]     \* a handler sends nothing
DefaultPolicy == "policy.default"
DecisionMode == "decision"

\* Every proposal that may be made has an opinion, and an opinion is a recommendation in
\* some spelling: validate_recommendation raises on any other.
ASSUME AgentsAssumption ==
    /\ Initiator \in Agents
    /\ \A w \in Wirings :
        /\ \A p \in DOMAIN w.opinion : Upper(w.opinion[p]) \in Recommendations
        /\ w.boot.kickoff \in {None} \cup DOMAIN w.opinion

VARIABLES
    wiring,            \* who does what in this session
    log,               \* the session's accepted history
    bound,             \* the policy it is bound to, None before SessionStart
    proj,              \* each agent's projection
    status,            \* where its run() is
    out                \* the envelope its handler is sending

vars == <<wiring, log, bound, proj, status, out>>

INSTANCE BaseProjection
    WITH Mode <- DecisionMode, ParsedTypes <- DecisionParsed, ModeStep <- DecisionStep

\* from_bootstrap: the session's policy is the one session_start names, or the
\* participant's; InitiatorConfig carries it and the kickoff.
StrOr(value, fallback) == IF value # None THEN value ELSE IF fallback = "" THEN None ELSE fallback
InitiatorConfig(boot) ==
    [policy |-> StrOr(boot.start_policy, boot.policy), kickoff |-> boot.kickoff]

-----------------------------------------------------------------------------
\* ParticipantActions: the envelopes, in the name of the participant.
Envelope(a, type, subject, value, flag, policy) ==
    [id |-> <<a, type, subject>>, mode |-> DecisionMode, type |-> type, sender |-> a,
     subject |-> subject, value |-> value, flag |-> flag, policy |-> policy, ok |-> TRUE]

StartSession(config) == IF config.policy \in {None, ""} THEN DefaultPolicy ELSE config.policy
Propose(a, p) == Envelope(a, "Proposal", p, "decide", FALSE, "")
Evaluate_Verbatim(a, p, recommendation) == Envelope(a, "Evaluation", p, recommendation, FALSE, "")
Evaluate(a, p, recommendation) == Envelope(a, "Evaluation", p, Upper(recommendation), FALSE, "")
Vote(a, p, vote) == Envelope(a, "Vote", p, Upper(vote), FALSE, "")
\* It has no policy to echo: the default is all it sends.
Commit(a, action, positive) == Envelope(a, "Commitment", "c", action, positive, DefaultPolicy)

-----------------------------------------------------------------------------
\* majority_voter: the evaluations of the proposal evaluated last, REVIEW aside.
Qualifying(v) ==
    LET latest == v.evaluations[Len(v.evaluations)].subject
    IN  SelectSeq(QualifyingEvaluations(v), LAMBDA e : e.subject = latest)

ShouldVote(v) == v.evaluations # <<>> /\ Qualifying(v) # <<>>
DecideVote_FromVotes(v) ==
    IF v.evaluations[Len(v.evaluations)].subject \in MajorityWinner(v) THEN "APPROVE" ELSE "ABSTAIN"
DecideVote(v) ==
    LET approvals == Len(SelectSeq(Qualifying(v), LAMBDA e : e.value = "APPROVE"))
    IN  IF wiring.threshold.den * approvals >= wiring.threshold.num * Len(Qualifying(v))
        THEN "APPROVE" ELSE "ABSTAIN"

\* majority_committer: the bar is on the winner's own votes.
ShouldCommit_OverAll(v) ==
    /\ MajorityWinner(v) # {}
    /\ Cardinality(UNION {Approvals(v, p) : p \in DOMAIN VoteTotals(v)}) >= wiring.quorum
ShouldCommit(v) == \E p \in MajorityWinner(v) : VoteTotals(v)[p] >= wiring.quorum

\* The three handlers, each silent on the others' messages.
EvaluationHandler(a, e) ==
    IF a \notin wiring.evaluators THEN Nothing ELSE Evaluate(a, e.subject, wiring.opinion[e.subject])
VotingHandler(a, v, e) == IF ShouldVote(v) THEN Vote(a, e.subject, DecideVote(v)) ELSE Nothing
CommitmentHandler(a, v) ==
    IF ShouldCommit(v) THEN Commit(a, wiring.action, InferOutcomePositive(wiring.action)) ELSE Nothing

Reaction(a, v, e) ==
    CASE e.type = "Proposal" -> EvaluationHandler(a, e)
      [] e.type = "Evaluation" -> VotingHandler(a, v, e)
      [] e.type = "Vote" -> CommitmentHandler(a, v)
      [] OTHER -> Nothing

-----------------------------------------------------------------------------
\* The runtime: the Decision rules, and a Commitment by who may commit under the
\* policy the session is bound to (external).
Takes(e) ==
    /\ Accepts(log, e)
    /\ e.type = "Commitment" => e.sender \in wiring.authority /\ e.policy \in {"", bound}

Init ==
    /\ wiring \in Wirings
    /\ log = <<>> /\ bound = None
    /\ proj = [a \in Agents |-> Fresh(DecisionInit)]
    /\ status = [a \in Agents |->
            IF a \notin wiring.present THEN "absent" ELSE IF a = Initiator THEN "starting" ELSE "running"]
    /\ out = [a \in Agents |-> Nothing]

\* The loop ends after the envelope that ended the session.
Looping(v) == IF v.phase = "Committed" THEN "done" ELSE "running"

\* _emit_initiator_envelopes: SessionStart, then the kickoff if it is a Proposal.
Open ==
    LET config == InitiatorConfig(wiring.boot)
    IN  /\ status[Initiator] = "starting" /\ bound = None
        /\ bound' = StartSession(config)
        /\ IF config.kickoff = None
           THEN status' = [status EXCEPT ![Initiator] = "running"] /\ UNCHANGED out
           ELSE /\ out' = [out EXCEPT ![Initiator] = Propose(Initiator, config.kickoff)]
                /\ status' = [status EXCEPT ![Initiator] = "sending"]
        /\ UNCHANGED <<wiring, log, proj>>

\* The stream delivers the next envelope; the projection takes it, the handlers see it.
Deliver(a) ==
    LET e == log[Len(proj[a].transcript) + 1]
        p == ApplyEnvelope(proj[a], e)
        reply == Reaction(a, p.view, e)
    IN  /\ status[a] = "running" /\ Len(proj[a].transcript) < Len(log)
        /\ proj' = [proj EXCEPT ![a] = p]
        /\ out' = [out EXCEPT ![a] = reply]
        /\ status' = [status EXCEPT ![a] = IF reply = Nothing THEN Looping(p.view) ELSE "sending"]
        /\ UNCHANGED <<wiring, log, bound>>

\* The runtime answers a send: an accepted envelope returns to the handler and its loop,
\* a refused one raises MacpAckError, which leaves run().
Answer(a) ==
    /\ status[a] = "sending"
    /\ IF Takes(out[a])
       THEN log' = Append(log, out[a]) /\ status' = [status EXCEPT ![a] = Looping(proj[a].view)]
       ELSE status' = [status EXCEPT ![a] = "failed"] /\ UNCHANGED log
    /\ out' = [out EXCEPT ![a] = Nothing]
    /\ UNCHANGED <<wiring, bound, proj>>

\* The application of an agent proposes through its actions, on a thread of its own: a
\* refusal is that thread's.
ProposeAside(a, p) ==
    /\ a \in wiring.proposers /\ bound # None /\ Takes(Propose(a, p))
    /\ log' = Append(log, Propose(a, p))
    /\ UNCHANGED <<wiring, bound, proj, status, out>>

Next ==
    \/ Open
    \/ \E a \in Agents : Deliver(a) \/ Answer(a) \/ \E p \in DOMAIN wiring.opinion : ProposeAside(a, p)

\* The loops of those present run and the runtime answers; nobody has to propose aside.
Fairness == WF_vars(Open) /\ \A a \in Agents : WF_vars(Deliver(a) \/ Answer(a))
Spec == Init /\ [][Next]_vars /\ Fairness

-----------------------------------------------------------------------------
\* Every agent has applied a prefix of the session's history and sends, in its own
\* name, only what is spelt as the runtime reads it.
TypeOK ==
    /\ wiring \in Wirings
    /\ bound = None <=> status[Initiator] \in {"starting", "absent"}
    /\ \A a \in Agents :
        /\ proj[a].transcript = SubSeq(log, 1, Len(proj[a].transcript))
        /\ status[a] \in {"absent", "starting", "running", "sending", "failed", "done"}
        /\ out[a] # Nothing <=> status[a] = "sending"
        /\ out[a] # Nothing => out[a].sender = a /\ WellFormed(out[a])

Committed == \E i \in DOMAIN log : log[i].type = "Commitment"

\* A strategy commits on grounds: at some moment of the history before the commitment one
\* proposal had quorum_size approvals of its own and more than half of the votes that are
\* not abstentions (docs/guides/agent-framework.md); and it states the outcome its action
\* means.  What holds of the committer's stale projection held of the session.
VotesUpTo(n, p, values) ==
    {j \in 1..n : log[j].type = "Vote" /\ log[j].subject = p /\ log[j].value \in values}
Carried(n, p) ==
    LET won == Cardinality(VotesUpTo(n, p, {"APPROVE"}))
        all == UNION {VotesUpTo(n, q, {"APPROVE", "REJECT"}) : q \in DOMAIN wiring.opinion}
    IN  won >= wiring.quorum /\ 2 * won > Cardinality(all)
CommitIsJustified ==
    \A i \in DOMAIN log : log[i].type = "Commitment" =>
        /\ log[i].flag = (Lower(log[i].value) \notin Negative)
        /\ \E n \in 1..i - 1 : \E p \in DOMAIN wiring.opinion : Carried(n, p)

\* With one evaluator who approves the only proposal, every agent present votes on it once,
\* and the session is committed in the end, whoever else tries: strategies that read only the
\* evaluations are not stuck waiting for each other's votes (issue #93).  It takes an
\* initiator with authority and the default policy.
SoundWiring ==
    /\ Cardinality(wiring.evaluators) = 1 /\ wiring.proposers = {}
    /\ wiring.evaluators \cup {Initiator} \subseteq wiring.present
    /\ wiring.boot.kickoff # None /\ Upper(wiring.opinion[wiring.boot.kickoff]) = "APPROVE"
    /\ wiring.quorum <= Cardinality(wiring.present) /\ Initiator \in wiring.authority
    /\ StartSession(InitiatorConfig(wiring.boot)) = DefaultPolicy
SoundWiringCommits == SoundWiring => <>Committed

\* A session in which every participant runs majority_voter and majority_committer reaches
\* a commitment (tests/unit/test_agent_strategies.py).
StrategiesCommit == <>Committed
=============================================================================
