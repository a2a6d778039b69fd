--------------------------- MODULE MCModeSessions ---------------------------
(***************************************************************************)
(* Small sessions of every mode.  This process is "a", through the         *)
(* credentials of its session, and may also act as its initiator "i" and   *)
(* as others with credentials of the call; its peers send the rest.  Some  *)
(* calls are misspelt, misattributed or incomplete.  The feeds that obey   *)
(* nothing carry duplicates under new ids, messages that come before what  *)
(* they are about, payloads about somebody else, and what the dedup gate   *)
(* and the parser must refuse.                                             *)
(***************************************************************************)
EXTENDS ModeSessions

MCNoId == ""
MCSessionAuth == ForDevAgent("a", "")
MCClientAuth == ForBearer("i", "i", "")

\* A call of the helpers in the name of who, meaning means.
As(who) == IF who = "a" THEN NoAuth ELSE IF who = "i" THEN MCClientAuth ELSE ForDevAgent(who, "")
CallOf(id, who, method, subject, value, means) ==
    [id |-> id, method |-> method, subject |-> subject, value |-> value, extra |-> "in",
     flag |-> FALSE, sender |-> "", auth |-> As(who), who |-> who, means |-> means, sound |-> TRUE]
Unsound(c) == [c EXCEPT !.sound = FALSE]
Asking(c) == [c EXCEPT !.flag = TRUE]
Claiming(c, sender) == [c EXCEPT !.sender = sender]
With(c, extra) == [c EXCEPT !.extra = extra]
CommitCall(action, extra, means) ==
    Asking(With(CallOf("k", "i", "commit", "c1", action, means), extra))

E(m, id, type, sender, subject, value) ==
    [id |-> id, mode |-> m, type |-> type, sender |-> sender, subject |-> subject,
     value |-> value, flag |-> FALSE, ok |-> TRUE]

Flagged(e) == [e EXCEPT !.flag = TRUE]
Unparsable(e) == [e EXCEPT !.ok = FALSE]
Commit(m) == E(m, "k", "Commitment", "i", "c1", "")

Start(participants, ttl, version) ==
    [participants |-> participants, ttl |-> ttl, max_suspend |-> 0, mode_version |-> version,
     configuration_version |-> "cfg"]

\* No rule, rules that never bind, counts and a fraction, an unknown type, and shares
\* on both sides of every boundary of three participants.
Threshold(type, num, den) == [type |-> type, num |-> num, den |-> den]
MCPolicies ==
    {Threshold("none", 0, 1), Threshold("n_of_m", 0, 1), Threshold("n_of_m", 2, 1),
     Threshold("n_of_m", 3, 2), Threshold("count", 5, 1), Threshold("weighted", 1, 1)}
    \cup {Threshold("percentage", n, 1) : n \in {1, 33, 34, 50, 66, 67, 100, 150}}
    \cup {Threshold("percentage", 133, 2)}

-----------------------------------------------------------------------------
QuorumE(id, type, sender, value) == E("quorum", id, type, sender, "r1", value)

QuorumPeers ==
    {QuorumE(p \o t, t, p, "") : p \in {"b", "c"}, t \in {"Approve", "Reject", "Abstain"}}
QuorumCalls ==
    {CallOf("q1", "i", "request_approval", "r1", 1, 1), CallOf("q2", "i", "request_approval", "r1", 2, 2),
     CallOf("q3", "i", "request_approval", "r1", 3, 3),
     CallOf("aApprove", "a", "approve", "r1", "", "approve"),
     Claiming(CallOf("aReject", "a", "reject", "r1", "", "reject"), "a"),
     CallOf("aAbstain", "a", "abstain", "r1", "", "abstain"),
     Claiming(CallOf("x", "a", "approve", "r1", "", "approve"), "c"),
     CallOf("y", "a", "approve", " ", "", "approve"), CommitCall("TASK.FAILED", "unset", FALSE)}

QuorumAnything ==
    {QuorumE("q1", "ApprovalRequest", "i", 1), QuorumE("q2", "ApprovalRequest", "i", 2),
     QuorumE("x1", "Approve", "a", ""), QuorumE("x2", "Reject", "a", ""),
     QuorumE("x3", "Abstain", "b", ""), QuorumE(MCNoId, "Approve", "d", ""), Commit("quorum"),
     E("quorum", "x4", "Approve", "b", "r2", ""),
     Unparsable(QuorumE("x5", "Approve", "c", "")), E("task", "x6", "Approve", "c", "r1", "")}

TaskE(id, type, sender, task, value) == E("task", id, type, sender, task, value)

TaskPeers ==
    {Flagged(TaskE("f", "TaskFail", "w2", "t1", "")), TaskE("q2", "TaskRequest", "i", "t1", "a")}
    \cup {TaskE(w \o t, t, w, "t1", "") : w \in {"w2", "w3"},
                                          t \in {"TaskAccept", "TaskReject", "TaskComplete"}}
TaskCalls ==
    {CallOf("q1", "i", "request_task", "t1", "", ""),
     CallOf("aTaskAccept", "a", "accept_task", "t1", "", "a"),
     CallOf("aTaskReject", "a", "reject_task", "t1", "", "a"), CallOf("u", "a", "update", "t1", 50, 50),
     Asking(CallOf("aTaskFail", "a", "fail_task", "t1", "", "a")),
     CallOf("aTaskComplete", "a", "complete_task", "t1", "", "a"), CommitCall("completed", "unset", TRUE)}

TaskAnything ==
    {TaskE("q1", "TaskRequest", "i", "t1", ""), TaskE("q2", "TaskRequest", "i", "t1", ""),
     TaskE("q3", "TaskRequest", "i", "t2", ""), TaskE("a1", "TaskAccept", "w1", "t1", ""),
     TaskE("a2", "TaskAccept", "w2", "t2", "w1"), TaskE("r1", "TaskReject", "w1", "t2", ""),
     TaskE("r2", "TaskReject", "w2", "t1", ""), TaskE("u1", "TaskUpdate", "w2", "t1", 50),
     TaskE("c1", "TaskComplete", "w1", "t1", ""), TaskE("f1", "TaskFail", "w2", "t2", "")}

HandoffE(id, type, sender, handoff, value) == E("handoff", id, type, sender, handoff, value)

\* Declines carry no declined_by, as the payload allows; one accept is implicit.
Answers(h, p) ==
    {HandoffE(h \o p \o "x", "HandoffContext", "o", h, "json"),
     HandoffE(h \o p \o "a", "HandoffAccept", p, h, p),
     Flagged(HandoffE(h \o p \o "i", "HandoffAccept", p, h, p)),
     HandoffE(h \o p \o "d", "HandoffDecline", p, h, "")}

HandoffIds == {"h1", "h2", "h3"}
HandoffPeers ==
    {E("handoff", h \o p \o "o", "HandoffOffer", "o", h, p) : h \in HandoffIds, p \in {"a", "c"}}
    \cup UNION {Answers(h, "c") : h \in HandoffIds}
    \cup {Flagged(HandoffE(h \o "ai", "HandoffAccept", "a", h, "a")) : h \in HandoffIds}
HandoffCalls ==
    UNION {{CallOf(h \o "ax", "o", "add_context", h, "json", "json"),
            CallOf(h \o "aa", "a", "accept_handoff", h, "", "a"),
            CallOf(h \o "ad", "a", "decline", h, "", "a")} : h \in HandoffIds}
    \cup {CallOf("y", "o", "offer", "h1", " ", " "), CommitCall("declined", "unset", FALSE)}

HandoffAnything ==
    {HandoffE("o1", "HandoffOffer", "o", "h1", "b"), HandoffE("o2", "HandoffOffer", "o", "h1", "c"),
     HandoffE("o3", "HandoffOffer", "o", "h2", "b"), HandoffE("x2", "HandoffContext", "o", "h2", "json"),
     HandoffE("d2", "HandoffDecline", "b", "h2", ""), Commit("handoff")} \cup Answers("h1", "b")

MultiRoundE(id, type, sender, value) == E("multi_round", id, type, sender, "s1", value)
Contribute(n, p, x) == MultiRoundE(n \o p \o x, "Contribute", p, x)

MultiRoundPeers ==
    {MultiRoundE("s1", "SessionStart", "i", {"a", "b"}), MultiRoundE("s2", "SessionStart", "i", {"a", "b", "d"})}
    \cup {Contribute(n, "b", x) : n \in {"1", "2"}, x \in {"x", "y"}}
MultiRoundCalls ==
    {CallOf(n \o "a" \o x, "a", "contribute", "s1", x, x) : n \in {"1", "2"}, x \in {"x", "y"}}
    \cup {CallOf("1dx", "d", "contribute", "s1", "x", "x"), CallOf("1a", "a", "contribute", "s1", "", ""),
          CommitCall("completed", "unset", TRUE), [CommitCall("rejected", "true", TRUE) EXCEPT !.id = "k3"],
          [CommitCall("completed", "unset", TRUE) EXCEPT !.id = "k2", !.auth = NoAuth, !.who = "a"]}

MultiRoundAnything ==
    {MultiRoundE("s1", "SessionStart", "i", {"a", "b"}),
     MultiRoundE("s2", "SessionStart", "", {"a", "d"}),
     Unparsable(MultiRoundE("s3", "SessionStart", "i", {"a", "b"})), Commit("multi_round"),
     Contribute("1", "d", "x"), Contribute("1", "a", "undecodable")}
    \cup {Contribute("1", p, x) : p \in {"a", "b"}, x \in {"x", "y"}}

ProposalE(id, type, sender, proposal, value) == E("proposal", id, type, sender, proposal, value)

ProposalPeers ==
    {ProposalE("p1", "Proposal", "b", "p1", ""), ProposalE("x3", "Accept", "b", "p1", ""),
     ProposalE("x4", "Accept", "b", "p2", ""), Flagged(ProposalE("r1", "Reject", "b", "p2", ""))}
ProposalCalls ==
    {With(CallOf("p2", "a", "counter_propose", "p2", "p1", "p1"), "title"),
     With(CallOf("p3", "a", "propose", "p1", "", ""), " "),
     CallOf("x1", "a", "accept", "p1", "", ""), CallOf("x2", "a", "accept", "p2", "", ""),
     Asking(CallOf("r2", "a", "reject", "p1", "", "")), CallOf("r3", "a", "reject", "p1", "", ""),
     CallOf("w1", "a", "withdraw", "p2", "", ""), CommitCall("accepted", "unset", TRUE)}

ProposalAnything ==
    {ProposalE("p1", "Proposal", "a", "p1", ""), ProposalE("p2", "CounterProposal", "b", "p2", "p1"),
     ProposalE("x1", "Accept", "a", "p1", ""), ProposalE("x2", "Accept", "a", "p2", ""),
     ProposalE("x3", "Accept", "b", "p1", ""), ProposalE("x4", "Accept", "b", "p2", ""),
     Flagged(ProposalE("r1", "Reject", "b", "p1", "")), ProposalE("r2", "Reject", "a", "p2", ""),
     ProposalE("w1", "Withdraw", "a", "p1", ""), Commit("proposal")}

DecisionE(id, type, sender, proposal, value) == E("decision", id, type, sender, proposal, value)

DecisionPeers ==
    {DecisionE("p1", "Proposal", "b", "p1", "x"), DecisionE("e2", "Evaluation", "b", "p1", "BLOCK"),
     DecisionE("v2", "Vote", "b", "p1", "REJECT"), DecisionE("v3", "Vote", "b", "p2", "APPROVE")}
DecisionCalls ==
    {CallOf("p2", "a", "propose", "p2", "y", "y"), CallOf("e1", "a", "evaluate", "p1", "review", "REVIEW"),
     CallOf("o1", "a", "raise_objection", "p1", "CRITICAL", "critical"),
     CallOf("v1", "a", "vote", "p1", "Approve", "APPROVE"), CallOf("v4", "a", "vote", "p2", "ABSTAIN", "ABSTAIN"),
     Unsound(CallOf("y1", "a", "vote", "p1", "maybe", "maybe")), Unsound(CallOf("y2", "a", "vote", " ", "APPROVE", "APPROVE")),
     Unsound(With(CallOf("y3", "a", "evaluate", "p1", "APPROVE", "APPROVE"), "nan")),
     CommitCall("accepted", "false", FALSE)}

DecisionAnything ==
    {DecisionE("p1", "Proposal", "a", "p1", "x"), DecisionE("p2", "Proposal", "b", "p2", "y"),
     DecisionE("p3", "Proposal", "b", "p1", "z"), DecisionE("e1", "Evaluation", "b", "p1", "REVIEW"),
     DecisionE("o1", "Objection", "c", "p1", ""), DecisionE("v1", "Vote", "a", "p1", "APPROVE"),
     DecisionE("v2", "Vote", "a", "p1", "REJECT"), DecisionE("v3", "Vote", "b", "p2", "APPROVE"),
     Commit("decision")}

-----------------------------------------------------------------------------
MCPeers ==
    [decision |-> DecisionPeers, quorum |-> QuorumPeers, task |-> TaskPeers,
     handoff |-> HandoffPeers, proposal |-> ProposalPeers, multi_round |-> MultiRoundPeers]
MCCalls ==
    [decision |-> DecisionCalls, quorum |-> QuorumCalls, task |-> TaskCalls,
     handoff |-> HandoffCalls, proposal |-> ProposalCalls, multi_round |-> MultiRoundCalls]
MCPeersLength ==
    [decision |-> 6, quorum |-> 5, task |-> 8, handoff |-> 7, proposal |-> 6, multi_round |-> 7]

MCAnything ==
    [decision |-> DecisionAnything, quorum |-> QuorumAnything, task |-> TaskAnything,
     handoff |-> HandoffAnything, proposal |-> ProposalAnything, multi_round |-> MultiRoundAnything]
MCAnyLength == [m \in Modes |-> 5]

\* Each mode is offered starts its helper must refuse: a participant twice, nobody, too
\* many, no lifetime, another mode's version.
Wrong(m) ==
    {Start(<<"a", "b", "a">>, 1, "1.0.0"), Start(<<"a", "b", "c", "d">>, 1, "1.0.0"),
     Start(<<"b">>, 0, "1.0.0"), Start(<<"b">>, 1, " ")}
    \cup (IF m = "decision" THEN {} ELSE {Start(<<>>, 1, "1.0.0")})
    \cup (IF m = "multi_round" THEN {Start(<<"b">>, 1, "2.0.0")} ELSE {})
Right(m) ==
    CASE m = "decision" -> <<>> [] m = "quorum" -> <<"a", "b", "c">> [] OTHER -> <<"a", "b">>
MCStarts == [m \in Modes |-> {Start(Right(m), 1, "1.0.0")} \cup Wrong(m)]

\* The calls above are annotated as the theorems assume.
ASSUME CallsAnnotated == SoundIsMeaningful /\ ContributionsTell /\ CallsMean /\ OneTask
=============================================================================
