-------------------------- MODULE SessionBuilders --------------------------
(***************************************************************************)
(* What the session helpers of every mode, sync and async, do with a call  *)
(* before anything is sent: which arguments they refuse, and the envelope  *)
(* the others become.  A call is a record [id, method, subject, value,     *)
(* extra, flag, sender, auth]: subject is the id it is about; value the    *)
(* option, vote, recommendation, severity, target, assignee, progress,     *)
(* contribution or action; extra the title, the confidence or the explicit *)
(* outcome_positive; flag is terminal, retryable, or, of a commit, whether *)
(* scope and reason are given; sender is "" for None.                      *)
(***************************************************************************)
EXTENDS ClientRpc, Validation, FiniteSets, SequencesExt

CONSTANTS
    SessionAuth,       \* the credentials of the session and of its client
    ClientAuth,
    MaxParticipants,   \* _MAX_PARTICIPANTS and _MAX_TTL_MS
    MaxTtl

\* What an action's builder requires, how it reads the value, and whether it has a flag.
Action(type, required, kind) == [type |-> type, required |-> required, kind |-> kind, flag |-> FALSE]
Flagging(action) == [action EXCEPT !.flag = TRUE]

DecisionActions ==
    [propose |-> Action("Proposal", {"subject", "value"}, "plain"),
     evaluate |-> Action("Evaluation", {"subject"}, "recommendation"),
     raise_objection |-> Action("Objection", {"subject"}, "severity"),
     vote |-> Action("Vote", {"subject"}, "vote")]

QuorumActions ==
    [request_approval |-> Action("ApprovalRequest", {"subject"}, "plain"),
     approve |-> Action("Approve", {"subject"}, "none"),
     reject |-> Action("Reject", {"subject"}, "none"),
     abstain |-> Action("Abstain", {"subject"}, "none")]

HandoffActions ==
    [offer |-> Action("HandoffOffer", {"subject", "value"}, "plain"),
     add_context |-> Action("HandoffContext", {"subject"}, "plain"),
     accept_handoff |-> Action("HandoffAccept", {"subject"}, "actor"),
     decline |-> Action("HandoffDecline", {"subject"}, "actor")]

ProposalActions ==
    [propose |-> Action("Proposal", {"subject", "extra"}, "none"),
     counter_propose |-> Action("CounterProposal", {"subject", "extra"}, "plain"),
     accept |-> Action("Accept", {"subject"}, "none"),
     reject |-> Flagging(Action("Reject", {"subject"}, "none")),
     withdraw |-> Action("Withdraw", {"subject"}, "none")]

TaskAssignments ==
    [request_task |-> Action("TaskRequest", {"subject"}, "plain"),
     accept_task |-> Action("TaskAccept", {"subject"}, "actor"),
     reject_task |-> Action("TaskReject", {"subject"}, "actor")]
TaskReports ==
    [update_task |-> Action("TaskUpdate", {"subject"}, "plain"),
     complete_task |-> Action("TaskComplete", {"subject"}, "actor"),
     fail_task |-> Flagging(Action("TaskFail", {"subject"}, "actor"))]

MultiRoundActions == [contribute |-> Action("Contribute", {}, "plain")]

-----------------------------------------------------------------------------
\* The public methods of each session class, sync and async, and the action each sends.
Same(names) == [n \in names |-> n]
Extended(names, more) ==
    [n \in DOMAIN names \cup DOMAIN more |-> IF n \in DOMAIN names THEN names[n] ELSE more[n]]

DecisionMethods == Same({"propose", "evaluate", "raise_objection", "vote"})
AsyncDecisionMethods == Same({"propose", "evaluate", "raise_objection", "vote"})
QuorumMethods == Same({"request_approval", "approve", "reject", "abstain"})
AsyncQuorumMethods_Crossed ==
    Extended(Same({"request_approval", "approve", "abstain"}), [reject |-> "abstain"])
AsyncQuorumMethods == Same({"request_approval", "approve", "reject", "abstain"})
HandoffMethods == Same({"offer", "add_context", "accept_handoff", "decline"})
AsyncHandoffMethods == Same({"offer", "add_context", "accept_handoff", "decline"})
ProposalMethods == Same({"propose", "counter_propose", "accept", "reject", "withdraw"})
AsyncProposalMethods == Same({"propose", "counter_propose", "accept", "reject", "withdraw"})
\* The deprecated names pass their arguments on.
TaskAssignmentMethods == Extended(Same(DOMAIN TaskAssignments), [request |-> "request_task"])
TaskReportMethods ==
    Extended(Same(DOMAIN TaskReports),
         [update |-> "update_task", complete |-> "complete_task", fail |-> "fail_task"])
AsyncTaskMethods == Same(DOMAIN TaskAssignments \cup DOMAIN TaskReports)
MultiRoundMethods == Same({"contribute"})
AsyncMultiRoundMethods == Same({"contribute"})

Flavours == {"sync", "async"}

MethodsOf(flavour, mode) ==
    LET sync == flavour = "sync"
    IN  CASE mode = "decision" -> IF sync THEN DecisionMethods ELSE AsyncDecisionMethods
          [] mode = "quorum" -> IF sync THEN QuorumMethods ELSE AsyncQuorumMethods
          [] mode = "task" -> IF sync THEN Extended(TaskAssignmentMethods, TaskReportMethods) ELSE AsyncTaskMethods
          [] mode = "handoff" -> IF sync THEN HandoffMethods ELSE AsyncHandoffMethods
          [] mode = "proposal" -> IF sync THEN ProposalMethods ELSE AsyncProposalMethods
          [] mode = "multi_round" -> IF sync THEN MultiRoundMethods ELSE AsyncMultiRoundMethods

ActionsOf(mode) ==
    CASE mode = "decision" -> DecisionActions
      [] mode = "quorum" -> QuorumActions
      [] mode = "task" -> Extended(TaskAssignments, TaskReports)
      [] mode = "handoff" -> HandoffActions
      [] mode = "proposal" -> ProposalActions
      [] mode = "multi_round" -> MultiRoundActions

ActionOf(flavour, mode, call) == ActionsOf(mode)[MethodsOf(flavour, mode)[call.method]]

-----------------------------------------------------------------------------
\* validate_session_start, with the empty roster only Decision may have, then the bound
\* of the suspension; a number that is not finite is below every bound.
ParticipantsError(mode, participants) ==
    \/ participants = <<>> /\ mode # "decision"
    \/ Cardinality(ToSet(participants)) # Len(participants)
    \/ Len(participants) > MaxParticipants
StartError(mode, s) ==
    \/ ParticipantsError(mode, s.participants)
    \/ s.ttl \notin 1..MaxTtl
    \/ Blank(s.mode_version) \/ Blank(s.configuration_version)
    \/ s.max_suspend < 0
MultiRoundStartError(s) == s.mode_version # "1.0.0" \/ StartError("multi_round", s)

StartRefused(mode, s) == IF mode = "multi_round" THEN MultiRoundStartError(s) ELSE StartError(mode, s)

-----------------------------------------------------------------------------
\* _sender_for: the call's credentials, the session's, the client's.
AuthOf(call) == OrAuth(OrAuth(call.auth, SessionAuth), ClientAuth)
SenderOf(call) == ResolveSender(AuthOf(call), call.sender)
SenderRefused(call) == Mismatch(AuthOf(call), call.sender)

ValueRefused_Verbatim(kind, call) ==
    CASE kind = "vote" -> call.value \notin Votes
      [] kind = "recommendation" -> call.value \notin Recommendations \/ ~ConfidenceIn(call.extra)
      [] kind = "severity" -> call.value \notin Severities
      [] OTHER -> FALSE
ValueRefused(kind, call) ==
    CASE kind = "vote" -> Upper(call.value) \notin Votes
      [] kind = "recommendation" -> Upper(call.value) \notin Recommendations \/ ~ConfidenceIn(call.extra)
      [] kind = "severity" -> Lower(call.value) \notin Severities
      [] OTHER -> FALSE

BuiltValue(kind, call) ==
    CASE kind \in {"vote", "recommendation"} -> Upper(call.value)
      [] kind = "severity" -> Lower(call.value)
      [] kind = "actor" -> OrElse(call.value, SenderOf(call))
      [] kind = "none" -> ""
      [] OTHER -> call.value

\* A mode's action: the fields it requires, its value, then whoever sends it.
ActionRefused(action, call) ==
    \/ \E field \in action.required : Blank(call[field])
    \/ ValueRefused(action.kind, call)
    \/ SenderRefused(call)

\* Multi-round: what the projection already tells is refused here, and a sender that
\* cannot be told is not.
ContributeRefused(view, call) ==
    \/ call.value = "" \/ view.converged \/ SenderRefused(call)
    \/ SenderOf(call) \notin {""} \cup view.participants /\ view.participants # {}

\* commit: unchecked in the five standard modes; in multi-round only by the initiator,
\* with its texts, and never with an outcome its action's suffix denies.
CommitRefused(mode, view, call) ==
    \/ SenderRefused(call)
    \/ /\ mode = "multi_round"
       /\ \/ "" \notin {view.initiator, SenderOf(call)} /\ SenderOf(call) # view.initiator
          \/ Blank(call.subject) \/ Blank(call.value) \/ ~call.flag
          \/ call.extra = "true" /\ call.value \in Negative
          \/ call.extra = "false" /\ call.value \in Positive

Refused(flavour, mode, view, call) ==
    CASE call.method = "commit" -> CommitRefused(mode, view, call)
      [] call.method = "contribute" -> ContributeRefused(view, call)
      [] OTHER -> ActionRefused(ActionOf(flavour, mode, call), call)

-----------------------------------------------------------------------------
\* The envelope of a call that is not refused.
Envelope(mode, call, type, value, flag) ==
    [id |-> call.id, mode |-> mode, type |-> type, sender |-> SenderOf(call),
     subject |-> call.subject, value |-> value, flag |-> flag, ok |-> TRUE]

OutcomeOf(call) ==
    IF call.extra = "unset" THEN InferOutcomePositive(call.value) ELSE call.extra = "true"

BuildAction(mode, action, call) ==
    Envelope(mode, call, action.type, BuiltValue(action.kind, call), action.flag /\ call.flag)
BuildCommit(mode, call) == Envelope(mode, call, "Commitment", call.value, OutcomeOf(call))

Build(flavour, mode, call) ==
    IF call.method = "commit" THEN BuildCommit(mode, call)
    ELSE BuildAction(mode, ActionOf(flavour, mode, call), call)
=============================================================================
