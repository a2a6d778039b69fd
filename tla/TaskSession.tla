----------------------------- MODULE TaskSession -----------------------------
(***************************************************************************)
(* A Task session as one of its projections follows it.                    *)
(***************************************************************************)
EXTENDS TaskProjection

CONSTANTS
    NoId,              \* the empty message_id
    Envelopes,         \* the envelopes of the instance
    Initiator,
    MaxLength          \* bound on the transcript

VARIABLE proj

TaskMode == "task"

INSTANCE EnvelopeFeed
    WITH Mode <- TaskMode, ParsedTypes <- TaskParsed, ModeStep <- TaskStep, InitView <- TaskInit

\* What the log alone says, as the runtime reads it.
Rejected(t, p) == \E i \in DOMAIN t : t[i].type = "TaskReject" /\ t[i].sender = p
Holds(t, p) ==
    \E i \in DOMAIN t :
        /\ t[i].type = "TaskAccept" /\ t[i].sender = p
        /\ \A j \in i + 1..Len(t) : ~(t[j].type = "TaskReject" /\ t[j].sender = p)
Held(t) == \E i \in DOMAIN t : t[i].type = "TaskAccept" /\ Holds(t, t[i].sender)
Over(t) == \E i \in DOMAIN t : t[i].type \in {"TaskComplete", "TaskFail", "Commitment"}
Requested(t) == IF t = <<>> THEN "" ELSE t[1].value

MayAccept(t, p) ==
    /\ t # <<>> /\ ~Over(t) /\ ~Held(t) /\ ~Rejected(t, p)
    /\ p # Initiator /\ Requested(t) \in {"", p}

\* A conforming runtime (external), RFC-MACP-0009 as task.py and
\* docs/modes/task.md cite it: one request; one accept at a time, never from a
\* decliner (rule 2a); a reject by someone who may still accept or by the active
\* assignee (rule 3c); reports by the active assignee; a commitment once reported.
Conforming(t, e) ==
    /\ e.ok /\ e.mode = TaskMode
    /\ \A i \in DOMAIN t : t[i].type # "Commitment" /\ t[i].id # e.id
    /\ e.type = "TaskRequest" <=> t = <<>>
    /\ e.type = "TaskAccept" => MayAccept(t, e.sender)
    /\ e.type = "TaskReject" => ~Over(t) /\ (Holds(t, e.sender) \/ MayAccept(t, e.sender))
    /\ e.type \in {"TaskUpdate", "TaskComplete", "TaskFail"} => Holds(t, e.sender) /\ ~Over(t)
    /\ e.type = "Commitment" => Over(t)

-----------------------------------------------------------------------------
Shows(call, v) ==
    CASE call.method \in {"request_task", "request"} -> v.tasks[call.subject].requested = call.means
      [] call.method = "accept_task" ->
            v.slot.sender = call.who /\ v.tasks[call.subject].assignee = call.means
      [] call.method = "reject_task" -> HasDeclined(v, call.means) /\ ~CanAccept(v, call.means)
      [] call.method \in {"update_task", "update"} -> v.tasks[call.subject].progress = call.means
      [] call.method \in {"complete_task", "complete"} ->
            v.completions[Len(v.completions)].assignee = call.means /\ v.phase = "Completed"
      [] call.method \in {"fail_task", "fail"} ->
            /\ v.failures[Len(v.failures)].assignee = call.means
            /\ v.failures[Len(v.failures)].retryable = call.flag

\* The slot and the tasks' assignees are two views of one fact, whatever order
\* the feed has: the held task has an assignee, and no other task has.
SlotIsAssignment ==
    /\ view.slot # Free =>
            view.slot.task \in DOMAIN view.tasks
            /\ view.tasks[view.slot.task].assignee # Unassigned
    /\ \A t \in DOMAIN view.tasks :
            view.tasks[t].assignee # Unassigned => view.slot # Free /\ view.slot.task = t

\* The slot never passes from one participant to another directly, and only its
\* holder, or a new request for the held task, gives it up (RFC-MACP-0009 5.3).
ReleasedByHolder ==
    view.slot # Free /\ proj'.view.slot # view.slot =>
        /\ proj'.view.slot = Free
        /\ \E e \in Envelopes : Applied(e)
            /\ \/ e.type = "TaskReject" /\ e.sender = view.slot.sender
               \/ e.type = "TaskRequest" /\ e.subject = view.slot.task

\* can_accept answers as the runtime would, on full history: the projection's
\* rejections and slot carry everything rule 2a and rule 3 depend on.
CanAcceptAgrees ==
    \A p \in {e.sender : e \in Envelopes} \ {Initiator} :
        proj.transcript # <<>> /\ ~Over(proj.transcript) =>
            (MayAccept(proj.transcript, p)
                <=> CanAccept(view, p) /\ Requested(proj.transcript) \in {"", p})

\* A negative commitment is never offered while an assignee works on the task, nor
\* while somebody might still accept it.
NegativeOnlyWhenStuck ==
    \A t \in DOMAIN view.tasks :
        NegativeCommitEligible(view, t) /\ ~Reported(view, t) =>
            ~IsAccepted(view, t)
            /\ \A p \in {e.sender : e \in Envelopes} : ~MayAccept(proj.transcript, p)
=============================================================================
