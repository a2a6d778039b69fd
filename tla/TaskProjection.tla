--------------------------- MODULE TaskProjection ---------------------------
(***************************************************************************)
(* TaskProjection of task.py.  subject is the task_id; value is the        *)
(* requested assignee of a TaskRequest, the progress of a TaskUpdate and   *)
(* the payload's assignee elsewhere ("" when it names none); flag is       *)
(* retryable.  slot is active_assignment: one assignee for the session.    *)
(***************************************************************************)
EXTENDS ProjectionView

TaskParsed == {"TaskRequest", "TaskAccept", "TaskReject", "TaskUpdate", "TaskComplete", "TaskFail"}
Unassigned == "unassigned"
Free == [sender |-> Unassigned, task |-> Unassigned]

TaskInit ==
    [phase |-> "Pending", commitment |-> NoCommitment, anomalies |-> <<>>, tasks |-> <<>>,
     slot |-> Free, updates |-> <<>>, rejections |-> <<>>, completions |-> <<>>, failures |-> <<>>]

Known(v, e) == e.subject \in DOMAIN v.tasks

\* p.assignee or envelope.sender: whom the payload says the work is about.
About(e) == IF e.value = "" THEN e.sender ELSE e.value

NewTask(e) ==
    [requested |-> e.value, status |-> "requested", progress |-> 0, assignee |-> Unassigned]

\* A request under the id of the held task starts that task over and frees the slot.
OnTaskRequest(v, e) ==
    SetPhase([v EXCEPT !.tasks = Put(@, e.subject, NewTask(e)),
                       !.slot = IF @.task = e.subject THEN Free ELSE @], "Requested")

\* The first accept takes the session's slot; another one is misuse.
OnTaskAccept(v, e) ==
    IF ~Known(v, e) THEN v
    ELSE IF v.slot # Free THEN RecordAnomaly(v, "duplicate_task_accept", e)
    ELSE SetPhase([v EXCEPT !.slot = [sender |-> e.sender, task |-> e.subject],
                            !.tasks[e.subject].assignee = About(e),
                            !.tasks[e.subject].status = "accepted"], "InProgress")

Rejection(v, e, held) ==
    [task |-> e.subject, assignee |-> About(e), sender |-> e.sender, whileAssigned |-> held]

\* From the slot's holder: gives the held task back, whichever task it names.
\* From anyone else: a personal decline, which leaves every task as it was.
OnTaskReject_KeepsAssignee(v, e) ==
    LET held == v.slot # Free /\ v.slot.sender = e.sender
    IN  [v EXCEPT !.rejections = Append(@, Rejection(v, e, held)),
                  !.slot = IF held THEN Free ELSE @,
                  !.tasks = IF held /\ Known(v, e) THEN [@ EXCEPT ![e.subject].status = "rejected"]
                            ELSE @]
OnTaskReject(v, e) ==
    LET held == v.slot # Free /\ v.slot.sender = e.sender
        marked == IF held /\ Known(v, e) THEN [v.tasks EXCEPT ![e.subject].status = "rejected"]
                  ELSE v.tasks
    IN  [v EXCEPT !.rejections = Append(@, Rejection(v, e, held)),
                  !.slot = IF held THEN Free ELSE @,
                  !.tasks = IF held THEN [marked EXCEPT ![v.slot.task].assignee = Unassigned]
                            ELSE marked]

\* Reports are recorded whoever sends them; a known task takes their status.
OnTaskUpdate(v, e) ==
    LET w == [v EXCEPT !.updates = Append(@, [task |-> e.subject, progress |-> e.value])]
    IN  IF ~Known(v, e) THEN w
        ELSE [w EXCEPT !.tasks[e.subject].status = "in_progress",
                       !.tasks[e.subject].progress = e.value]

OnTaskComplete(v, e) ==
    LET w == [v EXCEPT !.completions = Append(@, [task |-> e.subject, assignee |-> About(e)])]
    IN  IF ~Known(v, e) THEN w
        ELSE SetPhase([w EXCEPT !.tasks[e.subject].status = "completed",
                                !.tasks[e.subject].progress = 100], "Completed")

OnTaskFail(v, e) ==
    LET w == [v EXCEPT !.failures =
                Append(@, [task |-> e.subject, assignee |-> About(e), retryable |-> e.flag])]
    IN  IF ~Known(v, e) THEN w
        ELSE SetPhase([w EXCEPT !.tasks[e.subject].status = "failed"], "Failed")

TaskStep(v, e) ==
    CASE e.type = "TaskRequest"  -> OnTaskRequest(v, e)
      [] e.type = "TaskAccept"   -> OnTaskAccept(v, e)
      [] e.type = "TaskReject"   -> OnTaskReject(v, e)
      [] e.type = "TaskUpdate"   -> OnTaskUpdate(v, e)
      [] e.type = "TaskComplete" -> OnTaskComplete(v, e)
      [] e.type = "TaskFail"     -> OnTaskFail(v, e)
      [] OTHER -> v

-----------------------------------------------------------------------------
\* Queries.
Some(s, P(_)) == \E i \in DOMAIN s : P(s[i])

IsAccepted(v, t) == t \in DOMAIN v.tasks /\ v.tasks[t].status \in {"accepted", "in_progress"}
Reported(v, t) ==
    Some(v.completions, LAMBDA c : c.task = t) \/ Some(v.failures, LAMBDA f : f.task = t)

HasDeclined_Personally(v, p) ==
    Some(v.rejections, LAMBDA r : r.assignee = p /\ ~r.whileAssigned)
HasDeclined(v, p) == Some(v.rejections, LAMBDA r : r.assignee = p)
CanAccept(v, p) == v.slot = Free /\ ~HasDeclined(v, p)

NegativeCommitEligible(v, t) ==
    /\ t \in DOMAIN v.tasks
    /\ \/ Reported(v, t)
       \/ /\ v.tasks[t].requested # "" /\ v.slot = Free
          /\ Some(v.rejections, LAMBDA r : r.assignee = v.tasks[t].requested /\ ~r.whileAssigned)
=============================================================================
