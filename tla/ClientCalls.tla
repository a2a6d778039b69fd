---------------------------- MODULE ClientCalls ----------------------------
(***************************************************************************)
(* Callers (threads of MacpClient, tasks of AsyncMacpClient) that share    *)
(* one client and one session.  Each runs a program of calls: an RPC of    *)
(* the client, a helper of the session, or retry_send.  A call is checked, *)
(* sent, answered or not, classified, perhaps retried, and what a session  *)
(* helper sent is applied to the session's projection.  Between any two of *)
(* these steps the other callers, the network and the runtime move.        *)
(*                                                                         *)
(* The runtime is external: it accepts an envelope once by its message id, *)
(* refuses what its session state or its own judgement refuses, and writes *)
(* refusals the way its version does.  A request whose caller has given up *)
(* may still arrive.                                                       *)
(***************************************************************************)
EXTENDS ClientRpc, SequencesExt

CONSTANTS
    Callers,           \* threads or tasks
    Programs,          \* functions from callers to sequences of calls
    Configs,           \* flavour, credentials, default timeout and runtime version
    CapabilitySets,    \* what the runtime may advertise, now or after an upgrade
    MaxRetries,        \* RetryPolicy.max_retries
    MaxPages,          \* bound on the pages of a list
    MaxFaults          \* bound on lost replies, transient refusals and upgrades

Credentials == [token : STRING, sender_hint : STRING, expected_sender : STRING]

\* A call: on a session's helper, on the client or through retry_send; its arguments
\* and whether they are valid; what the runtime will judge and whether it ends the session.
Jobs ==
    [how : {"session", "client", "retry"}, method : Methods, id : STRING, auth : Credentials,
     sender : STRING, timeout : STRING, valid : BOOLEAN, verdict : STRING, ends : BOOLEAN]

\* Every envelope has a message id of its own (a UUID); retry_send only sends; and what
\* a runtime advertises is never the None that the client starts with.
ASSUME CallsAssumption ==
    /\ MaxRetries \in Nat /\ MaxPages \in Nat /\ MaxFaults \in Nat
    /\ Unknown \notin CapabilitySets
    /\ \A p \in Programs :
        /\ p \in [Callers -> Seq(Jobs)]
        /\ \A c, d \in Callers : \A k \in DOMAIN p[c], l \in DOMAIN p[d] :
                p[c][k].id = p[d][l].id => c = d /\ k = l
        /\ \A c \in Callers : \A k \in DOMAIN p[c] : p[c][k].how = "retry" => p[c][k].method = "send"
    /\ \A k \in Configs : k.auth \in Credentials /\ k.session_auth \in Credentials

VARIABLES
    config, program,   \* fixed at the start
    pc,                \* the call each caller is in
    net,               \* requests the runtime has not seen
    log,               \* accepted envelopes: id, sender and the token they came with
    session,           \* the session's state at the runtime
    advertises,        \* capabilities the runtime advertises now
    server_capabilities,
    own,               \* ids in the session's projection, in the order applied
    outcome,           \* per caller, how its finished calls ended
    served,            \* methods the runtime executed
    heard,             \* every capability an Initialize answer has told this client
    faults

vars == <<config, program, pc, net, log, session, advertises, server_capabilities,
          own, outcome, served, heard, faults>>
Fixed == <<config, program>>
Server == <<net, log, session, advertises, served>>

Waiting == {"probing", "sent"}
Idle(at) == [status |-> "idle", at |-> at, attempt |-> 0]

Init ==
    /\ config \in Configs /\ program \in Programs
    /\ pc = [c \in Callers |-> Idle(1)]
    /\ net = {} /\ log = <<>> /\ session = "open" /\ served = {}
    /\ advertises \in CapabilitySets
    /\ server_capabilities = Unknown /\ heard = {}
    /\ own = <<>> /\ outcome = [c \in Callers |-> <<>>] /\ faults = 0

Fault == faults < MaxFaults /\ faults' = faults + 1

-----------------------------------------------------------------------------
JobOf(c) == program[c][pc[c].at]
RpcFor(c) == RpcOf(config.flavour, JobOf(c).method)
IsSend(job) == job.method \in {"send", "send_signal", "send_progress"}

\* _sender_for looks at the call's credentials, the session's, then the client's; the
\* RPC goes out under those of client.send(auth or self.auth), then the client's own.
SenderAuth(job) ==
    IF job.how = "session" THEN OrAuth(OrAuth(job.auth, config.session_auth), config.auth)
    ELSE Selected(job.auth, config.auth)
CallAuth(job) ==
    Selected(IF job.how = "session" THEN OrAuth(job.auth, config.session_auth) ELSE job.auth, config.auth)

\* retry_send and a bare send take an envelope somebody else built.
Builds(job, rpc) == IsSend(job) /\ (job.how = "session" \/ rpc.check # "none")
SenderOn(job, rpc) ==
    IF Builds(job, rpc) THEN ResolveSender(SenderAuth(job), job.sender) ELSE job.sender

\* The first local refusal, in the order of the code; "none" if the call goes out.
Refusal(job, rpc) ==
    CASE job.how = "session" /\ ~job.valid -> "MacpSessionError"
      [] job.how = "session" /\ job.valid /\ IsSend(job) /\ Mismatch(SenderAuth(job), job.sender)
            -> "MacpIdentityMismatchError"
      [] job.how # "session" /\ CheckRefuses(rpc, job.valid) -> "MacpSessionError"
      [] OTHER ->
            IF rpc.auth = "required" /\ CallAuth(job) = NoAuth THEN "MacpSdkError"
            ELSE IF Builds(job, rpc) /\ Mismatch(SenderAuth(job), job.sender)
            THEN "MacpIdentityMismatchError" ELSE "none"

Request(c, method, n) ==
    [by |-> c, at |-> pc[c].at, n |-> n, method |-> method,
     id |-> JobOf(c).id, sender |-> SenderOn(JobOf(c), RpcFor(c)), token |-> CallAuth(JobOf(c)).token]

\* The call in caller c is over: its outcome, and what the answer was taken from.
Finish(c, result, asof) ==
    /\ outcome' = [outcome EXCEPT ![c] = Append(@, [end |-> result, asof |-> asof])]
    /\ pc' = [pc EXCEPT ![c] = Idle(@.at + 1)]

SendRequest(c, status, method, n) ==
    /\ net' = net \cup {Request(c, method, n)}
    /\ pc' = [pc EXCEPT ![c] = [status |-> status, at |-> @.at, attempt |-> n]]

-----------------------------------------------------------------------------
\* A call starts: argument checks, the envelope, credentials; a gated call without
\* cached capabilities initializes first.
Begin(c) ==
    /\ pc[c].status = "idle" /\ pc[c].at <= Len(program[c])
    /\ LET refusal == Refusal(JobOf(c), RpcFor(c))
           gated == RpcFor(c).gate # "none"
       IN  \/ /\ refusal # "none"
              /\ Finish(c, Raised(refusal, ""), 0)
              /\ UNCHANGED net
           \/ /\ refusal = "none" /\ ~gated
              /\ SendRequest(c, "sent", JobOf(c).method, 1)
              /\ UNCHANGED outcome
           \/ /\ refusal = "none" /\ gated /\ server_capabilities = Unknown
              /\ SendRequest(c, "probing", "initialize", 1)
              /\ UNCHANGED outcome
           \/ /\ refusal = "none" /\ gated /\ server_capabilities # Unknown
              /\ pc' = [pc EXCEPT ![c] = [status |-> "gate", at |-> @.at, attempt |-> 1]]
              /\ UNCHANGED <<net, outcome>>
    /\ UNCHANGED <<Fixed, log, session, advertises, server_capabilities, own, served, heard, faults>>

\* _require_capability on whatever is cached now, by whichever call.
Gate(c) ==
    /\ pc[c].status = "gate"
    /\ IF Advertised(server_capabilities, RpcFor(c))
       THEN SendRequest(c, "sent", JobOf(c).method, 1) /\ UNCHANGED outcome
       ELSE Finish(c, Raised("MacpSdkError", ""), 0) /\ UNCHANGED net
    /\ UNCHANGED <<Fixed, log, session, advertises, server_capabilities, own, served, heard, faults>>

-----------------------------------------------------------------------------
\* External: the runtime.
Known(id) == \E i \in DOMAIN log : log[i].id = id

\* Its refusals: inline NACKs, or statuses that carry the registry code, or, before
\* 0.9, statuses alone.
OldStatus(code) ==
    CASE code = "POLICY_DENIED" -> "FAILED_PRECONDITION"
      [] code = "RATE_LIMITED" -> "RESOURCE_EXHAUSTED"
      [] OTHER -> "INVALID_ARGUMENT"
Refusals(code) ==
    {Ack(FALSE, FALSE, code),
     IF config.runtime = "0.9" THEN Status("ABORTED", code) ELSE Status(OldStatus(code), "")}

SessionAfter(method) ==
    CASE method = "suspend_session" /\ session = "open" -> "suspended"
      [] method = "resume_session" /\ session = "suspended" -> "open"
      [] method = "cancel_session" /\ session # "ended" -> "ended"
      [] OTHER -> session

\* A request is executed; its caller hears of it if it still waits for this one.
Answer(r, reply) ==
    /\ net' = net \ {r}
    /\ served' = served \cup {r.method}
    /\ pc' = [pc EXCEPT ![r.by] =
                IF @.status \in Waiting /\ @.at = r.at /\ @.attempt = r.n
                THEN [status |-> "answered", at |-> @.at, attempt |-> @.attempt, of |-> r.method,
                      reply |-> reply, asof |-> Len(log')]
                ELSE @]

ServeSend(r, job) ==
    /\ IsSend(job) /\ r.method = job.method
    /\ \/ /\ Known(r.id)
          /\ UNCHANGED <<log, session, faults>>
          /\ \E ok \in BOOLEAN : Answer(r, Ack(ok, TRUE, ""))
       \/ /\ ~Known(r.id) /\ session = "open" /\ job.verdict = "ok"
          /\ log' = Append(log, [id |-> r.id, sender |-> r.sender, token |-> r.token])
          /\ session' = IF job.ends THEN "ended" ELSE session
          /\ Answer(r, Ack(TRUE, FALSE, "")) /\ UNCHANGED faults
       \/ /\ ~Known(r.id) /\ (session # "open" \/ job.verdict # "ok")
          /\ UNCHANGED <<log, session, faults>>
          /\ \E reply \in Refusals(IF session # "open" THEN "SESSION_NOT_OPEN" ELSE job.verdict) :
                Answer(r, reply)
       \/ /\ ~Known(r.id) /\ Fault
          /\ UNCHANGED <<log, session>>
          /\ \E reply \in Refusals("RATE_LIMITED") : Answer(r, reply)

ServeOther(r, job) ==
    /\ ~(IsSend(job) /\ r.method = job.method)
    /\ UNCHANGED <<log, faults>>
    /\ LET rpc == RpcOf(config.flavour, r.method)
       IN  \/ /\ r.method = "initialize"
              /\ Answer(r, [form |-> "value", capabilities |-> advertises]) /\ UNCHANGED session
           \/ /\ rpc.answer = "ack"
              /\ session' = SessionAfter(r.method)
              /\ Answer(r, IF session' # session THEN Ack(TRUE, FALSE, "") ELSE Ack(FALSE, FALSE, "SESSION_NOT_OPEN"))
           \/ /\ rpc.gate # "none"
              /\ Answer(r, IF rpc.gate \in advertises THEN Value ELSE Status("UNIMPLEMENTED", ""))
              /\ UNCHANGED session
           \/ /\ rpc.errors = "registry"
              /\ \E reply \in {Value, Status("FAILED_PRECONDITION", "")} : Answer(r, reply)
              /\ UNCHANGED session
           \/ /\ r.method = "list_sessions"
              /\ \E more \in {m \in BOOLEAN : m => r.n < MaxPages} :
                    Answer(r, [form |-> "value", more |-> more])
              /\ UNCHANGED session
           \/ /\ rpc.answer = "stream"
              /\ \E reply \in {Value, Status("RESOURCE_EXHAUSTED", "")} : Answer(r, reply)
              /\ UNCHANGED session
           \/ /\ rpc.errors = "raw" /\ rpc.answer = "reply" /\ r.method \notin {"initialize", "list_sessions"}
              /\ \E reply \in {Value, Status("NOT_FOUND", "")} : Answer(r, reply)
              /\ UNCHANGED session

Serve(r) ==
    /\ r \in net
    /\ LET job == program[r.by][r.at] IN ServeSend(r, job) \/ ServeOther(r, job)
    /\ UNCHANGED <<Fixed, advertises, server_capabilities, own, outcome, heard>>

\* The runtime is upgraded or restarted: what it advertises changes.
Upgrade ==
    /\ Fault
    /\ \E caps \in CapabilitySets \ {advertises} : advertises' = caps
    /\ UNCHANGED <<Fixed, pc, net, log, session, server_capabilities, own, outcome, served, heard>>

\* External: gRPC reports a failure to a waiting caller; its request may be lost,
\* executed already, or still on its way.
Fails(c, status) ==
    /\ pc[c].status \in Waiting
    /\ pc' = [pc EXCEPT ![c] =
                [status |-> "answered", at |-> @.at, attempt |-> @.attempt,
                 of |-> IF @.status = "probing" THEN "initialize" ELSE JobOf(c).method,
                 reply |-> Status(status, ""), asof |-> Len(log)]]
    /\ \E lost \in SUBSET {r \in net : r.by = c /\ r.at = pc[c].at /\ r.n = pc[c].attempt} :
            net' = net \ lost
    /\ UNCHANGED <<Fixed, log, session, advertises, server_capabilities, own, outcome, served, heard>>

Break(c) == Fault /\ Fails(c, "UNAVAILABLE")

\* The probing Initialize gets the caller's timeout too, as a unary call.
Bound(c) ==
    IF pc[c].status = "probing" THEN ResolveTimeout(JobOf(c).timeout, config.default_timeout)
    ELSE DeadlineOf(RpcFor(c), JobOf(c).timeout, config.default_timeout)

Deadline(c) ==
    /\ pc[c].status \in Waiting /\ Bound(c) # "none"
    /\ Fails(c, "DEADLINE_EXCEEDED") /\ UNCHANGED faults

\* The consumer of a watch leaves its generator, which cancels the call.
Abandon(c) ==
    /\ pc[c].status = "sent" /\ RpcFor(c).answer = "stream"
    /\ Finish(c, Returned, 0)
    /\ net' = net \ {r \in net : r.by = c /\ r.at = pc[c].at}
    /\ UNCHANGED <<Fixed, log, session, advertises, server_capabilities, own, served, heard, faults>>

-----------------------------------------------------------------------------
Retryable(result) ==
    \/ result.kind = "MacpTransportError"
    \/ result.kind = "MacpAckError" /\ result.code \in {"RATE_LIMITED", "INTERNAL_ERROR"}

\* Feed an accepted envelope to the projection (a NACK is a no-op).
TrackAck_AnyAnswer(job, result, reply) ==
    IF job.how = "session" /\ IsSend(job) /\ reply.form = "ack" THEN Append(own, job.id) ELSE own
TrackAck(job, result, reply) ==
    IF job.how = "session" /\ IsSend(job) /\ result = Returned /\ reply.ok THEN Append(own, job.id) ELSE own

Remember_Merged(reply) ==
    IF "capabilities" \in DOMAIN reply
    THEN /\ server_capabilities' = server_capabilities \cup reply.capabilities
         /\ heard' = heard \cup reply.capabilities
    ELSE UNCHANGED <<server_capabilities, heard>>

\* initialize remembers what it was told, whichever call asked.
Remember(reply) ==
    IF "capabilities" \in DOMAIN reply
    THEN server_capabilities' = reply.capabilities /\ heard' = heard \cup reply.capabilities
    ELSE UNCHANGED <<server_capabilities, heard>>

\* list_sessions asks again as long as it is given a token.
HasMore(reply) == "more" \in DOMAIN reply /\ reply.more

\* retry_send: a final answer ends it, a transient one is tried again.
AfterAnswer_Always(job, result, attempt) ==
    IF job.how # "retry" \/ result = Returned THEN "done"
    ELSE IF attempt <= MaxRetries THEN "again" ELSE "exhausted"
AfterAnswer(job, result, attempt) ==
    IF job.how # "retry" \/ ~Retryable(result) THEN "done"
    ELSE IF attempt <= MaxRetries THEN "again" ELSE "exhausted"

Return(c) ==
    /\ pc[c].status = "answered"
    /\ LET job == JobOf(c)
           reply == pc[c].reply
           result == OfReply(RpcFor(c), reply)
           probe == pc[c].of = "initialize" /\ RpcFor(c).gate # "none"
       IN  /\ Remember(reply)
           /\ own' = TrackAck(job, result, reply)
           /\ IF probe /\ reply.form = "value"
              THEN /\ pc' = [pc EXCEPT ![c] = [status |-> "gate", at |-> @.at, attempt |-> 1]]
                   /\ UNCHANGED <<net, outcome>>
              ELSE IF HasMore(reply)
              THEN SendRequest(c, "sent", job.method, pc[c].attempt + 1) /\ UNCHANGED outcome
              ELSE CASE AfterAnswer(job, result, pc[c].attempt) = "done" ->
                            Finish(c, result, pc[c].asof) /\ UNCHANGED net
                     [] AfterAnswer(job, result, pc[c].attempt) = "exhausted" ->
                            Finish(c, Raised("MacpRetryError", ""), pc[c].asof) /\ UNCHANGED net
                     [] OTHER ->
                            /\ pc' = [pc EXCEPT ![c].status = "backoff"]
                            /\ UNCHANGED <<net, outcome>>
    /\ UNCHANGED <<Fixed, log, session, advertises, served, faults>>

\* After its sleep, retry_send sends the same envelope again.
Resend(c) ==
    /\ pc[c].status = "backoff"
    /\ SendRequest(c, "sent", JobOf(c).method, pc[c].attempt + 1)
    /\ UNCHANGED <<Fixed, log, session, advertises, server_capabilities, own, outcome, served, heard, faults>>

-----------------------------------------------------------------------------
Step(c) == Begin(c) \/ Gate(c) \/ Return(c) \/ Resend(c)
Network(c) == Break(c) \/ Deadline(c) \/ Abandon(c)

Next == (\E c \in Callers : Step(c) \/ Network(c)) \/ (\E r \in net : Serve(r)) \/ Upgrade

\* A caller's own code runs on and a deadline passes; the runtime owes nothing.
Fairness ==
    \A c \in Callers :
        /\ WF_vars(Gate(c)) /\ WF_vars(Return(c)) /\ WF_vars(Resend(c)) /\ WF_vars(Deadline(c))

Spec == Init /\ [][Next]_vars
FairSpec == Spec /\ Fairness

-----------------------------------------------------------------------------
Finished(c) == DOMAIN outcome[c]
Accepted == {log[i].id : i \in DOMAIN log}

\* A finished call has one outcome, a caller is at the call after them, and a session
\* and a projection hold each envelope once.
TypeOK ==
    /\ \A c \in Callers : pc[c].at = Len(outcome[c]) + 1
    /\ \A i, j \in DOMAIN log : log[i].id = log[j].id => i = j
    /\ \A i, j \in DOMAIN own : own[i] = own[j] => i = j
    /\ session \in {"open", "suspended", "ended"}
    /\ server_capabilities \in {Unknown} \cup CapabilitySets
    /\ faults \in 0..MaxFaults

\* What a send tells its caller is true of the history it was answered from, whatever
\* was lost and however often it was retried: it returns only if its envelope was
\* accepted, and raises MacpAckError only if it was not (the duplicate ack).
OutcomeIsTrue ==
    \A c \in Callers : \A k \in Finished(c) :
        LET job == program[c][k]
            end == outcome[c][k].end
            history == {log[i].id : i \in 1..outcome[c][k].asof}
        IN  IsSend(job) => /\ end.kind = "returned" => job.id \in history
                           /\ end.kind = "MacpAckError" => job.id \notin history

\* The session's projection holds only what was accepted; it misses an own envelope
\* only if its helper is still in flight or raised; and what one caller sent one after
\* the other stands in it in the order of accepted history.
OwnView ==
    /\ ToSet(own) \subseteq Accepted
    /\ \A c \in Callers : \A k \in Finished(c) :
            LET job == program[c][k]
            IN  job.how = "session" /\ IsSend(job) /\ outcome[c][k].end = Returned => job.id \in ToSet(own)
    /\ \A c \in Callers : \A k, l \in Finished(c) :
            LET a == program[c][k].id
                b == program[c][l].id
                At(s, x) == CHOOSE i \in DOMAIN s : s[i] = x
                ids == [i \in DOMAIN log |-> log[i].id]
            IN  k < l /\ {a, b} \subseteq ToSet(own) => At(own, a) < At(own, b) /\ At(ids, a) < At(ids, b)

\* retry_send never sends again what was answered for good: not what was accepted, nor
\* what was refused with a registry code other than the transient ones.
FinalAnswerEnds ==
    \A c \in Callers : pc[c].status = "backoff" =>
        LET reply == pc[c].reply
        IN  /\ reply.form = "ack" => ~reply.ok /\ ~reply.duplicate /\ reply.code \in {"RATE_LIMITED", "INTERNAL_ERROR"}
            /\ reply.form = "status" => reply.macp_code \in {"", "RATE_LIMITED", "INTERNAL_ERROR"}

\* A gated RPC reaches a runtime only if an Initialize answer has told this client of
\* its capability, whichever caller asked and whatever was upgraded since.
GatedOnlyAdvertised ==
    \A m \in served : LET rpc == RpcOf(config.flavour, m) IN rpc.gate # "none" => rpc.gate \in heard

\* An envelope the SDK built and the runtime accepted carries the identity its
\* credentials are pinned to, from wherever the credentials and the sender came.
SenderIsIdentity ==
    \A i \in DOMAIN log : \A c \in Callers : \A k \in DOMAIN program[c] :
        LET job == program[c][k]
            auth == CallAuth(job)
        IN  job.id = log[i].id /\ Builds(job, RpcOf(config.flavour, job.method)) =>
                /\ log[i].token = auth.token
                /\ auth.expected_sender # "" => log[i].sender = auth.expected_sender

\* Every call that has a deadline of its own or by default ends, though the runtime
\* may never answer.
CallsEnd ==
    \A c \in Callers :
        /\ pc[c].status # "idle" /\ RpcFor(c).answer # "stream"
        /\ JobOf(c).timeout = "given" \/ (JobOf(c).timeout = "unset" /\ config.default_timeout # "none")
        ~> pc[c].status = "idle"
=============================================================================
