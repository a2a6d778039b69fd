----------------------------- MODULE ClientRpc -----------------------------
(***************************************************************************)
(* What MacpClient and AsyncMacpClient do around each RPC: which need      *)
(* credentials, what is checked before anything is sent, which deadline a  *)
(* call gets, and which error a failure becomes.  The two clients are two  *)
(* translations of one table: each is read from its own source.            *)
(***************************************************************************)
EXTENDS Naturals, Sequences

\* An RPC: must credentials resolve or are they forwarded when present; the capability
\* it waits for; the argument check; what a gRPC failure turns into; what answers it.
Rpc(auth, gate, check, errors, answer) ==
    [auth |-> auth, gate |-> gate, check |-> check, errors |-> errors, answer |-> answer]

Read(auth) == Rpc(auth, "none", "none", "raw", "reply")
Mutation(check) == Rpc("required", "none", check, "registry", "reply")
Control == Rpc("required", "none", "none", "transport", "ack")
Gated(auth, flag) == Rpc(auth, flag, "none", "transport", "reply")
Watch(auth) == Rpc(auth, "none", "none", "transport", "stream")
Sends(check) == Rpc("required", "none", check, "send", "send_ack")

-----------------------------------------------------------------------------
\* MacpClient, in the order of the file: tables of its RPCs, each in one of them.
InitializeRpc == [m \in {"initialize"} |-> Read("forwarded")]
SendRpc == [m \in {"send"} |-> Sends("none")]
GetSessionRpc == [m \in {"get_session"} |-> Read("required")]
ControlRpcs == [m \in {"cancel_session", "suspend_session", "resume_session"} |-> Control]
DiscoveryRpcs == [m \in {"get_manifest", "list_modes", "list_ext_modes", "list_roots"} |-> Read("forwarded")]
ListSessionsRpcs == [m \in {"list_sessions", "list_sessions_page"} |-> Read("required")]
WatchSessionsRpc == [m \in {"watch_sessions"} |-> Watch("required")]
ModeRegistryRpcs ==
    [m \in {"register_ext_mode", "unregister_ext_mode", "promote_mode"} |->
        Mutation(IF m = "register_ext_mode" THEN "descriptor" ELSE "none")]
PolicyRpcs ==
    [m \in {"register_policy", "unregister_policy", "get_policy", "list_policies"} |->
        IF m \in {"register_policy", "unregister_policy"} THEN Mutation("none") ELSE Read("required")]
WhatIfReplayRpc == [m \in {"what_if_replay"} |-> Gated("required", "what_if_replay")]
ReceiptRpcs ==
    [m \in {"get_decision_receipt", "get_receipt_keys"} |->
        Gated(IF m = "get_receipt_keys" THEN "forwarded" ELSE "required", "get_decision_receipt")]
StreamRpcs ==
    [m \in {"watch_policies", "open_stream", "watch_mode_registry", "watch_roots", "watch_signals"} |->
        Watch(IF m \in {"watch_mode_registry", "watch_roots"} THEN "forwarded" ELSE "required")]
AmbientRpcs == [m \in {"send_signal", "send_progress"} |-> Sends(IF m = "send_signal" THEN "signal" ELSE "progress")]

SyncTables ==
    {InitializeRpc, SendRpc, GetSessionRpc, ControlRpcs, DiscoveryRpcs, ListSessionsRpcs,
     WatchSessionsRpc, ModeRegistryRpcs, PolicyRpcs, WhatIfReplayRpc, ReceiptRpcs,
     StreamRpcs, AmbientRpcs}

-----------------------------------------------------------------------------
\* AsyncMacpClient, in the order of its file.
AsyncCoreRpcs ==
    [m \in {"initialize", "send", "get_session"} |->
        CASE m = "initialize" -> Read("forwarded") [] m = "send" -> Sends("none") [] OTHER -> Read("required")]
AsyncControlRpcs == [m \in {"cancel_session", "suspend_session", "resume_session"} |-> Control]
AsyncDiscoveryRpcs == [m \in {"get_manifest", "list_modes", "list_ext_modes", "list_roots"} |-> Read("forwarded")]
AsyncListRpcs == [m \in {"list_sessions", "list_sessions_page"} |-> Read("required")]
AsyncWatchSessionsRpc == [m \in {"watch_sessions"} |-> Watch("required")]
AsyncModeRegistryRpcs ==
    [m \in {"register_ext_mode", "unregister_ext_mode", "promote_mode"} |->
        IF m = "register_ext_mode" THEN Mutation("descriptor") ELSE Mutation("none")]
AsyncPolicyRpcs ==
    [m \in {"register_policy", "unregister_policy", "get_policy", "list_policies"} |->
        IF m \in {"get_policy", "list_policies"} THEN Read("required") ELSE Mutation("none")]
AsyncGatedRpcs ==
    [m \in {"what_if_replay", "get_decision_receipt", "get_receipt_keys"} |->
        CASE m = "what_if_replay" -> Gated("required", "what_if_replay")
          [] m = "get_decision_receipt" -> Gated("required", "get_decision_receipt")
          [] m = "get_receipt_keys" -> Gated("forwarded", "get_decision_receipt")]
AsyncStreamRpcs ==
    [m \in {"watch_policies", "open_stream", "watch_signals", "watch_mode_registry", "watch_roots"} |->
        IF m \in {"watch_policies", "open_stream", "watch_signals"} THEN Watch("required") ELSE Watch("forwarded")]
AsyncAmbientRpcs ==
    [m \in {"send_signal", "send_progress"} |-> IF m = "send_signal" THEN Sends("signal") ELSE Sends("progress")]

AsyncTables ==
    {AsyncCoreRpcs, AsyncControlRpcs, AsyncDiscoveryRpcs, AsyncListRpcs, AsyncWatchSessionsRpc,
     AsyncModeRegistryRpcs, AsyncPolicyRpcs, AsyncGatedRpcs, AsyncStreamRpcs, AsyncAmbientRpcs}

\* An RPC stands in one table of its client.
Lookup(tables, method) == (CHOOSE table \in tables : method \in DOMAIN table)[method]
Methods == UNION {DOMAIN table : table \in SyncTables}
RpcOf(flavour, method) == Lookup(IF flavour = "sync" THEN SyncTables ELSE AsyncTables, method)

-----------------------------------------------------------------------------
\* Credentials: who the bearer token is, the sender put on envelopes that name none,
\* and the identity they are checked against ("" for None).
NoAuth == [token |-> "none", sender_hint |-> "", expected_sender |-> ""]
Cred(token, hint, expected) == [token |-> token, sender_hint |-> hint, expected_sender |-> expected]

\* x or y, on credentials and on strings.
OrAuth(x, y) == IF x = NoAuth THEN y ELSE x
OrElse(x, y) == IF x = "" THEN y ELSE x

ForDevAgent(agent, expected) == Cred(agent, agent, OrElse(expected, agent))
ForBearer(token, hint, expected) == Cred(token, OrElse(hint, expected), expected)

\* _require_auth's choice and the sender an envelope gets; expected is checked against
\* what was resolved, an explicit sender or the hint alike.
Selected(given, own) == OrAuth(given, own)
ResolveSender(auth, sender) == OrElse(sender, auth.sender_hint)
Mismatch_ExplicitOnly(auth, sender) ==
    sender # "" /\ auth.expected_sender # "" /\ sender # auth.expected_sender
Mismatch(auth, sender) ==
    auth.expected_sender # "" /\ ResolveSender(auth, sender) # auth.expected_sender

\* A deadline is "none", the client's default or the caller's own.
ResolveTimeout_Never(timeout, default) == "none"
ResolveTimeout(timeout, default) ==
    CASE timeout = "unbounded" -> "none" [] timeout = "unset" -> default [] OTHER -> timeout
ResolveStreamTimeout(timeout) == IF timeout \in {"unset", "unbounded"} THEN "none" ELSE timeout

DeadlineOf(rpc, timeout, default) ==
    IF rpc.answer = "stream" THEN ResolveStreamTimeout(timeout) ELSE ResolveTimeout(timeout, default)

-----------------------------------------------------------------------------
\* Errors.  kind: the exception; code: MacpAckError.failure.code or the gRPC status.
Raised(kind, code) == [kind |-> kind, code |-> code]
Returned == Raised("returned", "")

TransportErrorFromRpc(status) == Raised("MacpTransportError", status)

\* A read-only registry is a NACK; anything else stays a transport error.
MapRegistryMutationError(status) ==
    IF status = "FAILED_PRECONDITION" THEN Raised("MacpAckError", status) ELSE Raised("MacpTransportError", status)

\* A registry code is trusted; without one the status of an older runtime is read.
SendErrorFromRpc(status, macp_code) ==
    CASE macp_code # "" -> Raised("MacpAckError", macp_code)
      [] macp_code = "" /\ status = "ALREADY_EXISTS" -> Raised("MacpAckError", "SESSION_ALREADY_EXISTS")
      [] macp_code = "" /\ status = "FAILED_PRECONDITION" -> Raised("MacpAckError", "POLICY_DENIED")
      [] macp_code = "" /\ status = "INVALID_ARGUMENT" -> Raised("MacpTransportError", status)
      [] OTHER -> TransportErrorFromRpc(status)

AckOrRaise(ack) == IF ack.ok THEN Returned ELSE Raised("MacpAckError", ack.code)

\* A duplicate is success: the message was accepted before.
SendAckOrRaise_Literal(ack) == AckOrRaise(ack)
SendAckOrRaise(ack) == IF ack.duplicate THEN Returned ELSE AckOrRaise(ack)

\* What the caller of an RPC sees of a reply (raise_on_nack at its default).
Ack(ok, duplicate, code) == [form |-> "ack", ok |-> ok, duplicate |-> duplicate, code |-> code]
Status(status, macp_code) == [form |-> "status", status |-> status, macp_code |-> macp_code]
Value == [form |-> "value"]

OfReply(rpc, reply) ==
    CASE reply.form = "value" -> Returned
      [] reply.form = "ack" -> IF rpc.answer = "send_ack" THEN SendAckOrRaise(reply) ELSE AckOrRaise(reply)
      [] reply.form = "status" ->
            CASE rpc.errors = "raw" -> Raised("RpcError", reply.status)
              [] rpc.errors = "transport" -> TransportErrorFromRpc(reply.status)
              [] rpc.errors = "registry" -> MapRegistryMutationError(reply.status)
              [] rpc.errors = "send" -> SendErrorFromRpc(reply.status, reply.macp_code)

\* What is refused on the arguments alone, before credentials are looked at.
CheckRefuses(rpc, valid) == rpc.check # "none" /\ ~valid

\* An advertised capability, from the cached answer of the last Initialize.
Unknown == {"unknown"}
Advertised_OnceInitialized(server_capabilities, rpc) == server_capabilities # Unknown
Advertised(server_capabilities, rpc) == rpc.gate \in server_capabilities
=============================================================================
