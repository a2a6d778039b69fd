--------------------------- MODULE MCClientCalls ---------------------------
(***************************************************************************)
(* Two callers with short programs: a session's helpers beside retry_send, *)
(* a suspension around a retried send, gated calls that initialize on      *)
(* their own, and every other kind of RPC, under pinned, hinted, bare and  *)
(* missing credentials, with and without a default timeout, against both   *)
(* generations of the runtime's errors.                                    *)
(***************************************************************************)
EXTENDS ClientCalls

CONSTANTS t1, t2

MCCallers == {t1, t2}

Job(how, method, id) ==
    [how |-> how, method |-> method, id |-> id, auth |-> NoAuth, sender |-> "", timeout |-> "unset",
     valid |-> TRUE, verdict |-> "ok", ends |-> FALSE]

Helper(id) == Job("session", "send", id)
Retry(id) == [Job("retry", "send", id) EXCEPT !.sender = "alice", !.timeout = "given"]
Call(method) == Job("client", method, method)

Pinned == ForBearer("T", "", "alice")
Bare == ForBearer("T", "", "")
Crossed == ForBearer("T", "bob", "alice")

By(job, auth, sender) == [job EXCEPT !.auth = auth, !.sender = sender]
Refused(job, code) == [job EXCEPT !.verdict = code]
Invalid(job) == [job EXCEPT !.valid = FALSE]
Named(job, id) == [job EXCEPT !.id = id]
Within(job, timeout) == [job EXCEPT !.timeout = timeout]
Ending(job) == [job EXCEPT !.ends = TRUE]

Pair(a, b) == (t1 :> a @@ t2 :> b)

MCPrograms ==
    {Pair(<<Helper("v1"), Helper("v2")>>, <<Retry("r1")>>),
     Pair(<<Helper("v1"), Ending(Helper("k"))>>, <<Refused(Retry("r1"), "POLICY_DENIED")>>),
     Pair(<<Job("session", "suspend_session", "s1"), Job("session", "resume_session", "s2")>>, <<Retry("r1")>>),
     Pair(<<Job("session", "cancel_session", "s1")>>, <<Retry("r1"), Helper("v1")>>),
     Pair(<<Call("what_if_replay")>>, <<Call("get_receipt_keys"), Call("initialize")>>),
     Pair(<<Within(Call("get_decision_receipt"), "unbounded")>>, <<Call("what_if_replay")>>),
     Pair(<<Call("watch_sessions")>>, <<Call("list_sessions"), Invalid(Call("register_ext_mode"))>>),
     Pair(<<Within(Call("watch_roots"), "given")>>, <<Call("register_policy"), Call("get_session")>>),
     Pair(<<Call("send_signal"), Invalid(Call("send_progress"))>>, <<By(Named(Call("send_progress"), "p2"), Pinned, "bob")>>),
     Pair(<<By(Helper("v1"), Pinned, "bob"), By(Helper("v2"), Crossed, "")>>,
          <<By(Helper("v3"), Bare, "carol"), By(Helper("v4"), ForDevAgent("dave", ""), "")>>),
     Pair(<<Invalid(Helper("v1")), Refused(Helper("v2"), "FORBIDDEN")>>, <<Within(Call("list_modes"), "unbounded")>>)}

Config(flavour, auth, session_auth, default, runtime) ==
    [flavour |-> flavour, auth |-> auth, session_auth |-> session_auth,
     default_timeout |-> default, runtime |-> runtime]

MCConfigs ==
    {Config("sync", Pinned, NoAuth, "default", "0.9"), Config("async", Bare, Pinned, "none", "0.8"),
     Config("async", NoAuth, Crossed, "default", "0.9"), Config("sync", NoAuth, NoAuth, "default", "0.8")}

MCCapabilitySets == {{"what_if_replay", "get_decision_receipt"}, {"get_decision_receipt"}}
=============================================================================
