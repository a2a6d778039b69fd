--------------------------- MODULE ParticipantRun ---------------------------
(***************************************************************************)
(* Participant.run() on one thread, Participant.stop() on another (the     *)
(* cancel-callback server's, or a supervisor's), and between them the      *)
(* GrpcTransportAdapter and the MacpStream it reads.  The threads share    *)
(* participant._stopped, participant._transport, adapter._stopped,         *)
(* adapter._stream and the stream's call, and no lock: every step below is *)
(* one read or write of them.  Ending the participant also shuts the       *)
(* cancel-callback server down: close() spawns a thread that asks          *)
(* serve_forever to end, waits for it and closes the socket.               *)
(*                                                                         *)
(* run() may be called again after it returned or raised.  The runtime is  *)
(* external: it may not know the session yet (NOT_FOUND), delivers the     *)
(* history's envelopes when it likes, may end the stream or fail it.       *)
(***************************************************************************)
EXTENDS Naturals, Sequences

CONSTANTS
    Injected,          \* was a transport passed to the constructor
    Initiator,         \* does run() emit SessionStart and a kickoff first
    History,           \* "plain" and "terminal" envelopes, in order
    MaxRuns,           \* bound on calls of run()
    MaxRetries,        \* subscribe_retry.max_retries
    MaxFailures        \* bound on stream failures, handler errors, join timeouts

ASSUME RunAssumption ==
    /\ Injected \in BOOLEAN /\ Initiator \in BOOLEAN
    /\ History \in Seq({"plain", "terminal"})
    /\ MaxRuns \in Nat /\ MaxRetries \in Nat /\ MaxFailures \in Nat

VARIABLES
    pc,                \* where run() is; "idle" is outside of it (_run_lock is free)
    spc,               \* where stop() is
    stopped,           \* participant._stopped
    transport,         \* is participant._transport set
    halted,            \* adapter._stopped
    stream,            \* adapter._stream: the open call's number, or None
    calls,             \* state of each StreamSession call opened so far
    target,            \* the call stop() bound to its local, or None
    cursor,            \* adapter._delivered
    position,          \* envelopes of the history read from the current call
    attempt,           \* NOT_FOUND retries of this start()
    subscribed,        \* did this run() subscribe
    bound,             \* is participant._cancel_callback_server set
    server,            \* its thread: "serving", "handling" a cancel POST, or "over"
    asked,             \* was its serve_forever asked to end
    shutters,          \* the shutdown thread close() spawned on run()'s thread, on stop()'s
    ended,             \* how many times on_terminal fired
    runs, failures

vars == <<pc, spc, stopped, transport, halted, stream, calls, target, cursor,
          position, attempt, subscribed, bound, server, asked, shutters, ended, runs,
          failures>>

adapterVars == <<transport, halted, stream, calls, target>>
progressVars == <<cursor, position, attempt, subscribed>>
serverVars == <<bound, server, asked, shutters>>

None == 0
RunnerStates == {"idle", "check", "emit", "attach", "start", "open", "recheck",
                 "subscribe", "read", "got", "dispatch", "after", "close", "teardown", "release",
                 "closing", "joining", "handler closing", "handler joining"}
StopperStates == {"ready", "flagged", "attached", "halted", "cancel", "unbind",
                  "closing", "joining", "done"}

Init ==
    /\ pc = "idle" /\ spc = "ready"
    /\ stopped = FALSE /\ transport = Injected /\ halted = FALSE
    /\ stream = None /\ calls = <<>> /\ target = None
    /\ cursor = 0 /\ position = 0 /\ attempt = 0 /\ subscribed = FALSE
    /\ bound = TRUE /\ server = "serving" /\ asked = FALSE
    /\ shutters = [thread \in {"run", "stop"} |-> "none"]
    /\ ended = 0 /\ runs = 0 /\ failures = 0

Fail == failures < MaxFailures /\ failures' = failures + 1

\* The runner moves on and nothing else changes but what the step says.
Goto(from, to) == pc = from /\ pc' = to

-----------------------------------------------------------------------------
\* run(): the lock is free exactly when pc is "idle".
Run ==
    /\ Goto("idle", "check") /\ runs < MaxRuns /\ runs' = runs + 1
    /\ subscribed' = FALSE /\ attempt' = 0
    /\ UNCHANGED <<spc, stopped, adapterVars, cursor, position, serverVars, ended, failures>>

\* The one-shot early return, or on to the SessionStart of an initiator.
CheckStopped ==
    /\ Goto("check", IF stopped THEN "idle" ELSE IF Initiator THEN "emit" ELSE "attach")
    /\ UNCHANGED <<spc, stopped, adapterVars, progressVars, serverVars, ended, runs, failures>>

\* The initiator's RPCs return, or one raises out of run().
Emit ==
    /\ \/ Goto("emit", "attach") /\ UNCHANGED failures
       \/ Goto("emit", "idle") /\ Fail
    /\ UNCHANGED <<spc, stopped, adapterVars, progressVars, serverVars, ended, runs>>

\* transport = self._transport or GrpcTransportAdapter(...), assigned back.
Attach ==
    /\ Goto("attach", "start")
    /\ transport' = TRUE
    /\ UNCHANGED <<spc, stopped, halted, stream, calls, target, progressVars, serverVars,
                   ended, runs, failures>>

-----------------------------------------------------------------------------
\* start(): the head of its retry loop.
Start ==
    /\ Goto("start", IF halted THEN "teardown" ELSE "open")
    /\ UNCHANGED <<spc, stopped, adapterVars, progressVars, serverVars, ended, runs, failures>>

\* self._stream = client.open_stream(...)
Open ==
    /\ Goto("open", "recheck")
    /\ calls' = Append(calls, "live")
    /\ stream' = Len(calls) + 1
    /\ UNCHANGED <<spc, stopped, transport, halted, target, progressVars, serverVars, ended,
                   runs, failures>>

\* The stop flag is read again after the stream was published to stop().
RecheckTo_Never(halt) == "subscribe"
RecheckTo(halt) == IF halt THEN "close" ELSE "subscribe"

Recheck ==
    /\ Goto("recheck", RecheckTo(halted))
    /\ calls' = IF pc' = "close" THEN [calls EXCEPT ![stream] = "aborted"] ELSE calls
    /\ UNCHANGED <<spc, stopped, transport, halted, stream, target, progressVars, serverVars,
                   ended, runs, failures>>

\* send_subscribe: refused on a stream stop() has closed in the meantime, which
\* the adapter takes for the stop it is.
Subscribe ==
    /\ Goto("subscribe", IF calls[stream] = "aborted" THEN "close" ELSE "read")
    /\ position' = cursor
    /\ subscribed' = TRUE
    /\ UNCHANGED <<spc, stopped, adapterVars, cursor, attempt, serverVars, ended, runs, failures>>

\* An envelope is read (queued ones also after an abort); a stopped adapter returns.
ReadEnvelope ==
    /\ Goto("read", IF halted THEN "close" ELSE "got")
    /\ position < Len(History)
    /\ position' = position + 1
    /\ UNCHANGED <<spc, stopped, adapterVars, cursor, attempt, subscribed, serverVars, ended,
                   runs, failures>>

\* The aborted call surfaces as CANCELLED: an intentional stop.
ReadCancelled ==
    /\ Goto("read", "close")
    /\ calls[stream] = "aborted"
    /\ UNCHANGED <<spc, stopped, adapterVars, progressVars, serverVars, ended, runs, failures>>

\* The runtime ends the stream or fails it.
ReadEnds ==
    /\ Goto("read", "close") /\ Fail
    /\ UNCHANGED <<spc, stopped, adapterVars, progressVars, serverVars, ended, runs>>

MayRetry_OffByOne(n) == n <= MaxRetries
MayRetry(n) == n < MaxRetries

\* The session is not known yet: close this stream, sleep, and loop.
ReadNotFound ==
    /\ Goto("read", "start")
    /\ cursor = 0 /\ position = 0 /\ ~halted
    /\ MayRetry(attempt) /\ attempt' = attempt + 1
    /\ stream' = None
    /\ UNCHANGED <<spc, stopped, transport, halted, calls, target, cursor, position,
                   subscribed, serverVars, ended, runs, failures>>

-----------------------------------------------------------------------------
\* The loop body: checked, then dispatched.
Got ==
    /\ Goto("got", IF stopped THEN "close" ELSE "dispatch")
    /\ UNCHANGED <<spc, stopped, adapterVars, progressVars, serverVars, ended, runs, failures>>

StoppedAfter(kind) == stopped \/ kind = "terminal"

\* _process_envelope: a terminal one fires on_terminal and sets the stop flag.
Process ==
    /\ Goto("dispatch", "after")
    /\ stopped' = StoppedAfter(History[position])
    /\ ended' = IF History[position] = "terminal" THEN ended + 1 ELSE ended
    /\ UNCHANGED <<spc, adapterVars, progressVars, serverVars, runs, failures>>

HandlerRaises ==
    /\ Goto("dispatch", "close") /\ Fail
    /\ UNCHANGED <<spc, stopped, adapterVars, progressVars, serverVars, ended, runs>>

\* A handler calls stop() itself, on this thread, which closes the server if it is set.
HandlerStops ==
    /\ Goto("dispatch", IF bound THEN "handler closing" ELSE "after") /\ Fail
    /\ stopped' = TRUE /\ halted' = TRUE
    /\ calls' = [calls EXCEPT ![stream] = "aborted"]
    /\ UNCHANGED <<spc, transport, stream, target, progressVars, serverVars, ended, runs>>

\* The second check; then the generator resumes after its yield and counts.
AfterTo_Unchecked(stop) == "read"
AfterTo(stop) == IF stop THEN "close" ELSE "read"

After ==
    /\ Goto("after", AfterTo(stopped))
    /\ cursor' = IF pc' = "read" THEN cursor + 1 ELSE cursor
    /\ UNCHANGED <<spc, stopped, adapterVars, position, attempt, subscribed, serverVars, ended,
                   runs, failures>>

\* start()'s finally: half-close and forget the stream.
Close ==
    /\ Goto("close", "teardown")
    /\ stream' = None
    /\ UNCHANGED <<spc, stopped, transport, halted, calls, target, progressVars, serverVars,
                   ended, runs, failures>>

\* run()'s finally: transport.stop(), then the cancel-callback server if stopped.
Teardown ==
    /\ Goto("teardown", "release")
    /\ halted' = TRUE
    /\ UNCHANGED <<spc, stopped, transport, stream, calls, target, progressVars, serverVars,
                   ended, runs, failures>>

Releases_Never(stop) == FALSE
Releases(stop) == stop /\ bound

Release ==
    /\ Goto("release", IF Releases(stopped) THEN "closing" ELSE "idle")
    /\ UNCHANGED <<spc, stopped, adapterVars, progressVars, serverVars, ended, runs, failures>>

\* _close_cancel_callback_server on this thread: forget the handle it read, and
\* CancelCallbackServer.close(): spawn the shutdown thread ...
RunCloses(from, to) ==
    /\ Goto(from, to)
    /\ bound' = FALSE /\ shutters' = [shutters EXCEPT !["run"] = "asking"]
    /\ UNCHANGED <<spc, stopped, adapterVars, progressVars, server, asked, ended, runs, failures>>

\* ... and join it, for two seconds at most, unless it would wait for its own thread.
MayReturn_JoinsItself(shutter, own) == shutter = "over"
MayReturn(shutter, own) == own \/ shutter = "over"

RunJoins(from, to) ==
    /\ Goto(from, to)
    /\ \/ MayReturn(shutters["run"], FALSE) /\ UNCHANGED failures
       \/ ~MayReturn(shutters["run"], FALSE) /\ Fail
    /\ UNCHANGED <<spc, stopped, adapterVars, progressVars, serverVars, ended, runs>>

-----------------------------------------------------------------------------
\* stop(), step by step, on a supervisor's thread, or on the server's own thread when
\* the POST handler runs it.
StopSteps(from, to) ==
    spc = from /\ spc' = to /\ UNCHANGED <<pc, progressVars, ended, runs>>

StopFlags ==
    /\ StopSteps("ready", "flagged")
    /\ stopped' = TRUE
    /\ server' \in {server} \cup {s \in {"handling"} : server = "serving"}
    /\ UNCHANGED <<adapterVars, bound, asked, shutters, failures>>

StopReadsTransport ==
    /\ StopSteps("flagged", IF transport THEN "attached" ELSE "unbind")
    /\ UNCHANGED <<stopped, adapterVars, serverVars, failures>>

StopHaltsAdapter ==
    /\ StopSteps("attached", "halted")
    /\ halted' = TRUE
    /\ UNCHANGED <<stopped, transport, stream, calls, target, serverVars, failures>>

StopReadsStream ==
    /\ StopSteps("halted", IF stream = None THEN "unbind" ELSE "cancel")
    /\ target' = stream
    /\ UNCHANGED <<stopped, transport, halted, stream, calls, serverVars, failures>>

StopCancels ==
    /\ StopSteps("cancel", "unbind")
    /\ calls' = [calls EXCEPT ![target] = "aborted"]
    /\ UNCHANGED <<stopped, transport, halted, stream, target, serverVars, failures>>

\* A POST handler that returns is back in serve_forever.
HandlerReturned == IF server = "handling" THEN "serving" ELSE server

StopReadsServer ==
    /\ StopSteps("unbind", IF bound THEN "closing" ELSE "done")
    /\ server' = IF bound THEN server ELSE HandlerReturned
    /\ UNCHANGED <<stopped, adapterVars, bound, asked, shutters, failures>>

StopCloses ==
    /\ StopSteps("closing", "joining")
    /\ bound' = FALSE /\ shutters' = [shutters EXCEPT !["stop"] = "asking"]
    /\ UNCHANGED <<stopped, adapterVars, server, asked, failures>>

StopJoins ==
    /\ StopSteps("joining", "done")
    /\ \/ MayReturn(shutters["stop"], server = "handling") /\ UNCHANGED failures
       \/ ~MayReturn(shutters["stop"], server = "handling") /\ Fail
    /\ server' = HandlerReturned
    /\ UNCHANGED <<stopped, adapterVars, bound, asked, shutters>>

-----------------------------------------------------------------------------
exceptServer == <<pc, spc, stopped, adapterVars, progressVars, bound, ended, runs, failures>>

\* _shutdown_once: httpd.shutdown() asks serve_forever to end ...
ShutterAsks(thread) ==
    /\ shutters[thread] = "asking"
    /\ shutters' = [shutters EXCEPT ![thread] = "waiting"] /\ asked' = TRUE
    /\ UNCHANGED <<exceptServer, server>>

\* ... which it does between two requests ...
ServerEnds ==
    /\ server = "serving" /\ asked /\ server' = "over"
    /\ UNCHANGED <<exceptServer, asked, shutters>>

\* ... and server_close() then frees the port.
ShutterCloses(thread) ==
    /\ shutters[thread] = "waiting" /\ server = "over"
    /\ shutters' = [shutters EXCEPT ![thread] = "over"]
    /\ UNCHANGED <<exceptServer, asked, server>>

-----------------------------------------------------------------------------
Runner == CheckStopped \/ Emit \/ Attach \/ Start \/ Open \/ Recheck \/ Subscribe
          \/ ReadCancelled \/ Got \/ Process \/ After \/ Close \/ Teardown \/ Release
          \/ RunCloses("closing", "joining") \/ RunJoins("joining", "idle")
          \/ RunCloses("handler closing", "handler joining")
          \/ RunJoins("handler joining", "after")
Stopper == StopReadsTransport \/ StopHaltsAdapter \/ StopReadsStream \/ StopCancels
           \/ StopReadsServer \/ StopCloses \/ StopJoins
Shutter(thread) == ShutterAsks(thread) \/ ShutterCloses(thread)
Environment == Run \/ StopFlags \/ ReadEnvelope \/ ReadEnds \/ ReadNotFound
               \/ HandlerRaises \/ HandlerStops

Next == Runner \/ Stopper \/ ServerEnds \/ (\E thread \in DOMAIN shutters : Shutter(thread))
        \/ Environment

\* Threads that can take a step do; the runtime owes nobody an envelope, and
\* nobody owes a call of run() or stop().
Spec ==
    /\ Init /\ [][Next]_vars
    /\ WF_vars(Runner) /\ WF_vars(Stopper) /\ WF_vars(ServerEnds)
    /\ \A thread \in {"run", "stop"} : WF_vars(Shutter(thread))

-----------------------------------------------------------------------------
TypeOK ==
    /\ pc \in RunnerStates /\ spc \in StopperStates
    /\ stopped \in BOOLEAN /\ transport \in BOOLEAN /\ halted \in BOOLEAN
    /\ subscribed \in BOOLEAN /\ bound \in BOOLEAN /\ asked \in BOOLEAN
    /\ server \in {"serving", "handling", "over"}
    /\ shutters \in [{"run", "stop"} -> {"none", "asking", "waiting", "over"}]
    /\ calls \in Seq({"live", "aborted"})
    /\ stream \in 0..Len(calls) /\ target \in 0..Len(calls)
    /\ cursor \in 0..Len(History) /\ position \in 0..Len(History)
    /\ attempt \in 0..MaxRetries /\ runs \in 0..MaxRuns /\ failures \in 0..MaxFailures
    /\ ended \in Nat

\* The cancel endpoint lives exactly as long as the participant can run: it serves
\* until stop() or the end of the session, and is released once neither run()
\* nor stop() is under way after it (the teardown contract of run()).
ServerFollowsRun ==
    /\ ~stopped => bound /\ server = "serving"
    /\ stopped /\ pc = "idle" /\ spc \in {"ready", "done"} =>
        ~bound /\ \E thread \in DOMAIN shutters : shutters[thread] # "none"

\* A run() that ends without the participant stopped has subscribed: a
\* sequential run() after one that returned is unaffected by it (run()'s
\* docstring, docs/guides/agent-framework.md).
RunSubscribes == pc = "teardown" /\ ~stopped => subscribed

\* A terminal envelope ends run() without waiting for another envelope.
TerminalReturns == ended > 0 ~> pc = "idle"

\* The port of the cancel endpoint is free again.
Unbound == \E thread \in DOMAIN shutters : shutters[thread] = "over"

\* stop() returns whoever calls it, the server's own thread included; then run()
\* returns, even from a read of a quiet stream, and the endpoint is gone.
StopReturns == spc # "ready" ~> spc = "done" /\ pc = "idle" /\ Unbound
=============================================================================
