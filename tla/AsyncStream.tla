---------------------------- MODULE AsyncStream -----------------------------
(***************************************************************************)
(* AsyncMacpStream beside MacpStream, whose contract it keeps              *)
(* (docs/guides/async.md): one StreamSession call between the tasks of an  *)
(* event loop.  Tasks change hands at an await only, so what MacpStream    *)
(* does in several steps is one step here: the pump publishes a failure    *)
(* and the end together, and a reader puts the end back as it takes it.    *)
(* There is no request queue: send() holds a write lock while it awaits    *)
(* the write, and tests the closed flag before it waits for the lock.      *)
(*                                                                         *)
(* The server and grpc.aio are external: a write of a live call may take   *)
(* for ever, one in flight when the request side half-closes goes out.     *)
(***************************************************************************)
EXTENDS MacpStream

VARIABLES
    flavour,           \* "threads" for a MacpStream, "asyncio" for an AsyncMacpStream
    task,              \* where each task is in send() or __aexit__()
    write_lock,        \* _write_lock: its holder, then who waits for it
    in_flight          \* does the holder await the call's write

asyncVars == <<flavour, task, write_lock, in_flight>>
allVars == <<vars, asyncVars>>

AsyncInit ==
    /\ Init
    /\ flavour \in {"threads", "asyncio"}
    /\ task = [w \in Writers |-> "idle"] /\ write_lock = <<>> /\ in_flight = FALSE

Threads(step) == flavour = "threads" /\ step /\ UNCHANGED asyncVars
Loop(step) == flavour = "asyncio" /\ step /\ UNCHANGED asyncVars

-----------------------------------------------------------------------------
\* The pump task.  What it publishes when it leaves its loop is followed by the end.
AsyncPumpFrame == PumpFrame

Publishes(items) ==
    /\ pump = "loop" /\ pump' = "done"
    /\ responses' = responses \o items \o <<End>>
    /\ UNCHANGED <<callVars, toldVars, reader, writeVars, calls>>

AsyncCallbackRaises ==
    /\ CallbacksRaise /\ pumped < Len(frames) /\ frames[pumped + 1] = "error"
    /\ Publishes(<<>>) /\ pumped' = pumped + 1 /\ raised' = TRUE

AsyncPumpEnds ==
    /\ call = "ended" /\ pumped = Len(frames)
    /\ Publishes(<<>>) /\ UNCHANGED <<pumped, raised>>

\* A failed call raises RpcError, a cancelled one CancelledError, in the pump's await.
AsyncSurfaced_RpcErrorOnly(how) == IF how = "failed" THEN <<Failure>> ELSE <<>>
AsyncSurfaced(how) == <<Failure>>

AsyncPumpFails ==
    /\ call \in {"failed", "cancelled"}
    /\ Publishes(AsyncSurfaced(call)) /\ UNCHANGED <<pumped, raised>>

-----------------------------------------------------------------------------
\* read() awaits the queue, with a timeout or without.
AsyncRead(r) == Read(r)
AsyncReadEnvelope(r) == ReadEnvelope(r)
AsyncReadFailure(r) == ReadFailure(r)
AsyncReadTimesOut(r) == ReadTimesOut(r)

AsyncReadEnd(r) ==
    /\ reader[r] = "parked" /\ responses # <<>> /\ Head(responses) = End
    /\ responses' = Append(Tail(responses), End) /\ toldEnd' = TRUE
    /\ reader' = [reader EXCEPT ![r] = "idle"]
    /\ UNCHANGED <<callVars, pumpVars, last, toldFailure, writeVars, calls>>

-----------------------------------------------------------------------------
\* A task that sends, closes, cancels or leaves the async with block.
Tasked(w, from, to) ==
    /\ flavour = "asyncio" /\ task[w] = from /\ task' = [task EXCEPT ![w] = to]
    /\ UNCHANGED <<flavour, frames, pumpVars, readVars, reader, requests, writer>>

TaskCalls(w, to) == Tasked(w, "idle", to) /\ CallMade

\* send() of an open stream: it writes at once if nobody holds the lock, or queues up; a
\* write of a call that is over raises.
AsyncSend(w) ==
    /\ TaskCalls(w, "sending") /\ ~closed
    /\ write_lock = <<>> => call = "live"
    /\ write_lock' = Append(write_lock, w)
    /\ in_flight' = (in_flight \/ write_lock = <<>>)
    /\ UNCHANGED <<call, closed, owed, consumer, sent>>

\* The holder is done with the lock, its write done or raised.
Released_OnSuccess(lock) == IF call = "live" /\ in_flight THEN Tail(lock) ELSE lock
Released(lock) == Tail(lock)

Leaves(w) ==
    /\ write_lock # <<>> /\ w = Head(write_lock)
    /\ Tasked(w, "sending", "idle")
    /\ write_lock' = Released(write_lock) /\ in_flight' = FALSE
    /\ UNCHANGED <<call, closed, consumer, calls>>

\* The next in line has the lock, and does not test the closed flag again.
Granted(w) ==
    /\ write_lock # <<>> /\ w = Head(write_lock) /\ ~in_flight
    /\ call = "live" /\ consumer = "running"
    /\ Tasked(w, "sending", "sending") /\ in_flight' = TRUE
    /\ UNCHANGED <<call, closed, owed, consumer, sent, write_lock, calls>>

Written(w) ==
    /\ in_flight /\ call = "live" /\ Leaves(w)
    /\ sent' = sent + 1 /\ owed' = IF closed THEN owed ELSE owed + 1

\* The call is over, or half-closed by another task since: the write raises.
WriteRaises(w) ==
    /\ call # "live" \/ (~in_flight /\ consumer = "halfClosed")
    /\ Leaves(w) /\ UNCHANGED <<sent, owed>>

AsyncClose(w) ==
    /\ TaskCalls(w, "idle") /\ ~closed /\ closed' = TRUE
    /\ consumer' = IF call = "live" THEN "halfClosed" ELSE consumer
    /\ UNCHANGED <<call, owed, sent, write_lock, in_flight>>

Aborts ==
    /\ closed' = TRUE /\ call' = IF call = "live" THEN "cancelled" ELSE call
    /\ UNCHANGED <<owed, consumer, sent, write_lock, in_flight>>

AsyncCancel(w) == TaskCalls(w, "idle") /\ Aborts

\* __aexit__ cancels, then waits for the pump.
Exit(w) == TaskCalls(w, "leaving") /\ Aborts
Exited(w) ==
    /\ Tasked(w, "leaving", "idle") /\ pump = "done"
    /\ UNCHANGED <<call, closed, owed, consumer, sent, write_lock, in_flight, calls>>

-----------------------------------------------------------------------------
AsyncPump == AsyncPumpFrame \/ AsyncCallbackRaises \/ AsyncPumpEnds \/ AsyncPumpFails
AsyncReading(r) == AsyncReadEnvelope(r) \/ AsyncReadFailure(r) \/ AsyncReadEnd(r)
AsyncReader(r) == AsyncRead(r) \/ AsyncReading(r) \/ AsyncReadTimesOut(r)
AsyncFinishing(w) == Granted(w) \/ WriteRaises(w) \/ Exited(w)
AsyncWriter(w) == AsyncSend(w) \/ Written(w) \/ AsyncClose(w) \/ AsyncCancel(w) \/ Exit(w)
                  \/ AsyncFinishing(w)

AsyncNext ==
    \/ Threads(Next)
    \/ Loop(Server) \/ Loop(AsyncPump)
    \/ \E r \in Readers : Loop(AsyncReader(r))
    \/ \E w \in Writers : AsyncWriter(w)

AsyncSpec == AsyncInit /\ [][AsyncNext]_allVars

\* Threads and tasks run; nobody has to call anything, no timeout has to be set, and the
\* server owes neither a frame nor an end, nor room for a write.
StreamsSpec ==
    /\ AsyncSpec
    /\ WF_allVars(Threads(Pump) \/ Loop(AsyncPump)) /\ WF_allVars(Threads(Consumer))
    /\ \A r \in Readers : WF_allVars(Threads(Reading(r)) \/ Loop(AsyncReading(r)))
    /\ \A w \in Writers : WF_allVars(Threads(Finishing(w)) \/ AsyncFinishing(w))

-----------------------------------------------------------------------------
\* Once the call is over nobody waits on the stream: a parked read returns without a
\* timeout, a send() in flight or behind the write lock returns or raises, and __aexit__
\* comes back, whoever else reads, closes or cancels (cancel()'s docstring).  Calls are
\* bounded, so one that never returned would keep somebody waiting for ever.
Waits ==
    \/ call # "live" /\ \E r \in Readers : reader[r] = "parked"
    \/ call # "live" /\ \E w \in Writers : task[w] = "sending"
    \/ \E w \in Writers : task[w] = "leaving"
CallsReturn == Waits ~> ~Waits
=============================================================================
