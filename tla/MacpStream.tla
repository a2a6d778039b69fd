---------------------------- MODULE MacpStream ------------------------------
(***************************************************************************)
(* MacpStream: one bidirectional StreamSession call between threads.  The  *)
(* pump thread turns the call's responses into a queue that any number of  *)
(* threads read; gRPC's own thread runs the request iterator over the      *)
(* queue that other threads send, close and cancel through.  No lock       *)
(* covers more than one queue operation, so every step below is one read   *)
(* or write of the closed flag, or one put or get.                         *)
(*                                                                         *)
(* The server is external: it sends frames, and ends or fails the call     *)
(* when it likes.  A frame is an envelope or an inline error; an empty one *)
(* is passed over like an error without callbacks.                         *)
(***************************************************************************)
EXTENDS Naturals, Sequences

CONSTANTS
    Readers,           \* threads that call read() or responses()
    Writers,           \* threads that call send(), close() and cancel()
    CallbacksRaise,    \* may an inline-error callback raise
    MaxFrames,         \* bound on what the server sends
    MaxCalls           \* bound on what all threads together call

ASSUME StreamAssumption ==
    /\ CallbacksRaise \in BOOLEAN
    /\ MaxFrames \in Nat /\ MaxCalls \in Nat

FrameKinds == {"envelope", "error"}

VARIABLES
    frames,            \* kinds of the frames the server sent
    call,              \* the gRPC call
    pumped,            \* how many frames the pump took from the call
    pump,              \* in its loop, in its finally, or done
    raised,            \* did an inline-error callback raise
    responses,         \* _responses
    reader,            \* where each thread is in read()
    last, toldFailure, toldEnd,    \* what readers were given so far
    closed,            \* _closed
    requests,          \* _requests
    writer,            \* where each thread is in send(), close() or cancel()
    owed,              \* frames put before anyone closed the stream
    consumer,          \* gRPC's thread over _request_iter
    sent,              \* request frames that went out
    calls              \* calls of any of these so far

readVars == <<responses, last, toldFailure, toldEnd>>
callVars == <<frames, call>>
pumpVars == <<pumped, pump, raised>>
toldVars == <<last, toldFailure, toldEnd>>
writeVars == <<closed, requests, writer, owed, consumer, sent>>
vars == <<callVars, pumpVars, readVars, reader, writeVars, calls>>

\* What the response queue holds: envelopes, named by their frame, the RpcError
\* and the end sentinel.
Envelope(p) == [kind |-> "envelope", frame |-> p]
Failure == [kind |-> "failure", frame |-> 0]
End == [kind |-> "end", frame |-> 0]

Init ==
    /\ frames = <<>> /\ call = "live"
    /\ pumped = 0 /\ pump = "loop" /\ raised = FALSE
    /\ responses = <<>> /\ last = 0 /\ toldFailure = FALSE /\ toldEnd = FALSE
    /\ reader = [r \in Readers |-> "idle"]
    /\ closed = FALSE /\ requests = <<>> /\ writer = [w \in Writers |-> "idle"]
    /\ owed = 0 /\ consumer = "running" /\ sent = 0 /\ calls = 0

-----------------------------------------------------------------------------
\* The server.
ServerSends(k) ==
    /\ call = "live" /\ Len(frames) < MaxFrames
    /\ frames' = Append(frames, k)
    /\ UNCHANGED <<call, pumpVars, readVars, reader, writeVars, calls>>

ServerStops(how) ==
    /\ call = "live" /\ call' = how
    /\ UNCHANGED <<frames, pumpVars, readVars, reader, writeVars, calls>>

-----------------------------------------------------------------------------
\* _pump_responses.  Frames that arrived before the call was over may still be
\* read from it; after a failure or a cancellation they may also be gone.
Classified_Everything(p) == TRUE
Classified(p) == frames[p] = "envelope"

PumpFrame ==
    /\ pump = "loop" /\ pumped < Len(frames) /\ pumped' = pumped + 1
    /\ responses' = IF Classified(pumped') THEN Append(responses, Envelope(pumped'))
                                           ELSE responses
    /\ UNCHANGED <<callVars, pump, raised, toldVars, reader, writeVars, calls>>

\* A callback of on_inline_error raises: no except clause covers it.
CallbackRaises ==
    /\ CallbacksRaise
    /\ pump = "loop" /\ pumped < Len(frames) /\ frames[pumped + 1] = "error"
    /\ pumped' = pumped + 1 /\ pump' = "finally" /\ raised' = TRUE
    /\ UNCHANGED <<callVars, readVars, reader, writeVars, calls>>

PumpEnds ==
    /\ pump = "loop" /\ call = "ended" /\ pumped = Len(frames)
    /\ pump' = "finally"
    /\ UNCHANGED <<callVars, pumped, raised, readVars, reader, writeVars, calls>>

Surfaced_Ahead(queue) == <<Failure>> \o queue
Surfaced_Swallowed(queue) == queue
Surfaced(queue) == Append(queue, Failure)

\* except grpc.RpcError: the call failed, or somebody cancelled it.
PumpFails ==
    /\ pump = "loop" /\ call \in {"failed", "cancelled"}
    /\ pump' = "finally" /\ responses' = Surfaced(responses)
    /\ UNCHANGED <<callVars, pumped, raised, toldVars, reader, writeVars, calls>>

PumpFinally ==
    /\ pump = "finally" /\ pump' = "done"
    /\ responses' = Append(responses, End)
    /\ UNCHANGED <<callVars, pumped, raised, toldVars, reader, writeVars, calls>>

-----------------------------------------------------------------------------
\* Some thread calls something.
CallMade == calls < MaxCalls /\ calls' = calls + 1

\* read(), by any thread; the item taken is what counts as the order of reads.
Read(r) ==
    /\ reader[r] = "idle" /\ CallMade
    /\ reader' = [reader EXCEPT ![r] = "parked"]
    /\ UNCHANGED <<callVars, pumpVars, readVars, writeVars>>

Take(r, kind, next) ==
    /\ reader[r] = "parked" /\ responses # <<>> /\ Head(responses).kind = kind
    /\ responses' = Tail(responses)
    /\ reader' = [reader EXCEPT ![r] = next]
    /\ UNCHANGED <<callVars, pumpVars, writeVars, calls>>

ReadEnvelope(r) ==
    /\ Take(r, "envelope", "idle")
    /\ last' = Head(responses).frame
    /\ UNCHANGED <<toldFailure, toldEnd>>

ReadFailure(r) ==
    /\ Take(r, "failure", "idle")
    /\ toldFailure' = TRUE
    /\ UNCHANGED <<last, toldEnd>>

AfterEnd_OneShot == "idle"
AfterEnd == "holding"

\* The sentinel is taken, then put back for whoever reads next.
ReadEnd(r) ==
    /\ Take(r, "end", AfterEnd)
    /\ toldEnd' = TRUE
    /\ UNCHANGED <<last, toldFailure>>

PutEndBack(r) ==
    /\ reader[r] = "holding"
    /\ responses' = Append(responses, End)
    /\ reader' = [reader EXCEPT ![r] = "idle"]
    /\ UNCHANGED <<callVars, pumpVars, toldVars, writeVars, calls>>

\* queue.Empty, of a read that was given a timeout.
ReadTimesOut(r) ==
    /\ reader[r] = "parked" /\ responses = <<>>
    /\ reader' = [reader EXCEPT ![r] = "idle"]
    /\ UNCHANGED <<callVars, pumpVars, readVars, writeVars, calls>>

-----------------------------------------------------------------------------
\* send(), close() and cancel(): the closed flag is tested in one step and acted
\* on in later ones.
Writing(w, from, to) ==
    /\ writer[w] = from /\ writer' = [writer EXCEPT ![w] = to]
    /\ UNCHANGED <<frames, pumpVars, readVars, reader, consumer, sent>>

Called(w, to) ==
    /\ Writing(w, "idle", to)
    /\ CallMade
    /\ UNCHANGED <<call, closed, requests, owed>>

\* send() or send_subscribe(); on a closed stream it raises.
Send(w) == Called(w, "sending") /\ ~closed
Close(w) == Called(w, "closing") /\ ~closed
Cancel(w) == Called(w, IF closed THEN "aborting" ELSE "cancelling")

Put(w) ==
    /\ Writing(w, "sending", "idle")
    /\ requests' = Append(requests, "frame")
    /\ owed' = IF closed THEN owed ELSE owed + 1
    /\ UNCHANGED <<call, closed, calls>>

SetClosed(w) ==
    /\ \/ Writing(w, "closing", "marking")
       \/ Writing(w, "cancelling", "cancelMarking")
    /\ closed' = TRUE
    /\ UNCHANGED <<call, requests, calls, owed>>

Marked_Ahead(queue) == <<"end">> \o queue
Marked(queue) == Append(queue, "end")

PutMark(w) ==
    /\ \/ Writing(w, "marking", "idle")
       \/ Writing(w, "cancelMarking", "aborting")
    /\ requests' = Marked(requests)
    /\ UNCHANGED <<call, closed, calls, owed>>

\* self._call.cancel(): nothing to a call that is over.
Abort(w) ==
    /\ Writing(w, "aborting", "idle")
    /\ call' = IF call = "live" THEN "cancelled" ELSE call
    /\ UNCHANGED <<closed, requests, calls, owed>>

\* gRPC's thread asks _request_iter for the next frame; over a finished call what it
\* gets is dropped, and it stops.
Transmit ==
    /\ consumer = "running" /\ requests # <<>> /\ Head(requests) = "frame"
    /\ requests' = Tail(requests)
    /\ IF call = "live" THEN sent' = sent + 1 /\ UNCHANGED consumer
                        ELSE consumer' = "dropped" /\ UNCHANGED sent
    /\ UNCHANGED <<callVars, pumpVars, readVars, reader, closed, writer, owed, calls>>

HalfClose ==
    /\ consumer = "running" /\ requests # <<>> /\ Head(requests) = "end"
    /\ requests' = Tail(requests) /\ consumer' = "halfClosed"
    /\ UNCHANGED <<callVars, pumpVars, readVars, reader, closed, writer, owed, sent, calls>>

-----------------------------------------------------------------------------
Server ==
    \/ \E k \in FrameKinds : ServerSends(k)
    \/ \E how \in {"ended", "failed"} : ServerStops(how)
Pump == PumpFrame \/ CallbackRaises \/ PumpEnds \/ PumpFails \/ PumpFinally
Reading(r) == ReadEnvelope(r) \/ ReadFailure(r) \/ ReadEnd(r) \/ PutEndBack(r)
ReaderStep(r) == Read(r) \/ Reading(r) \/ ReadTimesOut(r)
Finishing(w) == Put(w) \/ SetClosed(w) \/ PutMark(w) \/ Abort(w)
WriterStep(w) == Send(w) \/ Close(w) \/ Cancel(w) \/ Finishing(w)
Consumer == Transmit \/ HalfClose

Next ==
    \/ Server \/ Pump \/ Consumer
    \/ \E r \in Readers : ReaderStep(r)
    \/ \E w \in Writers : WriterStep(w)

Spec == Init /\ [][Next]_vars

-----------------------------------------------------------------------------
Items == {Failure, End} \cup {Envelope(p) : p \in {q \in 1..pumped : frames[q] = "envelope"}}

TypeOK ==
    /\ frames \in Seq(FrameKinds) /\ Len(frames) <= MaxFrames
    /\ call \in {"live", "ended", "failed", "cancelled"}
    /\ pumped \in 0..Len(frames) /\ pump \in {"loop", "finally", "done"}
    /\ responses \in Seq(Items) /\ last \in 0..pumped
    /\ raised \in BOOLEAN /\ toldFailure \in BOOLEAN /\ toldEnd \in BOOLEAN
    /\ closed \in BOOLEAN
    /\ reader \in [Readers -> {"idle", "parked", "holding"}]
    /\ requests \in Seq({"frame", "end"})
    /\ writer \in [Writers -> {"idle", "sending", "closing", "marking", "cancelling",
                               "cancelMarking", "aborting"}]
    /\ calls \in 0..MaxCalls /\ owed \in Nat /\ sent \in Nat
    /\ consumer \in {"running", "halfClosed", "dropped"}

\* Envelopes in order and each once, then at most one failure, then the end, which
\* every later read sees (read()'s comment on the sentinel; docs/guides/async.md).
Promise == INSTANCE StreamPromise
PromiseSpec == Promise!Spec

\* A reader that sees the end of the stream may rely on it: unless a callback
\* raised, the call is over, a failed one was reported before, and a call the server
\* ended has handed over every envelope (read(), _pump_responses).
EndIsTruth ==
    toldEnd /\ ~raised =>
        /\ call # "live"
        /\ call \in {"failed", "cancelled"} => toldFailure
        /\ call = "ended" => \A p \in DOMAIN frames : frames[p] = "envelope" => p <= last

\* Closing sends what was put first: every frame put before anybody closed the
\* stream has gone out when the request side half-closes, unless the call was over
\* (close(), _request_iter).
SentBeforeClose == consumer = "halfClosed" /\ call = "live" => sent >= owed
=============================================================================
