------------------------ MODULE ParticipantRunProofs ------------------------
(***************************************************************************)
(* Proofs about ParticipantRun, for any history and any number of runs,    *)
(* retries and failures.                                                   *)
(*                                                                         *)
(* The argument.  Nothing touches the cancel-callback server before the    *)
(* stop flag is set, and the handle is forgotten only by whoever spawns a  *)
(* shutdown thread for it.  A stop flag set without stop(), by a terminal  *)
(* envelope or by a handler on run()'s thread, is set where run() still    *)
(* has its release ahead; one set by stop() is followed by stop()'s own.   *)
(* One set by a terminal envelope meets a test of it before every read.    *)
(***************************************************************************)
EXTENDS ParticipantRun, SequenceTheorems, TLAPS

\* The types, part by part.
Control ==
    /\ pc \in RunnerStates /\ spc \in StopperStates
    /\ server \in {"serving", "handling", "over"}
    /\ shutters \in [{"run", "stop"} -> {"none", "asking", "waiting", "over"}]
Flags ==
    /\ stopped \in BOOLEAN /\ transport \in BOOLEAN /\ halted \in BOOLEAN
    /\ subscribed \in BOOLEAN /\ bound \in BOOLEAN /\ asked \in BOOLEAN
Calls ==
    /\ calls \in Seq({"live", "aborted"})
    /\ stream \in 0..Len(calls) /\ target \in 0..Len(calls)
Counts ==
    /\ cursor \in 0..Len(History) /\ position \in 0..Len(History)
    /\ attempt \in 0..MaxRetries /\ runs \in 0..MaxRuns /\ failures \in 0..MaxFailures
    /\ ended \in Nat

\* The resume cursor stands at the envelope being read, or just before the one in hand.
Reading ==
    /\ pc = "read" => cursor = position
    /\ pc \in {"got", "dispatch", "after", "handler closing", "handler joining"} =>
        cursor + 1 = position

\* What only a stopped participant does.
OnlyOnceStopped ==
    ~stopped => /\ spc = "ready" /\ server = "serving" /\ ~asked /\ bound
                /\ \A thread \in {"run", "stop"} : shutters[thread] = "none"
                /\ pc \notin {"closing", "joining", "handler closing", "handler joining"}

\* Who forgets the handle shuts the server down.
ForgottenIsShut == ~bound => \E thread \in {"run", "stop"} : shutters[thread] # "none"

\* A stopped participant whose server is still set has a release ahead of it.
ReleaseAhead ==
    /\ spc \in {"joining", "done"} => ~bound
    /\ pc \in {"joining", "handler joining"} => ~bound
    /\ stopped /\ spc = "ready" /\ bound =>
        pc \in {"after", "close", "teardown", "release", "closing", "handler closing"}

\* With a transport from the start, cancel() finds the stream run() may read from: it
\* halts the adapter first, and run() passes its recheck only before that.
Live == {"subscribe", "read", "got", "dispatch", "after", "handler closing", "handler joining"}
Past == {"unbind", "closing", "joining", "done"}
CancelSees ==
    Injected =>
        /\ transport
        /\ spc \in {"halted", "cancel"} \cup Past => halted
        /\ pc \in {"recheck"} \cup Live => stream \in 1..Len(calls)
        /\ spc = "cancel" /\ pc \in Live => target = stream
        /\ spc \in Past /\ pc \in Live => calls[stream] = "aborted"

IInv ==
    /\ Control /\ Flags /\ Calls /\ Counts /\ Reading
    /\ OnlyOnceStopped /\ ForgottenIsShut /\ ReleaseAhead /\ CancelSees

-----------------------------------------------------------------------------
\* Each step leads where the code goes on.
LEMMA ControlKept ==
    ASSUME Control, [Next]_vars
    PROVE  Control'
<1> USE DEF Control, RunnerStates, StopperStates
<1>1. CASE Run \/ CheckStopped \/ Emit \/ Attach \/ Start \/ Open \/ Recheck \/ Subscribe
  BY <1>1 DEF Run, CheckStopped, Emit, Attach, Start, Open, Recheck, RecheckTo, Subscribe,
        Goto, StopSteps, serverVars
<1>2. CASE ReadEnvelope \/ ReadCancelled \/ ReadEnds \/ ReadNotFound
  BY <1>2 DEF ReadEnvelope, ReadCancelled, ReadEnds, ReadNotFound, MayRetry, Goto, StopSteps,
        serverVars
<1>3. CASE Got \/ Process \/ HandlerRaises \/ HandlerStops \/ After
  BY <1>3 DEF Got, Process, StoppedAfter, HandlerRaises, HandlerStops, After, AfterTo, Goto,
        StopSteps, serverVars
<1>4. CASE Close \/ Teardown \/ Release
  BY <1>4 DEF Close, Teardown, Release, Releases, Goto, StopSteps, serverVars
<1>5. CASE RunCloses("closing", "joining") \/ RunCloses("handler closing", "handler joining")
  BY <1>5 DEF RunCloses, Goto, StopSteps, serverVars
<1>6. CASE RunJoins("joining", "idle") \/ RunJoins("handler joining", "after")
  BY <1>6 DEF RunJoins, MayReturn, Goto, StopSteps, serverVars
<1>7. CASE StopFlags \/ StopReadsTransport \/ StopHaltsAdapter \/ StopReadsStream \/ StopCancels
  BY <1>7 DEF StopFlags, StopReadsTransport, StopHaltsAdapter, StopReadsStream, StopCancels,
        Goto, StopSteps, serverVars
<1>8. CASE StopReadsServer \/ StopCloses \/ StopJoins
  BY <1>8 DEF StopReadsServer, HandlerReturned, StopCloses, StopJoins, MayReturn, Goto,
        StopSteps, serverVars
<1>9. CASE ServerEnds \/ \E thread \in DOMAIN shutters : Shutter(thread)
  BY <1>9 DEF ServerEnds, Shutter, ShutterAsks, ShutterCloses, exceptServer
<1>10. CASE UNCHANGED vars
  BY <1>10 DEF vars
<1> QED BY <1>1, <1>2, <1>3, <1>4, <1>5, <1>6, <1>7, <1>8, <1>9, <1>10
        DEF Next, Runner, Stopper, Environment

\* A flag is only ever set to a truth value.
LEMMA FlagsKept ==
    ASSUME Flags, [Next]_vars
    PROVE  Flags'
<1> USE DEF Flags
<1>1. CASE Run \/ Subscribe
  BY <1>1 DEF Run, Subscribe, StopSteps, adapterVars, progressVars, serverVars
<1>2. CASE CheckStopped \/ Emit \/ Start \/ Open \/ Recheck
  BY <1>2 DEF CheckStopped, Emit, Start, Open, Recheck, RecheckTo, StopSteps, adapterVars,
        progressVars, serverVars
<1>3. CASE Attach
  BY <1>3 DEF Attach, StopSteps, adapterVars, progressVars, serverVars
<1>4. CASE ReadEnvelope \/ ReadCancelled \/ ReadEnds \/ ReadNotFound
  BY <1>4 DEF ReadEnvelope, ReadCancelled, ReadEnds, ReadNotFound, MayRetry, StopSteps,
        adapterVars, progressVars, serverVars
<1>5. CASE Got \/ Process \/ HandlerRaises
  BY <1>5 DEF Got, Process, StoppedAfter, HandlerRaises, StopSteps, adapterVars, progressVars,
        serverVars
<1>6. CASE HandlerStops
  BY <1>6 DEF HandlerStops, StopSteps, adapterVars, progressVars, serverVars
<1>7. CASE After
  BY <1>7 DEF After, AfterTo, StopSteps, adapterVars, progressVars, serverVars
<1>8. CASE Close \/ Teardown \/ Release
  BY <1>8 DEF Close, Teardown, Release, Releases, StopSteps, adapterVars, progressVars,
        serverVars
<1>9. CASE RunCloses("closing", "joining") \/ RunCloses("handler closing", "handler joining")
  BY <1>9 DEF RunCloses, StopSteps, adapterVars, progressVars, serverVars
<1>10. CASE RunJoins("joining", "idle") \/ RunJoins("handler joining", "after")
  BY <1>10 DEF RunJoins, MayReturn, StopSteps, adapterVars, progressVars, serverVars
<1>11. CASE StopFlags \/ StopReadsTransport
  BY <1>11 DEF StopFlags, StopReadsTransport, StopSteps, adapterVars, progressVars, serverVars
<1>12. CASE StopHaltsAdapter
  BY <1>12 DEF StopHaltsAdapter, StopSteps, adapterVars, progressVars, serverVars
<1>13. CASE StopReadsStream \/ StopCancels
  BY <1>13 DEF StopReadsStream, StopCancels, StopSteps, adapterVars, progressVars, serverVars
<1>14. CASE StopReadsServer \/ StopCloses \/ StopJoins
  BY <1>14 DEF StopReadsServer, HandlerReturned, StopCloses, StopJoins, MayReturn, StopSteps,
        adapterVars, progressVars, serverVars
<1>15. CASE ServerEnds \/ \E thread \in DOMAIN shutters : Shutter(thread)
  BY <1>15 DEF ServerEnds, Shutter, ShutterAsks, ShutterCloses, exceptServer, adapterVars,
        progressVars
<1>16. CASE UNCHANGED vars
  BY <1>16 DEF vars
<1> QED BY <1>1, <1>2, <1>3, <1>4, <1>5, <1>6, <1>7, <1>8, <1>9, <1>10, <1>11, <1>12, <1>13,
        <1>14, <1>15, <1>16
        DEF Next, Runner, Stopper, Environment

\* Marking an entry of a sequence keeps its length and its type.
LEMMA MarkedSeq ==
    ASSUME NEW S, NEW q \in Seq(S), NEW i, NEW x \in S
    PROVE  [q EXCEPT ![i] = x] \in Seq(S) /\ Len([q EXCEPT ![i] = x]) = Len(q)
<1>1. CASE i \in 1..Len(q)
  BY <1>1, ExceptSeq
<1>2. CASE i \notin 1..Len(q)
  <2>1. [q EXCEPT ![i] = x] = q
    BY <1>2
  <2> QED BY <2>1
<1> QED BY <1>1, <1>2

\* A call is opened once and only its state changes.
LEMMA CallsKept ==
    ASSUME Calls, [Next]_vars
    PROVE  Calls'
<1> USE MarkedSeq DEF Calls, None
<1>1. CASE Run \/ CheckStopped \/ Emit \/ Attach \/ Start \/ Subscribe
  BY <1>1 DEF Run, CheckStopped, Emit, Attach, Start, Subscribe, Goto, StopSteps, adapterVars
<1>2. CASE Open
  BY <1>2 DEF Open, Goto, StopSteps, adapterVars
<1>3. CASE Recheck
  BY <1>3 DEF Recheck, RecheckTo, Goto, StopSteps, adapterVars
<1>4. CASE ReadEnvelope \/ ReadCancelled \/ ReadEnds \/ ReadNotFound
  BY <1>4 DEF ReadEnvelope, ReadCancelled, ReadEnds, ReadNotFound, MayRetry, Goto, StopSteps,
        adapterVars
<1>5. CASE Got \/ Process \/ HandlerRaises \/ After
  BY <1>5 DEF Got, Process, StoppedAfter, HandlerRaises, After, AfterTo, Goto, StopSteps,
        adapterVars
<1>6. CASE HandlerStops
  <2>1. /\ calls' = [calls EXCEPT ![stream] = "aborted"]
        /\ UNCHANGED <<stream, target>>
    BY <1>6 DEF HandlerStops
  <2> QED BY <2>1
<1>7. CASE Close \/ Teardown \/ Release
  BY <1>7 DEF Close, Teardown, Release, Releases, Goto, StopSteps, adapterVars
<1>8. CASE RunCloses("closing", "joining") \/ RunCloses("handler closing", "handler joining") \/
           RunJoins("joining", "idle") \/ RunJoins("handler joining", "after")
  BY <1>8 DEF RunCloses, RunJoins, MayReturn, Goto, StopSteps, adapterVars
<1>9. CASE StopFlags \/ StopReadsTransport \/ StopHaltsAdapter \/ StopReadsStream
  BY <1>9 DEF StopFlags, StopReadsTransport, StopHaltsAdapter, StopReadsStream, Goto,
        StopSteps, adapterVars
<1>10. CASE StopCancels
  BY <1>10 DEF StopCancels, Goto, StopSteps, adapterVars
<1>11. CASE StopReadsServer \/ StopCloses \/ StopJoins
  BY <1>11 DEF StopReadsServer, HandlerReturned, StopCloses, StopJoins, MayReturn, Goto,
        StopSteps, adapterVars
<1>12. CASE ServerEnds \/ \E thread \in DOMAIN shutters : Shutter(thread)
  BY <1>12 DEF ServerEnds, Shutter, ShutterAsks, ShutterCloses, exceptServer, adapterVars
<1>13. CASE UNCHANGED vars
  BY <1>13 DEF vars
<1> QED BY <1>1, <1>2, <1>3, <1>4, <1>5, <1>6, <1>7, <1>8, <1>9, <1>10, <1>11, <1>12, <1>13
        DEF Next, Runner, Stopper, Environment

\* Fail counts up to its bound.
LEMMA FailCounts ==
    ASSUME Counts, Fail
    PROVE  failures' \in 0..MaxFailures
  BY RunAssumption DEF Counts, Fail

\* Nothing is counted past its bound.
LEMMA CountsKept ==
    ASSUME Counts, Reading, [Next]_vars
    PROVE  Counts'
<1> USE RunAssumption, FailCounts DEF Counts, Reading
<1>1. CASE Run
  BY <1>1 DEF Run, Goto, StopSteps, progressVars
<1>2. CASE CheckStopped \/ Attach \/ Start \/ Open \/ Recheck
  BY <1>2 DEF CheckStopped, Attach, Start, Open, Recheck, RecheckTo, Goto, StopSteps,
        progressVars
<1>3. CASE Emit
  BY <1>3 DEF Emit, Goto, StopSteps, progressVars
<1>4. CASE Subscribe
  BY <1>4 DEF Subscribe, Goto, StopSteps, progressVars
<1>5. CASE ReadEnvelope
  BY <1>5 DEF ReadEnvelope, Goto, StopSteps, progressVars
<1>6. CASE ReadCancelled
  BY <1>6 DEF ReadCancelled, Goto, StopSteps, progressVars
<1>7. CASE ReadEnds
  BY <1>7 DEF ReadEnds, Goto, StopSteps, progressVars
<1>8. CASE ReadNotFound
  BY <1>8 DEF ReadNotFound, MayRetry, Goto, StopSteps, progressVars
<1>9. CASE Got
  BY <1>9 DEF Got, Goto, StopSteps, progressVars
<1>10. CASE Process
  BY <1>10 DEF Process, StoppedAfter, Goto, StopSteps, progressVars
<1>11. CASE HandlerRaises
  BY <1>11 DEF HandlerRaises, Goto, StopSteps, progressVars
<1>12. CASE HandlerStops
  BY <1>12 DEF HandlerStops, Goto, StopSteps, progressVars
<1>13. CASE After
  BY <1>13 DEF After, AfterTo, Goto, StopSteps, progressVars
<1>14. CASE Close \/ Teardown \/ Release
  BY <1>14 DEF Close, Teardown, Release, Releases, Goto, StopSteps, progressVars
<1>15. CASE RunCloses("closing", "joining") \/ RunCloses("handler closing", "handler joining")
  BY <1>15 DEF RunCloses, Goto, StopSteps, progressVars
<1>16. CASE RunJoins("joining", "idle") \/ RunJoins("handler joining", "after")
  BY <1>16 DEF RunJoins, MayReturn, Goto, StopSteps, progressVars
<1>17. CASE StopFlags \/ StopReadsTransport \/ StopHaltsAdapter \/ StopReadsStream \/
            StopCancels \/ StopReadsServer \/ StopCloses
  BY <1>17 DEF StopFlags, StopReadsTransport, StopHaltsAdapter, StopReadsStream, StopCancels,
        StopReadsServer, HandlerReturned, StopCloses, Goto, StopSteps, progressVars
<1>18. CASE StopJoins
  BY <1>18 DEF StopJoins, MayReturn, HandlerReturned, Goto, StopSteps, progressVars
<1>19. CASE ServerEnds \/ \E thread \in DOMAIN shutters : Shutter(thread)
  BY <1>19 DEF ServerEnds, Shutter, ShutterAsks, ShutterCloses, exceptServer, progressVars
<1>20. CASE UNCHANGED vars
  BY <1>20 DEF vars
<1> QED BY <1>1, <1>2, <1>3, <1>4, <1>5, <1>6, <1>7, <1>8, <1>9, <1>10, <1>11, <1>12, <1>13,
        <1>14, <1>15, <1>16, <1>17, <1>18, <1>19, <1>20
        DEF Next, Runner, Stopper, Environment

\* Only a read moves the position, only the step after a dispatch the cursor.
LEMMA ReadingKept ==
    ASSUME Counts, Reading, [Next]_vars
    PROVE  Reading'
<1> USE DEF Counts, Reading
<1>1. CASE Run \/ CheckStopped \/ Emit \/ Attach \/ Start \/ Open \/ Recheck \/ Subscribe
  BY <1>1 DEF Run, CheckStopped, Emit, Attach, Start, Open, Recheck, RecheckTo, Subscribe,
        Goto, StopSteps, progressVars
<1>2. CASE ReadEnvelope \/ ReadCancelled \/ ReadEnds \/ ReadNotFound
  BY <1>2 DEF ReadEnvelope, ReadCancelled, ReadEnds, ReadNotFound, MayRetry, Goto, StopSteps,
        progressVars
<1>3. CASE Got \/ Process \/ HandlerRaises \/ HandlerStops
  BY <1>3 DEF Got, Process, StoppedAfter, HandlerRaises, HandlerStops, Goto, StopSteps,
        progressVars
<1>4. CASE After
  BY <1>4 DEF After, AfterTo, Goto, StopSteps, progressVars
<1>5. CASE Close \/ Teardown \/ Release
  BY <1>5 DEF Close, Teardown, Release, Releases, Goto, StopSteps, progressVars
<1>6. CASE RunCloses("closing", "joining") \/ RunCloses("handler closing", "handler joining") \/
           RunJoins("joining", "idle") \/ RunJoins("handler joining", "after")
  BY <1>6 DEF RunCloses, RunJoins, MayReturn, Goto, StopSteps, progressVars
<1>7. CASE StopFlags \/ StopReadsTransport \/ StopHaltsAdapter \/ StopReadsStream \/
           StopCancels \/ StopReadsServer \/ StopCloses \/ StopJoins
  BY <1>7 DEF StopFlags, StopReadsTransport, StopHaltsAdapter, StopReadsStream, StopCancels,
        StopReadsServer, HandlerReturned, StopCloses, StopJoins, MayReturn, Goto, StopSteps,
        progressVars
<1>8. CASE ServerEnds \/ \E thread \in DOMAIN shutters : Shutter(thread)
  BY <1>8 DEF ServerEnds, Shutter, ShutterAsks, ShutterCloses, exceptServer, progressVars
<1>9. CASE UNCHANGED vars
  BY <1>9 DEF vars
<1> QED BY <1>1, <1>2, <1>3, <1>4, <1>5, <1>6, <1>7, <1>8, <1>9
        DEF Next, Runner, Stopper, Environment

\* The server is not touched before the stop flag is set.
LEMMA OnlyOnceStoppedKept ==
    ASSUME Control, Flags, OnlyOnceStopped, [Next]_vars
    PROVE  OnlyOnceStopped'
<1> USE DEF Control, Flags, OnlyOnceStopped
<1>1. CASE Run \/ CheckStopped \/ Emit \/ Attach \/ Start \/ Open \/ Recheck \/ Subscribe
  BY <1>1 DEF Run, CheckStopped, Emit, Attach, Start, Open, Recheck, RecheckTo, Subscribe,
        Goto, StopSteps, serverVars
<1>2. CASE ReadEnvelope \/ ReadCancelled \/ ReadEnds \/ ReadNotFound
  BY <1>2 DEF ReadEnvelope, ReadCancelled, ReadEnds, ReadNotFound, MayRetry, Goto, StopSteps,
        serverVars
<1>3. CASE Got \/ Process \/ HandlerRaises \/ HandlerStops \/ After
  BY <1>3 DEF Got, Process, StoppedAfter, HandlerRaises, HandlerStops, After, AfterTo, Goto,
        StopSteps, serverVars
<1>4. CASE Close \/ Teardown \/ Release
  BY <1>4 DEF Close, Teardown, Release, Releases, Goto, StopSteps, serverVars
<1>5. CASE RunCloses("closing", "joining") \/ RunCloses("handler closing", "handler joining") \/
           RunJoins("joining", "idle") \/ RunJoins("handler joining", "after")
  BY <1>5 DEF RunCloses, RunJoins, MayReturn, Goto, StopSteps, serverVars
<1>6. CASE StopFlags \/ StopReadsTransport \/ StopHaltsAdapter \/ StopReadsStream \/ StopCancels
  BY <1>6 DEF StopFlags, StopReadsTransport, StopHaltsAdapter, StopReadsStream, StopCancels,
        Goto, StopSteps, serverVars
<1>7. CASE StopReadsServer \/ StopCloses \/ StopJoins
  BY <1>7 DEF StopReadsServer, HandlerReturned, StopCloses, StopJoins, MayReturn, Goto,
        StopSteps, serverVars
<1>8. CASE ServerEnds \/ \E thread \in DOMAIN shutters : Shutter(thread)
  BY <1>8 DEF ServerEnds, Shutter, ShutterAsks, ShutterCloses, exceptServer
<1>9. CASE UNCHANGED vars
  BY <1>9 DEF vars
<1> QED BY <1>1, <1>2, <1>3, <1>4, <1>5, <1>6, <1>7, <1>8, <1>9
        DEF Next, Runner, Stopper, Environment

\* The handle is forgotten in the step that spawns the shutdown thread.
LEMMA ForgottenIsShutKept ==
    ASSUME Control, ForgottenIsShut, [Next]_vars
    PROVE  ForgottenIsShut'
<1> USE DEF Control, ForgottenIsShut
<1>1. CASE Run \/ CheckStopped \/ Emit \/ Attach \/ Start \/ Open \/ Recheck \/ Subscribe
  BY <1>1 DEF Run, CheckStopped, Emit, Attach, Start, Open, Recheck, RecheckTo, Subscribe,
        serverVars
<1>2. CASE ReadEnvelope \/ ReadCancelled \/ ReadEnds \/ ReadNotFound
  BY <1>2 DEF ReadEnvelope, ReadCancelled, ReadEnds, ReadNotFound, MayRetry, serverVars
<1>3. CASE Got \/ Process \/ HandlerRaises \/ HandlerStops \/ After
  BY <1>3 DEF Got, Process, StoppedAfter, HandlerRaises, HandlerStops, After, AfterTo,
        serverVars
<1>4. CASE Close \/ Teardown \/ Release
  BY <1>4 DEF Close, Teardown, Release, Releases, serverVars
<1>5. CASE RunCloses("closing", "joining") \/ RunCloses("handler closing", "handler joining")
  BY <1>5 DEF RunCloses, serverVars
<1>6. CASE RunJoins("joining", "idle") \/ RunJoins("handler joining", "after")
  BY <1>6 DEF RunJoins, MayReturn, serverVars
<1>7. CASE StopFlags \/ StopReadsTransport \/ StopHaltsAdapter \/ StopReadsStream \/ StopCancels
  BY <1>7 DEF StopFlags, StopReadsTransport, StopHaltsAdapter, StopReadsStream, StopCancels,
        serverVars
<1>8. CASE StopReadsServer \/ StopJoins
  BY <1>8 DEF StopReadsServer, HandlerReturned, StopJoins, MayReturn, serverVars
<1>9. CASE StopCloses
  BY <1>9 DEF StopCloses, serverVars
<1>10. CASE ServerEnds
  BY <1>10 DEF ServerEnds, exceptServer
<1>11. ASSUME NEW thread \in DOMAIN shutters, Shutter(thread)
       PROVE  ForgottenIsShut'
  <2>1. shutters'[thread] # "none"
    BY <1>11 DEF Shutter, ShutterAsks, ShutterCloses
  <2> QED BY <2>1
<1>12. CASE UNCHANGED vars
  BY <1>12 DEF vars
<1> QED BY <1>1, <1>2, <1>3, <1>4, <1>5, <1>6, <1>7, <1>8, <1>9, <1>10, <1>11, <1>12
        DEF Next, Runner, Stopper, Environment

\* The flag is set with the release ahead, and the release closes what is still set.
LEMMA ReleaseAheadKept ==
    ASSUME OnlyOnceStopped, ReleaseAhead, [Next]_vars
    PROVE  ReleaseAhead'
<1> USE DEF OnlyOnceStopped, ReleaseAhead
<1>1. CASE Run
  BY <1>1 DEF Run, Goto, StopSteps, serverVars
<1>2. CASE CheckStopped
  BY <1>2 DEF CheckStopped, Goto, StopSteps, serverVars
<1>3. CASE Emit
  BY <1>3 DEF Emit, Goto, StopSteps, serverVars
<1>4. CASE Attach
  BY <1>4 DEF Attach, Goto, StopSteps, serverVars
<1>5. CASE Start
  BY <1>5 DEF Start, Goto, StopSteps, serverVars
<1>6. CASE Open
  BY <1>6 DEF Open, Goto, StopSteps, serverVars
<1>7. CASE Recheck
  BY <1>7 DEF Recheck, RecheckTo, Goto, StopSteps, serverVars
<1>8. CASE Subscribe
  BY <1>8 DEF Subscribe, Goto, StopSteps, serverVars
<1>9. CASE ReadEnvelope
  BY <1>9 DEF ReadEnvelope, Goto, StopSteps, serverVars
<1>10. CASE ReadCancelled
  BY <1>10 DEF ReadCancelled, Goto, StopSteps, serverVars
<1>11. CASE ReadEnds
  BY <1>11 DEF ReadEnds, Goto, StopSteps, serverVars
<1>12. CASE ReadNotFound
  BY <1>12 DEF ReadNotFound, MayRetry, Goto, StopSteps, serverVars
<1>13. CASE Got
  BY <1>13 DEF Got, Goto, StopSteps, serverVars
<1>14. CASE Process
  BY <1>14 DEF Process, StoppedAfter, Goto, StopSteps, serverVars
<1>15. CASE HandlerRaises
  BY <1>15 DEF HandlerRaises, Goto, StopSteps, serverVars
<1>16. CASE HandlerStops
  BY <1>16 DEF HandlerStops, Goto, StopSteps, serverVars
<1>17. CASE After
  BY <1>17 DEF After, AfterTo, Goto, StopSteps, serverVars
<1>18. CASE Close
  BY <1>18 DEF Close, Goto, StopSteps, serverVars
<1>19. CASE Teardown
  BY <1>19 DEF Teardown, Goto, StopSteps, serverVars
<1>20. CASE Release
  BY <1>20 DEF Release, Releases, Goto, StopSteps, serverVars
<1>21. CASE RunCloses("closing", "joining") \/ RunCloses("handler closing", "handler joining")
  BY <1>21 DEF RunCloses, Goto, StopSteps, serverVars
<1>22. CASE RunJoins("joining", "idle")
  BY <1>22 DEF RunJoins, MayReturn, Goto, StopSteps, serverVars
<1>23. CASE RunJoins("handler joining", "after")
  BY <1>23 DEF RunJoins, MayReturn, Goto, StopSteps, serverVars
<1>24. CASE StopFlags
  BY <1>24 DEF StopFlags, Goto, StopSteps, serverVars
<1>25. CASE StopReadsTransport
  BY <1>25 DEF StopReadsTransport, Goto, StopSteps, serverVars
<1>26. CASE StopHaltsAdapter
  BY <1>26 DEF StopHaltsAdapter, Goto, StopSteps, serverVars
<1>27. CASE StopReadsStream
  BY <1>27 DEF StopReadsStream, Goto, StopSteps, serverVars
<1>28. CASE StopCancels
  BY <1>28 DEF StopCancels, Goto, StopSteps, serverVars
<1>29. CASE StopReadsServer
  BY <1>29 DEF StopReadsServer, HandlerReturned, Goto, StopSteps, serverVars
<1>30. CASE StopCloses
  BY <1>30 DEF StopCloses, Goto, StopSteps, serverVars
<1>31. CASE StopJoins
  BY <1>31 DEF StopJoins, MayReturn, HandlerReturned, Goto, StopSteps, serverVars
<1>32. CASE ServerEnds
  BY <1>32 DEF ServerEnds, exceptServer
<1>33. ASSUME NEW thread \in DOMAIN shutters, Shutter(thread)
       PROVE  ReleaseAhead'
  <2>1. UNCHANGED <<pc, spc, stopped, bound>>
    BY <1>33 DEF Shutter, ShutterAsks, ShutterCloses, exceptServer
  <2> QED BY <2>1
<1>34. CASE UNCHANGED vars
  BY <1>34 DEF vars
<1> QED BY <1>1, <1>2, <1>3, <1>4, <1>5, <1>6, <1>7, <1>8, <1>9, <1>10, <1>11, <1>12, <1>13,
        <1>14, <1>15, <1>16, <1>17, <1>18, <1>19, <1>20, <1>21, <1>22, <1>23, <1>24, <1>25,
        <1>26, <1>27, <1>28, <1>29, <1>30, <1>31, <1>32, <1>33, <1>34
        DEF Next, Runner, Stopper, Environment

\* Either stop() sees the stream or run() sees the stop.
LEMMA CancelSeesKept ==
    ASSUME Control, Calls, CancelSees, [Next]_vars
    PROVE  CancelSees'
<1> USE MarkedSeq DEF Control, Calls, CancelSees, Live, Past, None
<1>1. CASE Run
  BY <1>1 DEF Run, Goto, StopSteps, adapterVars
<1>2. CASE CheckStopped
  BY <1>2 DEF CheckStopped, Goto, StopSteps, adapterVars
<1>3. CASE Emit
  BY <1>3 DEF Emit, Goto, StopSteps, adapterVars
<1>4. CASE Attach
  BY <1>4 DEF Attach, Goto, StopSteps, adapterVars
<1>5. CASE Start
  BY <1>5 DEF Start, Goto, StopSteps, adapterVars
<1>6. CASE Open
  BY <1>6 DEF Open, Goto, StopSteps, adapterVars
<1>7. CASE Recheck
  BY <1>7 DEF Recheck, RecheckTo, Goto, StopSteps, adapterVars
<1>8. CASE Subscribe
  BY <1>8 DEF Subscribe, Goto, StopSteps, adapterVars
<1>9. CASE ReadEnvelope
  BY <1>9 DEF ReadEnvelope, Goto, StopSteps, adapterVars
<1>10. CASE ReadCancelled
  BY <1>10 DEF ReadCancelled, Goto, StopSteps, adapterVars
<1>11. CASE ReadEnds
  BY <1>11 DEF ReadEnds, Goto, StopSteps, adapterVars
<1>12. CASE ReadNotFound
  BY <1>12 DEF ReadNotFound, MayRetry, Goto, StopSteps, adapterVars
<1>13. CASE Got
  BY <1>13 DEF Got, Goto, StopSteps, adapterVars
<1>14. CASE Process
  BY <1>14 DEF Process, StoppedAfter, Goto, StopSteps, adapterVars
<1>15. CASE HandlerRaises
  BY <1>15 DEF HandlerRaises, Goto, StopSteps, adapterVars
<1>16. CASE HandlerStops
  <2> SUFFICES ASSUME Injected PROVE CancelSees'
    OBVIOUS
  <2> HIDE DEF Control, Calls, CancelSees, Live, Past, None
  <2>1. calls' = [calls EXCEPT ![stream] = "aborted"] /\ stream' = stream
    BY <1>16 DEF HandlerStops
  <2>2. transport' /\ halted' /\ spc' = spc /\ target' = target /\ pc = "dispatch"
    BY <1>16 DEF HandlerStops, Goto, CancelSees
  <2>3. stream \in 1..Len(calls) /\ (spc = "cancel" => target = stream)
    BY <2>2 DEF CancelSees, Live
  <2>4. stream' \in 1..Len(calls') /\ calls'[stream'] = "aborted"
    BY <2>1, <2>3, ExceptSeq DEF Calls
  <2> QED BY <2>1, <2>2, <2>3, <2>4 DEF CancelSees
<1>17. CASE After
  BY <1>17 DEF After, AfterTo, Goto, StopSteps, adapterVars
<1>18. CASE Close
  BY <1>18 DEF Close, Goto, StopSteps, adapterVars
<1>19. CASE Teardown
  BY <1>19 DEF Teardown, Goto, StopSteps, adapterVars
<1>20. CASE Release
  BY <1>20 DEF Release, Releases, Goto, StopSteps, adapterVars
<1>21. CASE RunCloses("closing", "joining")
  BY <1>21 DEF RunCloses, Goto, StopSteps, adapterVars
<1>22. CASE RunCloses("handler closing", "handler joining")
  BY <1>22 DEF RunCloses, Goto, StopSteps, adapterVars
<1>23. CASE RunJoins("joining", "idle")
  BY <1>23 DEF RunJoins, MayReturn, Goto, StopSteps, adapterVars
<1>24. CASE RunJoins("handler joining", "after")
  BY <1>24 DEF RunJoins, MayReturn, Goto, StopSteps, adapterVars
<1>25. CASE StopFlags
  BY <1>25 DEF StopFlags, Goto, StopSteps, adapterVars
<1>26. CASE StopReadsTransport
  BY <1>26 DEF StopReadsTransport, Goto, StopSteps, adapterVars
<1>27. CASE StopHaltsAdapter
  BY <1>27 DEF StopHaltsAdapter, Goto, StopSteps, adapterVars
<1>28. CASE StopReadsStream
  <2> SUFFICES ASSUME Injected PROVE CancelSees'
    OBVIOUS
  <2> HIDE DEF Control, Calls, CancelSees, Live, Past, None
  <2>1. transport' /\ halted' /\ spc = "halted"
    BY <1>28 DEF StopReadsStream, StopSteps, CancelSees
  <2>2. pc' = pc /\ stream' = stream /\ calls' = calls /\ target' = stream
        /\ spc' = IF stream = None THEN "unbind" ELSE "cancel"
    BY <1>28 DEF StopReadsStream, StopSteps
  <2>3. pc \in {"recheck"} \cup Live => stream \in 1..Len(calls) /\ stream # None
    BY DEF CancelSees, Calls, None
  <2>4. pc \in Live => spc' = "cancel"
    BY <2>2, <2>3
  <2>5. "cancel" \notin Past
    BY DEF Past
  <2> QED BY <2>1, <2>2, <2>3, <2>4, <2>5 DEF CancelSees
<1>29. CASE StopCancels
  <2> SUFFICES ASSUME Injected PROVE CancelSees'
    OBVIOUS
  <2> HIDE DEF Control, Calls, CancelSees, Live, Past, None
  <2>1. transport' /\ halted' /\ spc = "cancel" /\ spc' = "unbind"
    BY <1>29 DEF StopCancels, StopSteps, CancelSees
  <2>2. calls' = [calls EXCEPT ![target] = "aborted"] /\ pc' = pc /\ stream' = stream
    BY <1>29 DEF StopCancels, StopSteps
  <2>3. Len(calls') = Len(calls)
    BY <2>2, MarkedSeq DEF Calls
  <2>4. pc \in {"recheck"} \cup Live => stream \in 1..Len(calls)
    BY DEF CancelSees
  <2>5. pc \in Live => calls'[stream] = "aborted"
    BY <2>1, <2>2, <2>4, ExceptSeq DEF Calls, CancelSees
  <2> QED BY <2>1, <2>2, <2>3, <2>4, <2>5 DEF CancelSees
<1>30. CASE StopReadsServer
  BY <1>30 DEF StopReadsServer, HandlerReturned, Goto, StopSteps, adapterVars
<1>31. CASE StopCloses
  BY <1>31 DEF StopCloses, Goto, StopSteps, adapterVars
<1>32. CASE StopJoins
  BY <1>32 DEF StopJoins, MayReturn, HandlerReturned, Goto, StopSteps, adapterVars
<1>33. CASE ServerEnds \/ \E thread \in DOMAIN shutters : Shutter(thread)
  BY <1>33 DEF ServerEnds, Shutter, ShutterAsks, ShutterCloses, exceptServer, adapterVars
<1>34. CASE UNCHANGED vars
  BY <1>34 DEF vars
<1> QED BY <1>1, <1>2, <1>3, <1>4, <1>5, <1>6, <1>7, <1>8, <1>9, <1>10, <1>11, <1>12, <1>13,
        <1>14, <1>15, <1>16, <1>17, <1>18, <1>19, <1>20, <1>21, <1>22, <1>23, <1>24, <1>25,
        <1>26, <1>27, <1>28, <1>29, <1>30, <1>31, <1>32, <1>33, <1>34
        DEF Next, Runner, Stopper, Environment

-----------------------------------------------------------------------------
\* The inductive invariant.
THEOREM Invariance == Spec => []IInv
<1>1. Init => IInv
  <2> SUFFICES ASSUME Init PROVE IInv
    OBVIOUS
  <2> USE RunAssumption DEF Init, None
  <2>1. Control
    BY DEF Control, RunnerStates, StopperStates
  <2>2. Flags
    BY DEF Flags
  <2>3. Calls
    BY DEF Calls
  <2>4. Counts
    BY DEF Counts
  <2>5. Reading /\ OnlyOnceStopped /\ ForgottenIsShut /\ ReleaseAhead
    BY DEF Reading, OnlyOnceStopped, ForgottenIsShut, ReleaseAhead
  <2>6. CancelSees
    BY DEF CancelSees, Live, Past
  <2> QED BY <2>1, <2>2, <2>3, <2>4, <2>5, <2>6 DEF IInv
<1>2. IInv /\ [Next]_vars => IInv'
  BY ControlKept, FlagsKept, CallsKept, CountsKept, ReadingKept, OnlyOnceStoppedKept,
     ForgottenIsShutKept, ReleaseAheadKept, CancelSeesKept DEF IInv
<1> QED BY <1>1, <1>2, PTL DEF Spec

\* For any history and any bounds the state of run(), stop(), the adapter and the
\* cancel-callback server stays in its types: one attempt more than subscribe_retry
\* allows is never made, and the cursor never passes the history.
THEOREM TypeCorrect == Spec => []TypeOK
<1>1. IInv => TypeOK
  BY DEF IInv, Control, Flags, Calls, Counts, TypeOK
<1> QED BY Invariance, <1>1, PTL

\* The teardown contract of run(), whatever stops the participant and wherever: the
\* cancel endpoint serves as long as it can run, and is shut down once it cannot.
THEOREM EndpointFollowsRun == Spec => []ServerFollowsRun
<1>1. IInv => ServerFollowsRun
  BY DEF IInv, Control, OnlyOnceStopped, ForgottenIsShut, ReleaseAhead, ServerFollowsRun
<1> QED BY Invariance, <1>1, PTL

\* Once stop() is done, a run() with a transport from the start reads no call that is
\* still open, at whatever point of it stop() came: the safety half of StopReturns.
NoReadOnLiveCall ==
    Injected /\ spc = "done" /\ pc \in {"subscribe", "read"} => calls[stream] = "aborted"

\* stop() reaches the read of run(): _run's re-check and start()'s own, for any interleaving.
THEOREM StopReachesRead == Spec => []NoReadOnLiveCall
<1>1. IInv => NoReadOnLiveCall
  BY DEF IInv, CancelSees, Live, Past, NoReadOnLiveCall
<1> QED BY Invariance, <1>1, PTL

-----------------------------------------------------------------------------
\* Whatever follows in the history, and however often run() is called again, nothing is
\* opened, read or dispatched after the terminal envelope, and on_terminal was called
\* once: the safety half of TerminalReturns.
NothingAfterTerminal ==
    ended > 0 =>
        /\ ended = 1 /\ stopped
        /\ pc \notin {"emit", "attach", "start", "open", "recheck", "subscribe", "read", "got", "dispatch"}

LEMMA NothingAfterTerminalKept ==
    ASSUME Control, Flags, ended \in Nat, NothingAfterTerminal, [Next]_vars
    PROVE  NothingAfterTerminal'
<1> USE DEF Control, Flags, NothingAfterTerminal
<1>1. CASE Run \/ CheckStopped \/ Emit \/ Attach \/ Start \/ Open \/ Recheck \/ Subscribe
  BY <1>1 DEF Run, CheckStopped, Emit, Attach, Start, Open, Recheck, RecheckTo, Subscribe, Goto
<1>2. CASE ReadEnvelope \/ ReadCancelled \/ ReadEnds \/ ReadNotFound
  BY <1>2 DEF ReadEnvelope, ReadCancelled, ReadEnds, ReadNotFound, Goto
<1>3. CASE Got \/ HandlerRaises \/ HandlerStops \/ After
  BY <1>3 DEF Got, HandlerRaises, HandlerStops, After, AfterTo, Goto
<1>10. CASE Process
  <2>1. ended = 0 /\ pc' = "after"
    BY <1>10 DEF Process, Goto
  <2>2. CASE History[position] = "terminal"
    <3>1. stopped'
      <4> HIDE DEF Control, Flags, NothingAfterTerminal
      <4>1. stopped' = (stopped \/ History[position] = "terminal")
        BY <1>10 DEF Process, StoppedAfter
      <4> QED BY <2>2, <4>1
    <3>2. ended' = ended + 1
      BY <1>10, <2>2 DEF Process
    <3> QED BY <2>1, <3>1, <3>2
  <2>3. CASE History[position] # "terminal"
    BY <1>10, <2>1, <2>3 DEF Process
  <2> QED BY <2>2, <2>3
<1>4. CASE Close \/ Teardown \/ Release
  BY <1>4 DEF Close, Teardown, Release, Goto
<1>5. CASE RunCloses("closing", "joining") \/ RunCloses("handler closing", "handler joining") \/
           RunJoins("joining", "idle") \/ RunJoins("handler joining", "after")
  BY <1>5 DEF RunCloses, RunJoins, Goto
<1>6. CASE StopFlags \/ StopReadsTransport \/ StopHaltsAdapter \/ StopReadsStream \/ StopCancels
  BY <1>6 DEF StopFlags, StopReadsTransport, StopHaltsAdapter, StopReadsStream, StopCancels, StopSteps
<1>7. CASE StopReadsServer \/ StopCloses \/ StopJoins
  BY <1>7 DEF StopReadsServer, StopCloses, StopJoins, StopSteps
<1>8. CASE ServerEnds \/ \E thread \in DOMAIN shutters : Shutter(thread)
  BY <1>8 DEF ServerEnds, Shutter, ShutterAsks, ShutterCloses, exceptServer
<1>9. CASE UNCHANGED vars
  BY <1>9 DEF vars
<1> QED BY <1>1, <1>2, <1>3, <1>4, <1>5, <1>6, <1>7, <1>8, <1>9, <1>10
        DEF Next, Runner, Stopper, Environment

\* The terminal envelope is the last thing a participant does (_process_envelope sets the
\* stop flag, _run tests it after each message and before it begins).
THEOREM TerminalIsLast == Spec => []NothingAfterTerminal
<1>1. Init => NothingAfterTerminal
  BY DEF Init, NothingAfterTerminal
<1>2. IInv => Control /\ Flags /\ ended \in Nat
  BY DEF IInv, Counts
<1> QED BY <1>1, <1>2, Invariance, NothingAfterTerminalKept, PTL DEF Spec
=============================================================================
