---------------------------- MODULE StreamProofs ----------------------------
(***************************************************************************)
(* Theorems about MacpStream between threads, and about both flavours, for *)
(* any number of threads or tasks, frames and calls.                       *)
(*                                                                         *)
(* The argument.  The response queue always reads: envelopes in order,     *)
(* then at most one failure, then at most one end, which is in the queue   *)
(* or in the hands of exactly one reader once the pump is done.  Every     *)
(* envelope the pump took is either behind what readers have got or in the *)
(* queue, so its head is always what the promise allows next.  The write   *)
(* lock's line is of tasks inside send, so nobody waits for one who left.  *)
(***************************************************************************)
EXTENDS AsyncStream, TLAPS

Has(q, kind) == \E i \in DOMAIN q : q[i].kind = kind

\* Envelopes by frame, one failure, one end.
Ordered(q) ==
    \A i, j \in DOMAIN q : i < j =>
        \/ /\ q[i].kind = "envelope"
           /\ q[j].kind = "envelope" => q[i].frame < q[j].frame
        \/ q[i].kind = "failure" /\ q[j].kind = "end"

\* Nothing the pump took is lost between the call and its readers, or read twice.
NothingLost ==
    /\ \A i \in DOMAIN responses : responses[i].kind = "envelope" => last < responses[i].frame
    /\ \A p \in 1..pumped : frames[p] = "envelope" /\ last < p =>
           \E i \in DOMAIN responses : responses[i] = Envelope(p)

NobodyHolds == \A r \in Readers : reader[r] # "holding"

\* What the queue and the readers can hold at each point of the pump.
PumpPhase ==
    /\ pump = "loop" => ~Has(responses, "failure") /\ ~toldFailure
    /\ pump # "done" => ~Has(responses, "end") /\ ~toldEnd /\ NobodyHolds

\* After the failure only the end follows, after the end only the end.
Final == toldFailure \/ toldEnd => ~Has(responses, "envelope") /\ ~Has(responses, "failure")

\* A reader that holds the end holds the only one.
OneHolder ==
    \A r \in Readers : reader[r] = "holding" =>
        /\ toldEnd /\ responses = <<>>
        /\ \A s \in Readers : reader[s] = "holding" => s = r

\* Why the pump left its loop.
PumpTruth ==
    pump # "loop" /\ ~raised =>
        /\ call # "live"
        /\ call = "ended" => pumped = Len(frames)
        /\ call \in {"failed", "cancelled"} => toldFailure \/ Has(responses, "failure")

IInv ==
    /\ TypeOK
    /\ Ordered(responses) /\ NothingLost
    /\ PumpPhase /\ Final /\ OneHolder /\ PumpTruth

-----------------------------------------------------------------------------
\* What put and get do to a queue, by index.
LEMMA AppendFacts ==
    ASSUME NEW S, NEW q \in Seq(S), NEW x \in S
    PROVE  /\ Append(q, x) \in Seq(S)
           /\ DOMAIN Append(q, x) = DOMAIN q \cup {Len(q) + 1}
           /\ \A i \in DOMAIN q : i \in Nat /\ i < Len(q) + 1 /\ Append(q, x)[i] = q[i]
           /\ Append(q, x)[Len(q) + 1] = x
  OBVIOUS

LEMMA TailFacts ==
    ASSUME NEW S, NEW q \in Seq(S), q # <<>>
    PROVE  /\ Tail(q) \in Seq(S) /\ Head(q) = q[1] /\ Head(q) \in S
           /\ 1 \in DOMAIN q
           /\ \A i \in DOMAIN Tail(q) : i \in Nat /\ i >= 1 /\ i + 1 \in DOMAIN q /\ Tail(q)[i] = q[i + 1]
           /\ \A i \in DOMAIN q : i = 1 \/ (i - 1 \in DOMAIN Tail(q) /\ Tail(q)[i - 1] = q[i])
  OBVIOUS

LEMMA OrderedAppend ==
    ASSUME NEW S, NEW q \in Seq(S), NEW x \in S, Ordered(q),
           ~Has(q, "end"),
           \A i \in DOMAIN q :
               \/ /\ q[i].kind = "envelope"
                  /\ x.kind = "envelope" => q[i].frame < x.frame
               \/ q[i].kind = "failure" /\ x.kind = "end"
    PROVE  Ordered(Append(q, x))
  <1> DEFINE a == Append(q, x)
  <1>1. /\ DOMAIN a = DOMAIN q \cup {Len(q) + 1}
        /\ \A i \in DOMAIN q : i \in Nat /\ i < Len(q) + 1 /\ a[i] = q[i]
        /\ a[Len(q) + 1] = x
    BY AppendFacts
  <1>2. Len(q) \in Nat
    OBVIOUS
  <1> HIDE DEF a
  <1> SUFFICES Ordered(a)
    BY DEF a
  <1>3. SUFFICES ASSUME NEW i \in DOMAIN a, NEW j \in DOMAIN a, i < j
                 PROVE  \/ /\ a[i].kind = "envelope"
                           /\ a[j].kind = "envelope" => a[i].frame < a[j].frame
                        \/ a[i].kind = "failure" /\ a[j].kind = "end"
    BY DEF Ordered
  <1>4. i \in DOMAIN q
    BY <1>1, <1>2, <1>3
  <1>5. CASE j \in DOMAIN q
    BY <1>1, <1>3, <1>4, <1>5 DEF Ordered
  <1>6. CASE j = Len(q) + 1
    BY <1>1, <1>4, <1>6
  <1> QED BY <1>1, <1>5, <1>6

LEMMA OrderedTail ==
    ASSUME NEW S, NEW q \in Seq(S), q # <<>>, Ordered(q)
    PROVE  /\ Ordered(Tail(q))
           /\ \A i \in DOMAIN Tail(q) :
                \/ /\ q[1].kind = "envelope"
                   /\ Tail(q)[i].kind = "envelope" => q[1].frame < Tail(q)[i].frame
                \/ q[1].kind = "failure" /\ Tail(q)[i].kind = "end"
           /\ \A k : Has(Tail(q), k) => Has(q, k)
  <1> DEFINE t == Tail(q)
  <1>1. /\ 1 \in DOMAIN q
        /\ \A i \in DOMAIN t : i \in Nat /\ i >= 1 /\ i + 1 \in DOMAIN q /\ t[i] = q[i + 1]
    BY TailFacts
  <1> HIDE DEF t
  <1>2. Ordered(t)
    <2> SUFFICES ASSUME NEW i \in DOMAIN t, NEW j \in DOMAIN t, i < j
                 PROVE  \/ /\ t[i].kind = "envelope"
                           /\ t[j].kind = "envelope" => t[i].frame < t[j].frame
                        \/ t[i].kind = "failure" /\ t[j].kind = "end"
      BY DEF Ordered
    <2>1. i + 1 < j + 1 /\ i + 1 \in DOMAIN q /\ j + 1 \in DOMAIN q
      BY <1>1
    <2> QED BY <1>1, <2>1 DEF Ordered
  <1>3. ASSUME NEW i \in DOMAIN t
        PROVE  \/ /\ q[1].kind = "envelope"
                  /\ t[i].kind = "envelope" => q[1].frame < t[i].frame
               \/ q[1].kind = "failure" /\ t[i].kind = "end"
    BY <1>1 DEF Ordered
  <1>4. ASSUME NEW k, Has(t, k) PROVE Has(q, k)
    BY <1>1, <1>4 DEF Has
  <1> QED BY <1>2, <1>3, <1>4 DEF t

-----------------------------------------------------------------------------
LEMMA InitIInv == Init => IInv
  <1> SUFFICES ASSUME Init PROVE IInv
    OBVIOUS
  <1>1. TypeOK
    <2>1. /\ frames \in Seq(FrameKinds) /\ Len(frames) = 0
          /\ responses \in Seq(Items) /\ requests \in Seq({"frame", "end"})
      BY DEF Init
    <2>2. 0 \in 0..MaxCalls /\ 0 <= MaxFrames
      BY StreamAssumption
    <2>3. pumped \in 0..Len(frames) /\ last \in 0..pumped /\ Len(frames) <= MaxFrames
      BY <2>1, <2>2 DEF Init
    <2>4. /\ reader \in [Readers -> {"idle", "parked", "holding"}]
          /\ writer \in [Writers -> {"idle", "sending", "closing", "marking", "cancelling",
                                     "cancelMarking", "aborting"}]
      BY DEF Init
    <2>5. /\ call = "live" /\ pump = "loop" /\ consumer = "running" /\ owed = 0 /\ sent = 0
          /\ calls = 0 /\ ~raised /\ ~toldFailure /\ ~toldEnd /\ ~closed
          /\ raised \in BOOLEAN /\ toldFailure \in BOOLEAN /\ toldEnd \in BOOLEAN
          /\ closed \in BOOLEAN
      BY DEF Init
    <2> QED BY <2>1, <2>2, <2>3, <2>4, <2>5 DEF TypeOK
  <1>2. Ordered(responses) /\ NothingLost /\ PumpPhase /\ Final /\ OneHolder /\ PumpTruth
    BY DEF Init, Ordered, NothingLost, PumpPhase, Has, NobodyHolds, Final, OneHolder, PumpTruth
  <1> QED BY <1>1, <1>2 DEF IInv

\* The items a queue may hold stay items as the pump and the server go on.
LEMMA ItemsGrow ==
    ASSUME TypeOK, pumped' \in Nat, pumped <= pumped',
           \A p \in 1..pumped : frames'[p] = frames[p]
    PROVE  responses \in Seq(Items')
  <1>1. Items \subseteq Items'
    BY DEF Items, Envelope, TypeOK
  <1> QED BY <1>1 DEF TypeOK

LEMMA EndsAreItems == Failure \in Items /\ End \in Items
  BY DEF Items

LEMMA TypeStep == TypeOK /\ [Next]_vars => TypeOK'
  <1> SUFFICES ASSUME TypeOK, [Next]_vars PROVE TypeOK'
    OBVIOUS
  <1> USE StreamAssumption
  <1>1. ASSUME NEW k \in FrameKinds, ServerSends(k) PROVE TypeOK'
    <2>1. frames' \in Seq(FrameKinds) /\ Len(frames') = Len(frames) + 1
      BY <1>1 DEF TypeOK, ServerSends
    <2>2. \A p \in 1..pumped : frames'[p] = frames[p]
      BY <1>1 DEF TypeOK, ServerSends
    <2>3. responses \in Seq(Items')
      BY <1>1, <2>2, ItemsGrow DEF ServerSends, pumpVars, TypeOK
    <2> QED BY <1>1, <2>1, <2>3 DEF TypeOK, ServerSends, pumpVars, readVars, writeVars
  <1>2. ASSUME NEW h \in {"ended", "failed"}, ServerStops(h) PROVE TypeOK'
    BY <1>2 DEF TypeOK, ServerStops, pumpVars, readVars, writeVars, Items
  <1>3. CASE PumpFrame
    <2>1. /\ pumped' = pumped + 1 /\ pumped' \in 0..Len(frames)
          /\ UNCHANGED <<callVars, pump, raised, toldVars, reader, writeVars, calls>>
      BY <1>3 DEF PumpFrame, TypeOK
    <2>2. responses \in Seq(Items')
      BY <2>1, ItemsGrow DEF callVars, TypeOK
    <2>3. frames[pumped'] = "envelope" => Envelope(pumped') \in Items'
      BY <2>1 DEF Items, callVars, TypeOK
    <2>4. responses' \in Seq(Items')
      BY <1>3, <2>2, <2>3 DEF PumpFrame, Classified
    <2> QED BY <2>1, <2>4 DEF TypeOK, callVars, toldVars, writeVars
  <1>4. CASE CallbackRaises
    <2>1. responses \in Seq(Items')
      BY <1>4, ItemsGrow DEF CallbackRaises, callVars, TypeOK
    <2> QED BY <1>4, <2>1 DEF TypeOK, CallbackRaises, callVars, readVars, writeVars
  <1>5. CASE PumpEnds
    BY <1>5 DEF TypeOK, PumpEnds, callVars, readVars, writeVars, Items
  <1>6. CASE PumpFails
    BY <1>6, EndsAreItems DEF TypeOK, PumpFails, Surfaced, callVars, toldVars, writeVars, Items
  <1>7. CASE PumpFinally
    BY <1>7, EndsAreItems DEF TypeOK, PumpFinally, callVars, toldVars, writeVars, Items
  <1>8. ASSUME NEW r \in Readers, Read(r) PROVE TypeOK'
    BY <1>8 DEF TypeOK, Read, CallMade, callVars, pumpVars, readVars, writeVars, Items
  <1>9. ASSUME NEW r \in Readers, Reading(r) \/ ReadTimesOut(r) PROVE TypeOK'
    <2>0. TypeOK /\ UNCHANGED <<callVars, pumpVars, writeVars, calls>>
      BY <1>9 DEF Reading, ReadEnvelope, ReadFailure, ReadEnd, PutEndBack, ReadTimesOut, Take
    <2>1. Items' = Items
      BY <2>0 DEF Items, callVars, pumpVars
    <2>2. CASE ReadEnvelope(r)
      <3>1. Head(responses) \in Items /\ Tail(responses) \in Seq(Items)
        BY <2>2 DEF TypeOK, ReadEnvelope, Take
      <3>2. last' \in 0..pumped
        BY <2>2, <3>1 DEF TypeOK, ReadEnvelope, Take, Items, Envelope, Failure, End
      <3> QED BY <2>0, <2>1, <2>2, <3>1, <3>2
              DEF TypeOK, ReadEnvelope, Take, callVars, pumpVars, writeVars
    <2>3. CASE ReadFailure(r) \/ ReadEnd(r)
      <3>1. Tail(responses) \in Seq(Items)
        BY <2>3 DEF TypeOK, ReadFailure, ReadEnd, Take
      <3> QED BY <2>0, <2>1, <2>3, <3>1
              DEF TypeOK, ReadFailure, ReadEnd, Take, AfterEnd, callVars, pumpVars, writeVars
    <2>4. CASE PutEndBack(r)
      BY <2>0, <2>1, <2>4, EndsAreItems DEF TypeOK, PutEndBack, callVars, pumpVars, toldVars, writeVars
    <2>5. CASE ReadTimesOut(r)
      BY <2>0, <2>1, <2>5 DEF TypeOK, ReadTimesOut, callVars, pumpVars, readVars, writeVars
    <2> QED BY <1>9, <2>2, <2>3, <2>4, <2>5 DEF Reading
  <1>10. ASSUME NEW w \in Writers, WriterStep(w) PROVE TypeOK'
    <2>1. UNCHANGED <<frames, pumpVars, readVars, reader, consumer, sent>>
      BY <1>10 DEF WriterStep, Finishing, Send, Close, Cancel, Called, Put, SetClosed, PutMark,
                   Abort, Writing
    <2>2. Items' = Items
      BY <2>1 DEF Items, pumpVars
    <2>3. writer' \in [Writers -> {"idle", "sending", "closing", "marking", "cancelling",
                                   "cancelMarking", "aborting"}]
      BY <1>10 DEF WriterStep, Finishing, Send, Close, Cancel, Called, Put, SetClosed, PutMark,
                   Abort, Writing, TypeOK
    <2>4. calls' \in 0..MaxCalls
      BY <1>10 DEF WriterStep, Finishing, Send, Close, Cancel, Called, CallMade, Put, SetClosed,
                   PutMark, Abort, TypeOK
    <2>5. owed' \in Nat /\ closed' \in BOOLEAN
      <3>1. owed' = owed \/ owed' = owed + 1
        BY <1>10 DEF WriterStep, Finishing, Send, Close, Cancel, Called, Put, SetClosed, PutMark, Abort
      <3>2. closed' = closed \/ closed' = TRUE
        BY <1>10 DEF WriterStep, Finishing, Send, Close, Cancel, Called, Put, SetClosed, PutMark, Abort
      <3>3. owed' \in Nat
        BY <3>1 DEF TypeOK
      <3>4. closed' \in BOOLEAN
        BY <3>2 DEF TypeOK
      <3> QED BY <3>3, <3>4
    <2>6. requests' \in Seq({"frame", "end"})
      <3>1. \/ requests' = requests
            \/ requests' = Append(requests, "frame")
            \/ requests' = Append(requests, "end")
        BY <1>10 DEF WriterStep, Finishing, Send, Close, Cancel, Called, Put, SetClosed, PutMark,
                     Marked, Abort
      <3>2. requests \in Seq({"frame", "end"}) /\ "frame" \in {"frame", "end"} /\ "end" \in {"frame", "end"}
        BY DEF TypeOK
      <3> QED BY <3>1, <3>2, AppendFacts
    <2>7. call' \in {"live", "ended", "failed", "cancelled"}
      BY <1>10 DEF WriterStep, Finishing, Send, Close, Cancel, Called, Put, SetClosed, PutMark,
                   Abort, TypeOK
    <2> QED BY <2>1, <2>2, <2>3, <2>4, <2>5, <2>6, <2>7 DEF TypeOK, pumpVars, readVars
  <1>11. CASE Consumer
    <2>1. /\ requests # <<>> /\ requests' = Tail(requests)
          /\ UNCHANGED <<callVars, pumpVars, readVars, reader, closed, writer, owed, calls>>
      BY <1>11 DEF Consumer, Transmit, HalfClose
    <2>2. requests' \in Seq({"frame", "end"})
      BY <2>1 DEF TypeOK
    <2>3. sent' \in Nat /\ consumer' \in {"running", "halfClosed", "dropped"}
      BY <1>11 DEF Consumer, Transmit, HalfClose, TypeOK
    <2>4. Items' = Items
      BY <2>1 DEF Items, callVars, pumpVars
    <2> QED BY <2>1, <2>2, <2>3, <2>4 DEF TypeOK, callVars, pumpVars, readVars
  <1>12. CASE UNCHANGED vars
    BY <1>12 DEF TypeOK, vars, callVars, pumpVars, readVars, writeVars, Items
  <1> QED BY <1>1, <1>2, <1>3, <1>4, <1>5, <1>6, <1>7, <1>8, <1>9, <1>10, <1>11, <1>12
          DEF Next, Server, Pump, ReaderStep

-----------------------------------------------------------------------------
\* A queue that grew by one item holds what it held and the item.
LEMMA HasAppend ==
    ASSUME NEW S, NEW q \in Seq(S), NEW x \in S, NEW k
    PROVE  Has(Append(q, x), k) <=> Has(q, k) \/ x.kind = k
  BY AppendFacts DEF Has

\* Steps that leave the queue, what readers were told and the pump alone.
LEMMA QuietStep ==
    ASSUME IInv, TypeOK', UNCHANGED <<pumpVars, readVars>>,
           \A r \in Readers : reader'[r] = "holding" => reader[r] = "holding",
           \A p \in 1..pumped : frames'[p] = frames[p],
           call # "live" => call' = call /\ frames' = frames,
           call = "live" => pump = "loop" \/ raised
    PROVE  IInv'
  <1> USE DEF pumpVars, readVars
  <1>1. Ordered(responses)'
    BY DEF IInv, Ordered
  <1>2. NothingLost'
    BY DEF IInv, NothingLost
  <1>3. PumpPhase' /\ Final'
    BY DEF IInv, PumpPhase, Final, Has, NobodyHolds
  <1>4. OneHolder'
    BY DEF IInv, OneHolder
  <1>5. PumpTruth'
    BY DEF IInv, PumpTruth, Has
  <1> QED BY <1>1, <1>2, <1>3, <1>4, <1>5 DEF IInv

\* A live call is being pumped, unless a callback raised.
LEMMA LiveIsPumped == IInv => (call = "live" => pump = "loop" \/ raised)
  BY DEF IInv, PumpTruth

\* The pump's steps that append an item (PumpFrame, PumpFails, PumpFinally).
LEMMA PumpAppends ==
    ASSUME IInv, TypeOK', pump # "done", UNCHANGED <<callVars, toldVars, reader, raised>>,
           NEW x \in Items', responses' = Append(responses, x), responses \in Seq(Items'),
           \/ x.kind = "envelope" /\ pump = "loop" /\ x.frame = pumped + 1
           \/ x.kind = "failure" /\ pump = "loop"
           \/ x.kind = "end"
    PROVE  /\ Ordered(responses)'
           /\ \A i \in DOMAIN responses : i \in DOMAIN responses' /\ responses'[i] = responses[i]
           /\ \A i \in DOMAIN responses' :
                  i \in DOMAIN responses \/ (i = Len(responses) + 1 /\ responses'[i] = x)
           /\ Len(responses) + 1 \in DOMAIN responses' /\ responses'[Len(responses) + 1] = x
           /\ \A k : Has(responses', k) <=> Has(responses, k) \/ x.kind = k
           /\ OneHolder'
  <1>1. /\ DOMAIN responses' = DOMAIN responses \cup {Len(responses) + 1}
        /\ \A i \in DOMAIN responses : responses'[i] = responses[i]
        /\ responses'[Len(responses) + 1] = x
    BY AppendFacts
  <1>2. \A k : Has(responses', k) <=> Has(responses, k) \/ x.kind = k
    BY HasAppend
  <1>3. ~Has(responses, "end") /\ (pump = "loop" => ~Has(responses, "failure")) /\ NobodyHolds
    BY DEF IInv, PumpPhase
  <1>4. \A i \in DOMAIN responses :
            /\ responses[i].kind \in {"envelope", "failure", "end"}
            /\ responses[i].kind = "envelope" => responses[i].frame < pumped + 1
    <2> SUFFICES ASSUME NEW i \in DOMAIN responses
                 PROVE  /\ responses[i].kind \in {"envelope", "failure", "end"}
                        /\ responses[i].kind = "envelope" => responses[i].frame < pumped + 1
      OBVIOUS
    <2>1. responses[i] \in Items
      BY DEF IInv, TypeOK
    <2>2. pumped \in Nat
      BY DEF IInv, TypeOK
    <2> QED BY <2>1, <2>2 DEF Items, Envelope, Failure, End
  <1>5. \A i \in DOMAIN responses :
            \/ /\ responses[i].kind = "envelope"
               /\ x.kind = "envelope" => responses[i].frame < x.frame
            \/ responses[i].kind = "failure" /\ x.kind = "end"
    BY <1>3, <1>4 DEF Has
  <1>6. Ordered(Append(responses, x))
    BY <1>3, <1>5, OrderedAppend DEF IInv
  <1>7. OneHolder'
    BY <1>3 DEF NobodyHolds, OneHolder
  <1> QED BY <1>1, <1>2, <1>6, <1>7

LEMMA PumpFrameStep == IInv /\ TypeOK' /\ PumpFrame => IInv'
  <1> SUFFICES ASSUME IInv, TypeOK', PumpFrame PROVE IInv'
    OBVIOUS
  <1>1. /\ pump = "loop" /\ pumped' = pumped + 1 /\ pumped' \in 1..Len(frames)
        /\ UNCHANGED <<callVars, pump, raised, toldVars, reader>>
    BY DEF PumpFrame, IInv, TypeOK
  <1>2. ~Has(responses, "failure") /\ ~toldFailure /\ ~Has(responses, "end") /\ ~toldEnd /\ NobodyHolds
    BY <1>1 DEF IInv, PumpPhase
  <1>3. CASE frames[pumped'] = "envelope"
    <2>1. responses' = Append(responses, Envelope(pumped'))
      BY <1>3 DEF PumpFrame, Classified
    <2>2. Envelope(pumped') \in Items' /\ responses \in Seq(Items')
      BY <1>1, <1>3, ItemsGrow DEF Items, callVars, IInv, TypeOK
    <2>3. Envelope(pumped').kind = "envelope" /\ Envelope(pumped').frame = pumped + 1
      BY <1>1 DEF Envelope
    <2>4. /\ Ordered(responses)'
          /\ \A i \in DOMAIN responses : i \in DOMAIN responses' /\ responses'[i] = responses[i]
          /\ \A i \in DOMAIN responses' : i \in DOMAIN responses
                 \/ (i = Len(responses) + 1 /\ responses'[i] = Envelope(pumped'))
          /\ Len(responses) + 1 \in DOMAIN responses'
          /\ responses'[Len(responses) + 1] = Envelope(pumped')
          /\ \A k : Has(responses', k) <=> Has(responses, k) \/ Envelope(pumped').kind = k
          /\ OneHolder'
      BY <1>1, <2>1, <2>2, <2>3, PumpAppends
    <2>5. NothingLost'
      <3>1. last' = last /\ last < pumped' /\ frames' = frames
        BY <1>1 DEF toldVars, callVars, IInv, TypeOK
      <3>2. \A i \in DOMAIN responses' :
                responses'[i].kind = "envelope" => last' < responses'[i].frame
        BY <2>3, <2>4, <3>1, <1>1 DEF IInv, NothingLost
      <3>3. \A p \in 1..pumped' : frames'[p] = "envelope" /\ last' < p =>
                \E i \in DOMAIN responses' : responses'[i] = Envelope(p)
        <4> SUFFICES ASSUME NEW p \in 1..pumped', frames'[p] = "envelope", last' < p
                     PROVE  \E i \in DOMAIN responses' : responses'[i] = Envelope(p)
          OBVIOUS
        <4>1. p \in 1..pumped \/ p = pumped'
          BY <1>1 DEF IInv, TypeOK
        <4> QED BY <2>4, <3>1, <4>1 DEF IInv, NothingLost
      <3> QED BY <3>2, <3>3 DEF NothingLost
    <2>6. PumpPhase'
      BY <1>1, <1>2, <2>3, <2>4 DEF PumpPhase, NobodyHolds, toldVars
    <2>7. Final' /\ PumpTruth'
      BY <1>1, <1>2 DEF Final, PumpTruth, toldVars
    <2> QED BY <2>4, <2>5, <2>6, <2>7 DEF IInv
  <1>4. CASE frames[pumped'] # "envelope"
    <2>1. responses' = responses
      BY <1>4 DEF PumpFrame, Classified
    <2>2. NothingLost'
      <3>1. \A p \in 1..pumped' : frames[p] = "envelope" => p \in 1..pumped
        BY <1>1, <1>4 DEF IInv, TypeOK
      <3> QED BY <1>1, <2>1, <3>1 DEF NothingLost, IInv, callVars, toldVars
    <2>3. PumpPhase' /\ Final' /\ PumpTruth'
      BY <1>1, <1>2, <2>1 DEF PumpPhase, NobodyHolds, Final, PumpTruth, toldVars, Has
    <2>4. Ordered(responses)' /\ OneHolder'
      BY <1>1, <2>1 DEF IInv, Ordered, OneHolder, toldVars
    <2> QED BY <2>2, <2>3, <2>4 DEF IInv
  <1> QED BY <1>3, <1>4

\* The pump leaves its loop, because a callback raised or the server ended the call.
LEMMA PumpLeavesStep == IInv /\ TypeOK' /\ (CallbackRaises \/ PumpEnds) => IInv'
  <1> SUFFICES ASSUME IInv, TypeOK', CallbackRaises \/ PumpEnds PROVE IInv'
    OBVIOUS
  <1>1. /\ pump = "loop" /\ pump' = "finally" /\ UNCHANGED <<callVars, readVars, reader>>
        /\ \/ pumped' = pumped /\ call = "ended" /\ pumped = Len(frames)
           \/ pumped' = pumped + 1 /\ raised' /\ frames[pumped + 1] = "error"
    BY DEF CallbackRaises, PumpEnds
  <1>2. ~Has(responses, "end") /\ ~toldEnd /\ NobodyHolds /\ ~toldFailure
    BY <1>1 DEF IInv, PumpPhase
  <1>3. NothingLost'
    <2>1. \A p \in 1..pumped' : frames[p] = "envelope" => p \in 1..pumped
      BY <1>1 DEF IInv, TypeOK
    <2> QED BY <1>1, <2>1 DEF IInv, NothingLost, callVars, readVars
  <1>4. PumpPhase' /\ Final' /\ OneHolder' /\ Ordered(responses)'
    BY <1>1, <1>2 DEF IInv, PumpPhase, NobodyHolds, Final, OneHolder, Ordered, Has, readVars
  <1>5. PumpTruth'
    BY <1>1 DEF PumpTruth, callVars
  <1> QED BY <1>3, <1>4, <1>5 DEF IInv

LEMMA PumpFailsStep == IInv /\ TypeOK' /\ PumpFails => IInv'
  <1> SUFFICES ASSUME IInv, TypeOK', PumpFails PROVE IInv'
    OBVIOUS
  <1>1. /\ pump = "loop" /\ pump' = "finally" /\ call \in {"failed", "cancelled"}
        /\ UNCHANGED <<callVars, pumped, raised, toldVars, reader>>
        /\ responses' = Append(responses, Failure)
    BY DEF PumpFails, Surfaced
  <1>2. ~Has(responses, "end") /\ ~toldEnd /\ NobodyHolds /\ ~toldFailure
    BY <1>1 DEF IInv, PumpPhase
  <1>3. Failure \in Items' /\ responses \in Seq(Items')
    BY <1>1 DEF Items, callVars, IInv, TypeOK
  <1>4. Failure.kind = "failure"
    BY DEF Failure
  <1>5. /\ Ordered(responses)'
        /\ \A i \in DOMAIN responses : i \in DOMAIN responses' /\ responses'[i] = responses[i]
        /\ \A i \in DOMAIN responses' :
               i \in DOMAIN responses \/ (i = Len(responses) + 1 /\ responses'[i] = Failure)
        /\ \A k : Has(responses', k) <=> Has(responses, k) \/ Failure.kind = k
        /\ OneHolder'
    BY <1>1, <1>3, <1>4, PumpAppends
  <1>6. NothingLost'
    BY <1>1, <1>4, <1>5 DEF IInv, NothingLost, callVars, toldVars
  <1>7. PumpPhase' /\ Final'
    BY <1>1, <1>2, <1>4, <1>5 DEF PumpPhase, NobodyHolds, Final, toldVars
  <1>8. PumpTruth'
    BY <1>1, <1>4, <1>5 DEF PumpTruth, callVars
  <1> QED BY <1>5, <1>6, <1>7, <1>8 DEF IInv

LEMMA PumpFinallyStep == IInv /\ TypeOK' /\ PumpFinally => IInv'
  <1> SUFFICES ASSUME IInv, TypeOK', PumpFinally PROVE IInv'
    OBVIOUS
  <1>1. /\ pump = "finally" /\ pump' = "done"
        /\ UNCHANGED <<callVars, pumped, raised, toldVars, reader>>
        /\ responses' = Append(responses, End)
    BY DEF PumpFinally
  <1>2. End \in Items' /\ responses \in Seq(Items')
    BY <1>1 DEF Items, callVars, IInv, TypeOK
  <1>3. End.kind = "end"
    BY DEF End
  <1>4. /\ Ordered(responses)'
        /\ \A i \in DOMAIN responses : i \in DOMAIN responses' /\ responses'[i] = responses[i]
        /\ \A i \in DOMAIN responses' :
               i \in DOMAIN responses \/ (i = Len(responses) + 1 /\ responses'[i] = End)
        /\ \A k : Has(responses', k) <=> Has(responses, k) \/ End.kind = k
        /\ OneHolder'
    BY <1>1, <1>2, <1>3, PumpAppends
  <1>5. NothingLost'
    BY <1>1, <1>3, <1>4 DEF IInv, NothingLost, callVars, toldVars
  <1>6. PumpPhase' /\ Final'
    BY <1>1, <1>3, <1>4 DEF IInv, PumpPhase, Final, toldVars
  <1>7. PumpTruth'
    BY <1>1, <1>4 DEF IInv, PumpTruth, callVars, toldVars
  <1> QED BY <1>4, <1>5, <1>6, <1>7 DEF IInv

-----------------------------------------------------------------------------
\* A reader takes the head of the queue.
LEMMA TakeFacts ==
    ASSUME IInv, NEW r \in Readers, NEW kind, NEW next, Take(r, kind, next)
    PROVE  /\ responses' = Tail(responses) /\ Ordered(responses)'
           /\ responses[1] \in Items /\ responses[1].kind = kind /\ Head(responses) = responses[1]
           /\ \A i \in DOMAIN responses' : \E j \in DOMAIN responses : responses'[i] = responses[j]
           /\ \A i \in DOMAIN responses :
                  i = 1 \/ (i - 1 \in DOMAIN responses' /\ responses'[i - 1] = responses[i])
           /\ \A i \in DOMAIN responses' :
                \/ /\ kind = "envelope"
                   /\ responses'[i].kind = "envelope" => responses[1].frame < responses'[i].frame
                \/ kind = "failure" /\ responses'[i].kind = "end"
           /\ Has(responses, kind)
           /\ \A k : Has(responses', k) => Has(responses, k)
           /\ \A k : Has(responses, k) /\ k # kind => Has(responses', k)
           /\ NobodyHolds
  <1>1. responses \in Seq(Items) /\ responses # <<>> /\ responses' = Tail(responses)
        /\ Head(responses).kind = kind
    BY DEF Take, IInv, TypeOK
  <1>2. /\ Head(responses) = responses[1] /\ responses[1] \in Items /\ 1 \in DOMAIN responses
        /\ \A i \in DOMAIN responses' :
               i \in Nat /\ i >= 1 /\ i + 1 \in DOMAIN responses /\ responses'[i] = responses[i + 1]
        /\ \A i \in DOMAIN responses :
               i = 1 \/ (i - 1 \in DOMAIN responses' /\ responses'[i - 1] = responses[i])
    BY <1>1, TailFacts
  <1>3. /\ Ordered(Tail(responses))
        /\ \A i \in DOMAIN Tail(responses) :
             \/ /\ responses[1].kind = "envelope"
                /\ Tail(responses)[i].kind = "envelope"
                       => responses[1].frame < Tail(responses)[i].frame
             \/ responses[1].kind = "failure" /\ Tail(responses)[i].kind = "end"
        /\ \A k : Has(Tail(responses), k) => Has(responses, k)
    BY <1>1, OrderedTail DEF IInv
  <1>4. Has(responses, kind)
    BY <1>1, <1>2 DEF Has
  <1>5. ASSUME NEW k, Has(responses, k), k # kind PROVE Has(responses', k)
    BY <1>1, <1>2, <1>5 DEF Has
  <1>6. NobodyHolds
    BY <1>1 DEF IInv, OneHolder, NobodyHolds
  <1> QED BY <1>1, <1>2, <1>3, <1>4, <1>5, <1>6

LEMMA ReadEnvelopeStep ==
    ASSUME IInv, TypeOK', NEW r \in Readers, ReadEnvelope(r)
    PROVE  IInv' /\ Promise!HandOver
  <1>1. /\ Take(r, "envelope", "idle") /\ last' = Head(responses).frame
        /\ UNCHANGED <<callVars, pumpVars, toldFailure, toldEnd>>
        /\ reader' = [reader EXCEPT ![r] = "idle"]
    BY DEF ReadEnvelope, Take
  <1>2. /\ responses' = Tail(responses) /\ Ordered(responses)'
        /\ responses[1] \in Items /\ responses[1].kind = "envelope" /\ last' = responses[1].frame
        /\ \A i \in DOMAIN responses' : \E j \in DOMAIN responses : responses'[i] = responses[j]
        /\ \A i \in DOMAIN responses :
               i = 1 \/ (i - 1 \in DOMAIN responses' /\ responses'[i - 1] = responses[i])
        /\ \A i \in DOMAIN responses' :
               responses'[i].kind = "envelope" => last' < responses'[i].frame
        /\ Has(responses, "envelope")
        /\ \A k : Has(responses', k) => Has(responses, k)
        /\ \A k : Has(responses, k) /\ k # "envelope" => Has(responses', k)
        /\ NobodyHolds
    BY <1>1, TakeFacts
  <1>3. ~toldFailure /\ ~toldEnd
    BY <1>2 DEF IInv, Final
  <1>4. responses[1] = Envelope(last') /\ last' \in 1..pumped /\ frames[last'] = "envelope"
    BY <1>2 DEF Items, Envelope, Failure, End
  <1>5. /\ last < last' /\ last \in Nat /\ last' \in Nat /\ pumped \in Nat
        /\ Len(frames) \in Nat /\ pumped <= Len(frames)
    <2>1. 1 \in DOMAIN responses
      BY <1>1, TailFacts DEF Take, IInv, TypeOK
    <2>2. last < last'
      BY <1>2, <2>1 DEF IInv, NothingLost
    <2>3. last \in Nat /\ pumped \in Nat /\ Len(frames) \in Nat /\ pumped <= Len(frames)
      BY DEF IInv, TypeOK
    <2> QED BY <1>4, <2>2, <2>3
  <1>6. NothingLost'
    <2> SUFFICES ASSUME NEW p \in 1..pumped, frames[p] = "envelope", last' < p
                 PROVE  \E i \in DOMAIN responses' : responses'[i] = Envelope(p)
      BY <1>1, <1>2 DEF NothingLost, callVars, pumpVars
    <2>1. last < p
      BY <1>4, <1>5
    <2>2. PICK i \in DOMAIN responses : responses[i] = Envelope(p)
      BY <2>1 DEF IInv, NothingLost
    <2>3. i # 1
      BY <1>4, <2>2 DEF Envelope
    <2> QED BY <1>2, <2>2, <2>3
  <1>7. NobodyHolds'
    BY <1>1, <1>2 DEF NobodyHolds, IInv, TypeOK
  <1>8. PumpPhase' /\ Final' /\ OneHolder'
    BY <1>1, <1>2, <1>3, <1>7 DEF IInv, PumpPhase, Final, OneHolder, NobodyHolds, pumpVars
  <1>9. PumpTruth'
    BY <1>1, <1>2 DEF IInv, PumpTruth, callVars, pumpVars
  <1>10. \A q \in (last + 1)..(last' - 1) : frames[q] # "envelope"
    <2>b. SUFFICES ASSUME NEW q, q \in (last + 1)..(last' - 1), frames[q] = "envelope" PROVE FALSE
      OBVIOUS
    <2>0. q \in Nat /\ last < q /\ q < last'
      <3>1. \A a, b \in Nat : \A c \in (a + 1)..(b - 1) : c \in Nat /\ a < c /\ c < b
        OBVIOUS
      <3> QED BY <1>5, <2>b, <3>1
    <2>1. q \in 1..pumped /\ last < q /\ q < last'
      <3>1. last' <= pumped
        BY <1>4, <1>5
      <3> QED BY <1>5, <2>0, <3>1
    <2>2. PICK i \in DOMAIN responses : responses[i] = Envelope(q)
      BY <2>1, <2>b DEF IInv, NothingLost
    <2>3. Envelope(q).kind = "envelope" /\ Envelope(q).frame = q /\ Envelope(last').frame = last'
      BY DEF Envelope
    <2>4. CASE i = 1
      BY <1>4, <2>1, <2>2, <2>3, <2>4
    <2>5. CASE i - 1 \in DOMAIN responses' /\ responses'[i - 1] = responses[i]
      <3>1. last' < Envelope(q).frame
        BY <1>2, <2>2, <2>3, <2>5
      <3> QED BY <1>5, <2>1, <2>3, <3>1
    <2> QED BY <1>2, <2>4, <2>5
  <1>11. Promise!NextEnvelope(last')
    <2>1. last' <= pumped
      BY <1>4, <1>5
    <2>2. last' \in (last + 1)..Len(frames)
      BY <1>5, <2>1
    <2> QED BY <1>4, <1>10, <2>2 DEF Promise!NextEnvelope
  <1>12. Promise!HandOver
    BY <1>1, <1>3, <1>11 DEF Promise!HandOver, callVars
  <1> QED BY <1>2, <1>6, <1>8, <1>9, <1>12 DEF IInv

\* The failure or the end: what is left behind it is only the end, or nothing.
LEMMA ReadFailureStep ==
    ASSUME IInv, TypeOK', NEW r \in Readers, ReadFailure(r)
    PROVE  IInv' /\ Promise!TellFailure
  <1>1. /\ Take(r, "failure", "idle") /\ toldFailure' = TRUE
        /\ UNCHANGED <<callVars, pumpVars, last, toldEnd>>
        /\ reader' = [reader EXCEPT ![r] = "idle"]
    BY DEF ReadFailure, Take
  <1>2. /\ Ordered(responses)' /\ responses[1].kind = "failure"
        /\ \A i \in DOMAIN responses' : \E j \in DOMAIN responses : responses'[i] = responses[j]
        /\ \A i \in DOMAIN responses :
               i = 1 \/ (i - 1 \in DOMAIN responses' /\ responses'[i - 1] = responses[i])
        /\ \A i \in DOMAIN responses' : responses'[i].kind = "end"
        /\ Has(responses, "failure")
        /\ \A k : Has(responses', k) => Has(responses, k)
        /\ NobodyHolds
    BY <1>1, TakeFacts
  <1>3. ~toldFailure /\ ~toldEnd /\ pump # "loop"
    BY <1>2 DEF IInv, Final, PumpPhase
  <1>4. NothingLost'
    <2>1. \A p : responses[1] # Envelope(p)
      BY <1>2 DEF Envelope
    <2> QED BY <1>1, <1>2, <2>1 DEF IInv, NothingLost, callVars, pumpVars
  <1>5. NobodyHolds'
    BY <1>1, <1>2 DEF NobodyHolds, IInv, TypeOK
  <1>6. PumpPhase'
    BY <1>1, <1>2, <1>3, <1>5 DEF IInv, PumpPhase, pumpVars
  <1>7. Final'
    BY <1>2 DEF Final, Has
  <1>8. OneHolder' /\ PumpTruth'
    BY <1>1, <1>5 DEF IInv, PumpTruth, OneHolder, NobodyHolds, callVars, pumpVars
  <1>9. Promise!TellFailure
    BY <1>1, <1>3 DEF Promise!TellFailure, callVars
  <1> QED BY <1>2, <1>4, <1>6, <1>7, <1>8, <1>9 DEF IInv

LEMMA ReadEndStep ==
    ASSUME IInv, TypeOK', NEW r \in Readers, ReadEnd(r)
    PROVE  IInv' /\ Promise!TellEnd
  <1>1. /\ Take(r, "end", "holding") /\ toldEnd' = TRUE
        /\ UNCHANGED <<callVars, pumpVars, last, toldFailure>>
        /\ reader' = [reader EXCEPT ![r] = "holding"]
        /\ responses' = Tail(responses)
    BY DEF ReadEnd, Take, AfterEnd
  <1>2. /\ Ordered(responses)' /\ responses[1].kind = "end"
        /\ \A i \in DOMAIN responses :
               i = 1 \/ (i - 1 \in DOMAIN responses' /\ responses'[i - 1] = responses[i])
        /\ \A i \in DOMAIN responses' : FALSE
        /\ Has(responses, "end")
        /\ \A k : Has(responses, k) /\ k # "end" => Has(responses', k)
        /\ NobodyHolds
    BY <1>1, TakeFacts
  <1>3. responses' = <<>>
    <2>1. responses' \in Seq(Items')
      BY DEF TypeOK
    <2> QED BY <1>2, <2>1
  <1>4. pump = "done"
    BY <1>2 DEF IInv, PumpPhase
  <1>5. NothingLost'
    <2>1. \A p : responses[1] # Envelope(p)
      BY <1>2 DEF Envelope
    <2> QED BY <1>1, <1>2, <2>1 DEF IInv, NothingLost, callVars, pumpVars
  <1>6. PumpPhase' /\ Final'
    BY <1>1, <1>2, <1>4 DEF PumpPhase, Final, Has, pumpVars
  <1>7. OneHolder'
    BY <1>1, <1>2, <1>3 DEF NobodyHolds, OneHolder, IInv, TypeOK
  <1>8. PumpTruth'
    BY <1>1, <1>2 DEF IInv, PumpTruth, callVars, pumpVars
  <1>9. Promise!TellEnd
    BY <1>1 DEF Promise!TellEnd, callVars
  <1> QED BY <1>2, <1>5, <1>6, <1>7, <1>8, <1>9 DEF IInv

LEMMA PutEndBackStep ==
    ASSUME IInv, TypeOK', NEW r \in Readers, PutEndBack(r)
    PROVE  IInv'
  <1>1. /\ reader[r] = "holding" /\ responses' = Append(responses, End)
        /\ reader' = [reader EXCEPT ![r] = "idle"]
        /\ UNCHANGED <<callVars, pumpVars, toldVars>>
    BY DEF PutEndBack
  <1>2. toldEnd /\ responses = <<>> /\ pump = "done"
        /\ \A s \in Readers : reader[s] = "holding" => s = r
    BY <1>1 DEF IInv, OneHolder, PumpPhase
  <1>3. responses' = <<End>> /\ DOMAIN responses' = {1} /\ responses'[1].kind = "end"
    BY <1>1, <1>2 DEF End
  <1>4. Ordered(responses)' /\ Final'
    BY <1>3 DEF Ordered, Final, Has
  <1>5. NothingLost'
    BY <1>1, <1>2, <1>3 DEF IInv, NothingLost, callVars, pumpVars, toldVars
  <1>6. NobodyHolds'
    BY <1>1, <1>2 DEF NobodyHolds, IInv, TypeOK
  <1>7. PumpPhase' /\ OneHolder'
    BY <1>1, <1>2, <1>6 DEF IInv, PumpPhase, OneHolder, NobodyHolds, pumpVars, toldVars
  <1>8. PumpTruth'
    BY <1>1, <1>2 DEF IInv, PumpTruth, callVars, pumpVars, toldVars, Has
  <1> QED BY <1>4, <1>5, <1>7, <1>8 DEF IInv

-----------------------------------------------------------------------------
LEMMA StepIInv == IInv /\ [Next]_vars => IInv'
  <1> SUFFICES ASSUME IInv, [Next]_vars PROVE IInv'
    OBVIOUS
  <1>0. TypeOK' /\ (call = "live" => pump = "loop" \/ raised)
    BY TypeStep, LiveIsPumped DEF IInv
  <1>1. ASSUME NEW k \in FrameKinds, ServerSends(k) PROVE IInv'
    <2>1. \A p \in 1..pumped : frames'[p] = frames[p]
      BY <1>1 DEF ServerSends, IInv, TypeOK
    <2> QED BY <1>0, <1>1, <2>1, QuietStep DEF ServerSends
  <1>2. ASSUME NEW h \in {"ended", "failed"}, ServerStops(h) PROVE IInv'
    BY <1>0, <1>2, QuietStep DEF ServerStops
  <1>3. ASSUME NEW r \in Readers, Read(r) \/ ReadTimesOut(r) PROVE IInv'
    <2>1. \A s \in Readers : reader'[s] = "holding" => reader[s] = "holding"
      BY <1>3 DEF Read, ReadTimesOut, IInv, TypeOK
    <2> QED BY <1>0, <1>3, <2>1, QuietStep DEF Read, ReadTimesOut, callVars
  <1>4. ASSUME NEW w \in Writers, WriterStep(w) PROVE IInv'
    <2>1. /\ UNCHANGED <<frames, pumpVars, readVars, reader>>
          /\ call # "live" => call' = call
      BY <1>4 DEF WriterStep, Finishing, Send, Close, Cancel, Called, Put, SetClosed, PutMark,
                  Abort, Writing
    <2> QED BY <1>0, <2>1, QuietStep
  <1>5. CASE Consumer
    BY <1>0, <1>5, QuietStep DEF Consumer, Transmit, HalfClose, callVars
  <1>6. CASE UNCHANGED vars
    BY <1>0, <1>6, QuietStep DEF vars, callVars
  <1>7. CASE Pump
    BY <1>0, <1>7, PumpFrameStep, PumpLeavesStep, PumpFailsStep, PumpFinallyStep DEF Pump
  <1>8. ASSUME NEW r \in Readers, Reading(r) PROVE IInv'
    BY <1>0, <1>8, ReadEnvelopeStep, ReadFailureStep, ReadEndStep, PutEndBackStep DEF Reading
  <1> QED BY <1>1, <1>2, <1>3, <1>4, <1>5, <1>6, <1>7, <1>8 DEF Next, Server, ReaderStep

\* The inductive invariant holds in every reachable state.
THEOREM StreamInvariance == Spec => []IInv
  BY InitIInv, StepIInv, PTL DEF Spec

\* Every variable of the stream stays in its type; in particular readers and the
\* pump only ever put envelopes, the failure and the end in the response queue.
THEOREM StreamTypes == Spec => []TypeOK
  <1>1. IInv => TypeOK
    BY DEF IInv
  <1> QED BY <1>1, StreamInvariance, PTL

LEMMA EndFollows == IInv => EndIsTruth
  <1> SUFFICES ASSUME IInv, toldEnd, ~raised PROVE
          /\ call # "live"
          /\ call \in {"failed", "cancelled"} => toldFailure
          /\ call = "ended" => \A p \in DOMAIN frames : frames[p] = "envelope" => p <= last
    BY DEF EndIsTruth
  <1>1. ~Has(responses, "envelope") /\ ~Has(responses, "failure") /\ pump = "done"
    BY DEF IInv, Final, PumpPhase
  <1>2. /\ call # "live"
        /\ call = "ended" => pumped = Len(frames)
        /\ call \in {"failed", "cancelled"} => toldFailure
    BY <1>1 DEF IInv, PumpTruth
  <1>3. ASSUME call = "ended", NEW p \in DOMAIN frames, frames[p] = "envelope" PROVE p <= last
    <2>1. p \in 1..pumped /\ last \in Nat /\ p \in Nat
      BY <1>2, <1>3 DEF IInv, TypeOK
    <2>2. ~(last < p)
      BY <1>1, <1>3, <2>1 DEF IInv, NothingLost, Has, Envelope
    <2> QED BY <2>1, <2>2
  <1> QED BY <1>2, <1>3

\* Whoever sees the end of the stream may rely on it (read(), _pump_responses).
THEOREM EndCanBeTrusted == Spec => []EndIsTruth
  BY EndFollows, StreamInvariance, PTL

\* Every step of the stream is one its promise allows, or one nobody sees.
LEMMA PromiseStep ==
    ASSUME IInv, TypeOK', [Next]_vars
    PROVE  Promise!Next \/ UNCHANGED Promise!promiseVars
  <1> USE DEF Promise!promiseVars
  <1>1. ASSUME NEW k \in FrameKinds, ServerSends(k) PROVE Promise!ServerSends
    BY <1>1 DEF ServerSends, Promise!ServerSends, readVars
  <1>2. ASSUME NEW h \in {"ended", "failed"}, ServerStops(h) PROVE UNCHANGED Promise!promiseVars
    BY <1>2 DEF ServerStops, readVars
  <1>3. CASE Pump
    BY <1>3 DEF Pump, PumpFrame, CallbackRaises, PumpEnds, PumpFails, PumpFinally, callVars,
                toldVars, readVars
  <1>4. ASSUME NEW r \in Readers, Read(r) \/ ReadTimesOut(r) \/ PutEndBack(r)
        PROVE  UNCHANGED Promise!promiseVars
    BY <1>4 DEF Read, ReadTimesOut, PutEndBack, callVars, readVars, toldVars
  <1>5. ASSUME NEW r \in Readers, ReadEnvelope(r) \/ ReadFailure(r) \/ ReadEnd(r) PROVE Promise!Next
    BY <1>5, ReadEnvelopeStep, ReadFailureStep, ReadEndStep DEF Promise!Next
  <1>6. ASSUME NEW w \in Writers, WriterStep(w) PROVE UNCHANGED Promise!promiseVars
    BY <1>6 DEF WriterStep, Finishing, Send, Close, Cancel, Called, Put, SetClosed, PutMark,
                Abort, Writing, readVars
  <1>7. CASE Consumer \/ UNCHANGED vars
    BY <1>7 DEF Consumer, Transmit, HalfClose, vars, callVars, readVars
  <1> QED BY <1>1, <1>2, <1>3, <1>4, <1>5, <1>6, <1>7
          DEF Next, Server, ReaderStep, Reading, Promise!Next

\* The stream implements its promise: envelopes in order and each once, then at most
\* one failure, then the end for ever.
THEOREM PromiseKept == Spec => PromiseSpec
  <1>1. Init => Promise!Init
    BY DEF Init, Promise!Init
  <1>2. IInv /\ TypeOK' /\ [Next]_vars => [Promise!Next]_(Promise!promiseVars)
    BY PromiseStep
  <1> QED BY <1>1, <1>2, StreamInvariance, StreamTypes, PTL DEF Spec, PromiseSpec, Promise!Spec

-----------------------------------------------------------------------------
\* The write side.  Nobody marks the end of the queue before the stream is closed,
\* and what is owed has gone out or is in the queue ahead of every mark.
MarkedAfterClosed ==
    ~closed =>
        /\ \A i \in DOMAIN requests : requests[i] # "end"
        /\ consumer # "halfClosed"
        /\ \A w \in Writers : writer[w] \notin {"marking", "cancelMarking"}

OwedIsAhead ==
    call = "live" =>
        /\ consumer # "dropped"
        /\ consumer = "running" =>
               /\ owed <= sent + Len(requests)
               /\ \A i \in DOMAIN requests : requests[i] = "end" => owed <= sent + i - 1
        /\ consumer = "halfClosed" => owed <= sent

WriteInv == TypeOK /\ MarkedAfterClosed /\ OwedIsAhead

LEMMA InitWriteInv == Init => WriteInv
  <1> SUFFICES ASSUME Init PROVE WriteInv
    OBVIOUS
  <1>1. TypeOK
    BY InitIInv DEF IInv
  <1>2. requests = <<>> /\ Len(requests) = 0 /\ owed = 0 /\ sent = 0 /\ consumer = "running"
        /\ writer = [w \in Writers |-> "idle"]
    BY DEF Init
  <1>3. MarkedAfterClosed
    BY <1>2 DEF MarkedAfterClosed
  <1>4. OwedIsAhead
    BY <1>2 DEF OwedIsAhead
  <1> QED BY <1>1, <1>3, <1>4 DEF WriteInv

LEMMA StepWriteInv == WriteInv /\ [Next]_vars => WriteInv'
  <1> SUFFICES ASSUME WriteInv, [Next]_vars PROVE WriteInv'
    OBVIOUS
  <1>0. TypeOK' /\ TypeOK
    BY TypeStep DEF WriteInv
  <1>1. ASSUME UNCHANGED writeVars, call' = "live" => call = "live" PROVE WriteInv'
    <2>1. MarkedAfterClosed'
      BY <1>1 DEF WriteInv, MarkedAfterClosed, writeVars
    <2>2. OwedIsAhead'
      BY <1>1 DEF WriteInv, OwedIsAhead, writeVars
    <2> QED BY <1>0, <2>1, <2>2 DEF WriteInv
  <1>2. ASSUME NEW w \in Writers, Called(w, "sending") \/ Called(w, "closing")
                               \/ Called(w, "aborting") \/ Called(w, "cancelling") \/ Abort(w)
        PROVE  WriteInv'
    <2>1. /\ UNCHANGED <<closed, requests, owed, consumer, sent>>
          /\ call' = "live" => call = "live"
      BY <1>2 DEF Called, Abort, Writing
    <2>2. \A v \in Writers : writer'[v] \in {"marking", "cancelMarking"} => writer'[v] = writer[v]
      BY <1>0, <1>2 DEF Called, Abort, Writing, TypeOK
    <2>3. MarkedAfterClosed'
      BY <2>1, <2>2 DEF WriteInv, MarkedAfterClosed
    <2>4. OwedIsAhead'
      BY <2>1 DEF WriteInv, OwedIsAhead
    <2> QED BY <1>0, <2>3, <2>4 DEF WriteInv
  <1>3. ASSUME NEW w \in Writers, SetClosed(w) PROVE WriteInv'
    <2>1. closed' = TRUE /\ UNCHANGED <<call, requests, owed, consumer, sent>>
      BY <1>3 DEF SetClosed, Writing
    <2>2. MarkedAfterClosed' /\ OwedIsAhead'
      BY <2>1 DEF WriteInv, MarkedAfterClosed, OwedIsAhead
    <2> QED BY <1>0, <2>2 DEF WriteInv
  <1>4. ASSUME NEW w \in Writers, Put(w) PROVE WriteInv'
    <2>1. /\ requests' = Append(requests, "frame") /\ UNCHANGED <<call, closed, consumer, sent>>
          /\ writer' = [writer EXCEPT ![w] = "idle"]
          /\ owed' = IF closed THEN owed ELSE owed + 1
      BY <1>4 DEF Put, Writing
    <2>2. /\ Len(requests') = Len(requests) + 1
          /\ \A i \in DOMAIN requests' : requests'[i] = "end" =>
                 i \in DOMAIN requests /\ requests[i] = "end"
      BY <2>1, <1>0, AppendFacts DEF TypeOK
    <2>3. owed \in Nat /\ sent \in Nat /\ Len(requests) \in Nat
          /\ (owed' = owed \/ (owed' = owed + 1 /\ ~closed))
      BY <1>0, <2>1 DEF TypeOK
    <2>4. MarkedAfterClosed'
      BY <1>0, <2>1, <2>2 DEF WriteInv, MarkedAfterClosed, TypeOK
    <2>5. OwedIsAhead'
      <3>1. CASE owed' = owed
        BY <2>1, <2>2, <2>3, <3>1 DEF WriteInv, OwedIsAhead
      <3>2. CASE owed' = owed + 1 /\ ~closed
        BY <2>1, <2>2, <2>3, <3>2 DEF WriteInv, OwedIsAhead, MarkedAfterClosed
      <3> QED BY <2>3, <3>1, <3>2
    <2> QED BY <1>0, <2>4, <2>5 DEF WriteInv
  <1>5. ASSUME NEW w \in Writers, PutMark(w) PROVE WriteInv'
    <2>1. /\ requests' = Append(requests, "end")
          /\ UNCHANGED <<call, closed, consumer, sent, owed>>
          /\ writer[w] \in {"marking", "cancelMarking"}
      BY <1>5 DEF PutMark, Marked, Writing
    <2>2. /\ Len(requests') = Len(requests) + 1
          /\ \A i \in DOMAIN requests' :
                 \/ i \in DOMAIN requests /\ requests'[i] = requests[i]
                 \/ i = Len(requests) + 1
      BY <2>1, <1>0, AppendFacts DEF TypeOK
    <2>3. owed \in Nat /\ sent \in Nat /\ Len(requests) \in Nat
      BY <1>0 DEF TypeOK
    <2>4. closed
      BY <2>1 DEF WriteInv, MarkedAfterClosed
    <2>5. MarkedAfterClosed'
      BY <2>1, <2>4 DEF MarkedAfterClosed
    <2>6. OwedIsAhead'
      BY <2>1, <2>2, <2>3 DEF WriteInv, OwedIsAhead
    <2> QED BY <1>0, <2>5, <2>6 DEF WriteInv
  <1>6. CASE Consumer
    <2>1. /\ requests # <<>> /\ requests' = Tail(requests) /\ consumer = "running"
          /\ UNCHANGED <<call, closed, owed, writer>>
          /\ \/ Head(requests) = "frame" /\ call = "live" /\ sent' = sent + 1 /\ consumer' = consumer
             \/ call # "live" /\ sent' = sent /\ consumer' = "dropped"
             \/ Head(requests) = "end" /\ sent' = sent /\ consumer' = "halfClosed"
      BY <1>6 DEF Consumer, Transmit, HalfClose, callVars
    <2>2. /\ Len(requests') = Len(requests) - 1 /\ Head(requests) = requests[1]
          /\ 1 \in DOMAIN requests
          /\ \A i \in DOMAIN requests' :
                 i \in Nat /\ i + 1 \in DOMAIN requests /\ requests'[i] = requests[i + 1]
      BY <1>0, <2>1, TailFacts DEF TypeOK
    <2>3. owed \in Nat /\ sent \in Nat /\ Len(requests) \in Nat
      BY <1>0 DEF TypeOK
    <2>4. MarkedAfterClosed'
      BY <2>1, <2>2 DEF WriteInv, MarkedAfterClosed
    <2>5. OwedIsAhead'
      <3>1. CASE Head(requests) = "frame" /\ call = "live" /\ sent' = sent + 1 /\ consumer' = consumer
        <4>1. owed <= sent' + Len(requests')
          BY <2>1, <2>2, <2>3, <3>1 DEF WriteInv, OwedIsAhead
        <4>2. \A i \in DOMAIN requests' : requests'[i] = "end" => owed <= sent' + i - 1
          BY <2>1, <2>2, <2>3, <3>1 DEF WriteInv, OwedIsAhead
        <4> QED BY <2>1, <3>1, <4>1, <4>2 DEF OwedIsAhead
      <3>2. CASE call # "live"
        BY <2>1, <3>2 DEF OwedIsAhead
      <3>3. CASE Head(requests) = "end" /\ sent' = sent /\ consumer' = "halfClosed"
        BY <2>1, <2>2, <2>3, <3>3 DEF WriteInv, OwedIsAhead
      <3> QED BY <2>1, <3>1, <3>2, <3>3
    <2> QED BY <1>0, <2>4, <2>5 DEF WriteInv
  <1>7. ASSUME Server \/ Pump \/ (\E r \in Readers : ReaderStep(r)) \/ UNCHANGED vars
        PROVE  UNCHANGED writeVars /\ (call' = "live" => call = "live")
    BY <1>7 DEF Server, ServerSends, ServerStops, Pump, PumpFrame, CallbackRaises, PumpEnds,
                PumpFails, PumpFinally, ReaderStep, Read, Reading, ReadEnvelope, ReadFailure,
                ReadEnd, PutEndBack, ReadTimesOut, Take, vars, callVars
  <1>8. ASSUME NEW w \in Writers, WriterStep(w) PROVE WriteInv'
    BY <1>2, <1>3, <1>4, <1>5, <1>8 DEF WriterStep, Finishing, Send, Close, Cancel
  <1> QED BY <1>1, <1>6, <1>7, <1>8 DEF Next

\* What was put before anybody closed the stream goes out before the half-close
\* (send(), close(), _request_iter).
THEOREM ClosingSendsFirst == Spec => []SentBeforeClose
  <1>1. WriteInv => SentBeforeClose
    BY DEF WriteInv, OwedIsAhead, SentBeforeClose, TypeOK
  <1>2. Spec => []WriteInv
    BY InitWriteInv, StepWriteInv, PTL DEF Spec
  <1> QED BY <1>1, <1>2, PTL

-----------------------------------------------------------------------------
(***************************************************************************)
(* Both flavours.  A step of the threaded flavour is a step of MacpStream, *)
(* so the lemmas above apply.  Of the asyncio flavour the same invariant   *)
(* holds: most of its steps leave the response queue alone or are steps of *)
(* MacpStream; the pump's last step and the read of the end are two of     *)
(* those in one.  On the write side nothing is ever queued, so what is     *)
(* owed has gone out at any time.                                          *)
(***************************************************************************)
QueueSteps(r) == Read(r) \/ ReadEnvelope(r) \/ ReadFailure(r) \/ ReadTimesOut(r)

\* What a step of a task leaves alone, and what it may do to the rest.
LEMMA TaskStep ==
    ASSUME TypeOK, NEW w \in Writers, AsyncWriter(w)
    PROVE  /\ UNCHANGED <<frames, pumpVars, readVars, reader, requests, writer>>
           /\ call # "live" => call' = call
           /\ call' \in {call, "cancelled"} /\ calls' \in 0..MaxCalls
           /\ closed' = closed \/ closed' = TRUE
           /\ \/ UNCHANGED <<owed, sent>>
              \/ sent' = sent + 1 /\ owed' \in {owed, owed + 1}
           /\ consumer' = consumer \/ (consumer' = "halfClosed" /\ closed' = TRUE)
           /\ flavour = "asyncio" /\ flavour' = flavour
  <1> USE StreamAssumption
  <1>1. CASE AsyncSend(w) \/ AsyncClose(w) \/ AsyncCancel(w) \/ Exit(w)
    <2>1. calls' \in 0..MaxCalls
      BY <1>1 DEF AsyncSend, AsyncClose, AsyncCancel, Exit, TaskCalls, CallMade, TypeOK
    <2> QED BY <1>1, <2>1 DEF AsyncSend, AsyncClose, AsyncCancel, Exit, Aborts, TaskCalls, Tasked
  <1>2. CASE Granted(w) \/ Exited(w)
    BY <1>2 DEF Granted, Exited, Tasked, TypeOK
  <1>3. CASE Written(w)
    BY <1>3 DEF Written, Leaves, Tasked, TypeOK
  <1>4. CASE WriteRaises(w)
    BY <1>4 DEF WriteRaises, Leaves, Tasked, TypeOK
  <1> QED BY <1>1, <1>2, <1>3, <1>4 DEF AsyncWriter, AsyncFinishing

\* What the pump publishes last: nothing or the failure, then the end.
LEMMA PublishedLast ==
    ASSUME NEW S, NEW q \in Seq(S), NEW x \in S, NEW e \in S
    PROVE  /\ q \o <<>> \o <<e>> = Append(q, e)
           /\ q \o <<x>> \o <<e>> = Append(Append(q, x), e)
  OBVIOUS

LEMMA AsyncPumpLast ==
    ASSUME TypeOK, AsyncCallbackRaises \/ AsyncPumpEnds \/ AsyncPumpFails
    PROVE  /\ pump = "loop" /\ pump' = "done"
           /\ UNCHANGED <<callVars, toldVars, reader, writeVars, calls>>
           /\ pumped' \in 0..Len(frames) /\ pumped <= pumped'
           /\ raised' \in BOOLEAN
           /\ \/ /\ responses' = Append(responses, End)
                 /\ \/ raised' /\ pumped' = pumped + 1 /\ frames[pumped'] # "envelope"
                    \/ call = "ended" /\ pumped' = Len(frames) /\ UNCHANGED <<pumped, raised>>
              \/ /\ responses' = Append(Append(responses, Failure), End)
                 /\ call \in {"failed", "cancelled"} /\ UNCHANGED <<pumped, raised>>
  <1>1. /\ responses \o <<>> \o <<End>> = Append(responses, End)
        /\ responses \o <<Failure>> \o <<End>> = Append(Append(responses, Failure), End)
    BY EndsAreItems, PublishedLast DEF TypeOK
  <1>2. CASE AsyncCallbackRaises
    <2>1. /\ pump = "loop" /\ pump' = "done" /\ responses' = responses \o <<>> \o <<End>>
          /\ UNCHANGED <<callVars, toldVars, reader, writeVars, calls>>
          /\ pumped < Len(frames) /\ pumped' = pumped + 1 /\ raised' = TRUE
          /\ frames[pumped + 1] = "error"
      BY <1>2 DEF AsyncCallbackRaises, Publishes
    <2>2. pumped' \in 0..Len(frames) /\ pumped <= pumped'
      BY <2>1 DEF TypeOK
    <2>3. responses' = Append(responses, End)
      BY <1>1, <2>1
    <2> QED BY <2>1, <2>2, <2>3
  <1>3. CASE AsyncPumpEnds
    BY <1>1, <1>3 DEF AsyncPumpEnds, Publishes, TypeOK
  <1>4. CASE AsyncPumpFails
    <2>1. /\ pump = "loop" /\ pump' = "done" /\ responses' = responses \o <<Failure>> \o <<End>>
          /\ UNCHANGED <<callVars, toldVars, reader, writeVars, calls, pumped, raised>>
          /\ call \in {"failed", "cancelled"}
      BY <1>4 DEF AsyncPumpFails, AsyncSurfaced, Publishes
    <2>2. pumped' \in 0..Len(frames) /\ pumped <= pumped' /\ raised' \in BOOLEAN
      BY <2>1 DEF TypeOK
    <2>3. responses' = Append(Append(responses, Failure), End)
      BY <1>1, <2>1
    <2> QED BY <2>1, <2>2, <2>3
  <1> QED BY <1>2, <1>3, <1>4

-----------------------------------------------------------------------------
\* Steps of MacpStream that the asyncio flavour takes as they are.
LEMMA SharedStep ==
    ASSUME Loop(Server) \/ Loop(PumpFrame) \/ (\E r \in Readers : Loop(QueueSteps(r)))
    PROVE  Next
  BY DEF Loop, Next, Pump, ReaderStep, Reading, QueueSteps

\* Every step of either flavour, by what the lemmas below have to say of it.
LEMMA AsyncSteps ==
    ASSUME [AsyncNext]_allVars
    PROVE  \/ [Next]_vars /\ (flavour = "asyncio" => UNCHANGED writeVars) /\ UNCHANGED flavour
           \/ Loop(AsyncCallbackRaises \/ AsyncPumpEnds \/ AsyncPumpFails)
           \/ \E r \in Readers : Loop(AsyncReadEnd(r))
           \/ \E w \in Writers : AsyncWriter(w)
  <1>1. CASE Threads(Next) \/ UNCHANGED allVars
    BY <1>1 DEF Threads, asyncVars, allVars, vars
  <1>2. CASE Loop(Server)
    BY <1>2, SharedStep DEF Loop, asyncVars, Server, ServerSends, ServerStops
  <1>3. CASE Loop(AsyncPump)
    BY <1>3, SharedStep DEF Loop, asyncVars, AsyncPump, AsyncPumpFrame, PumpFrame
  <1>4. ASSUME NEW r \in Readers, Loop(AsyncReader(r)) PROVE
              \/ [Next]_vars /\ UNCHANGED writeVars /\ UNCHANGED flavour
              \/ Loop(AsyncReadEnd(r))
    <2>1. CASE Loop(AsyncReadEnd(r))
      BY <2>1
    <2>2. CASE Loop(QueueSteps(r))
      BY <2>2, SharedStep DEF Loop, asyncVars, QueueSteps, Read, ReadEnvelope, ReadFailure,
                              ReadTimesOut, Take
    <2> QED BY <1>4, <2>1, <2>2 DEF Loop, AsyncReader, AsyncReading, AsyncRead, AsyncReadEnvelope,
                                    AsyncReadFailure, AsyncReadTimesOut, QueueSteps
  <1> QED BY <1>1, <1>2, <1>3, <1>4 DEF AsyncNext

-----------------------------------------------------------------------------
LEMMA AsyncTypeStep == TypeOK /\ [AsyncNext]_allVars => TypeOK'
  <1> SUFFICES ASSUME TypeOK, [AsyncNext]_allVars PROVE TypeOK'
    OBVIOUS
  <1>1. CASE [Next]_vars
    BY <1>1, TypeStep
  <1>2. CASE Loop(AsyncCallbackRaises \/ AsyncPumpEnds \/ AsyncPumpFails)
    <2>1. /\ pump' = "done" /\ UNCHANGED <<callVars, toldVars, reader, writeVars, calls>>
          /\ pumped' \in 0..Len(frames) /\ pumped <= pumped' /\ raised' \in BOOLEAN
          /\ \/ responses' = Append(responses, End)
             \/ responses' = Append(Append(responses, Failure), End)
      BY <1>2, AsyncPumpLast DEF Loop
    <2>2. responses \in Seq(Items') /\ Failure \in Items' /\ End \in Items'
      BY <2>1, ItemsGrow DEF callVars, TypeOK, Items
    <2>3. responses' \in Seq(Items')
      BY <2>1, <2>2
    <2>4. last' \in 0..pumped'
      BY <2>1 DEF toldVars, TypeOK
    <2> QED BY <2>1, <2>3, <2>4 DEF TypeOK, callVars, toldVars, writeVars
  <1>3. ASSUME NEW r \in Readers, Loop(AsyncReadEnd(r)) PROVE TypeOK'
    <2>1. /\ responses # <<>> /\ responses' = Append(Tail(responses), End) /\ toldEnd' = TRUE
          /\ reader' = [reader EXCEPT ![r] = "idle"]
          /\ UNCHANGED <<callVars, pumpVars, last, toldFailure, writeVars, calls>>
      BY <1>3 DEF Loop, AsyncReadEnd
    <2>2. Items' = Items
      BY <2>1 DEF Items, callVars, pumpVars
    <2>3. responses' \in Seq(Items')
      BY <2>1, <2>2, EndsAreItems DEF TypeOK
    <2> QED BY <2>1, <2>3 DEF TypeOK, callVars, pumpVars, writeVars
  <1>4. ASSUME NEW w \in Writers, AsyncWriter(w) PROVE TypeOK'
    <2>1. /\ UNCHANGED <<frames, pumpVars, readVars, reader, requests, writer>>
          /\ call' \in {call, "cancelled"} /\ calls' \in 0..MaxCalls
          /\ closed' = closed \/ closed' = TRUE
          /\ \/ UNCHANGED <<owed, sent>>
             \/ sent' = sent + 1 /\ owed' \in {owed, owed + 1}
          /\ consumer' = consumer \/ consumer' = "halfClosed"
      BY <1>4, TaskStep
    <2>2. Items' = Items
      BY <2>1 DEF Items, pumpVars
    <2>3. closed' \in BOOLEAN
      BY <2>1 DEF TypeOK
    <2>4. owed' \in Nat /\ sent' \in Nat
      BY <2>1 DEF TypeOK
    <2> QED BY <2>1, <2>2, <2>3, <2>4 DEF TypeOK, pumpVars, readVars
  <1> QED BY <1>1, <1>2, <1>3, <1>4, AsyncSteps

\* The failure, if there is one, and the end are put at once.
LEMMA AsyncPumpStep ==
    ASSUME IInv, TypeOK', AsyncCallbackRaises \/ AsyncPumpEnds \/ AsyncPumpFails
    PROVE  IInv'
  <1>1. /\ pump = "loop" /\ pump' = "done" /\ pumped' \in 0..Len(frames) /\ pumped <= pumped'
        /\ UNCHANGED <<callVars, toldVars, reader>>
        /\ \/ /\ responses' = Append(responses, End)
              /\ \/ raised' /\ pumped' = pumped + 1 /\ frames[pumped'] # "envelope"
                 \/ call = "ended" /\ pumped' = Len(frames) /\ UNCHANGED <<pumped, raised>>
           \/ /\ responses' = Append(Append(responses, Failure), End)
              /\ call \in {"failed", "cancelled"} /\ UNCHANGED <<pumped, raised>>
    BY AsyncPumpLast DEF IInv
  <1>2. ~Has(responses, "failure") /\ ~Has(responses, "end") /\ ~toldFailure /\ ~toldEnd /\ NobodyHolds
    BY <1>1 DEF IInv, PumpPhase
  <1>3. responses \in Seq(Items') /\ Failure \in Items' /\ End \in Items'
    BY <1>1, ItemsGrow DEF Items, callVars, IInv, TypeOK
  <1>4. Failure.kind = "failure" /\ End.kind = "end"
    BY DEF Failure, End
  <1>5. \A i \in DOMAIN responses : responses[i].kind = "envelope"
    <2>1. \A i \in DOMAIN responses : responses[i].kind \in {"envelope", "failure", "end"}
      BY DEF IInv, TypeOK, Items, Envelope, Failure, End
    <2> QED BY <1>2, <2>1 DEF Has
  <1>6. PICK m \in Seq(Items') :
            /\ responses' = Append(m, End) /\ Ordered(m)
            /\ m = responses \/ (m = Append(responses, Failure) /\ call \in {"failed", "cancelled"})
            /\ m = responses /\ ~raised' => call = "ended" /\ pumped' = Len(frames)
            /\ \A i \in DOMAIN responses : i \in DOMAIN m /\ m[i] = responses[i]
            /\ \A i \in DOMAIN m : i \in DOMAIN responses \/ m[i] = Failure
            /\ m # responses => Has(m, "failure")
    <2>1. CASE /\ responses' = Append(responses, End)
               /\ raised' \/ (call = "ended" /\ pumped' = Len(frames))
      BY <1>3, <2>1 DEF IInv
    <2>2. CASE /\ responses' = Append(Append(responses, Failure), End)
               /\ call \in {"failed", "cancelled"}
      <3>1. /\ Append(responses, Failure) \in Seq(Items')
            /\ DOMAIN Append(responses, Failure) = DOMAIN responses \cup {Len(responses) + 1}
            /\ \A i \in DOMAIN responses : Append(responses, Failure)[i] = responses[i]
            /\ Append(responses, Failure)[Len(responses) + 1] = Failure
        BY <1>3, AppendFacts
      <3>2. Ordered(Append(responses, Failure))
        BY <1>2, <1>3, <1>4, <1>5, OrderedAppend DEF IInv
      <3>3. Has(Append(responses, Failure), "failure")
        BY <1>4, <3>1 DEF Has
      <3>4. Append(responses, Failure) # responses
        BY <1>2, <3>3
      <3> QED BY <2>2, <3>1, <3>2, <3>3, <3>4
    <2> QED BY <1>1, <2>1, <2>2
  <1>7. /\ DOMAIN responses' = DOMAIN m \cup {Len(m) + 1}
        /\ \A i \in DOMAIN m : responses'[i] = m[i]
        /\ responses'[Len(m) + 1] = End
    BY <1>3, <1>6, AppendFacts
  <1>8. /\ \A i \in DOMAIN responses : i \in DOMAIN responses' /\ responses'[i] = responses[i]
        /\ \A i \in DOMAIN responses' :
               i \in DOMAIN responses \/ responses'[i] = Failure \/ responses'[i] = End
    BY <1>6, <1>7
  <1>9. Ordered(responses)'
    <2>1. ~Has(m, "end")
      BY <1>2, <1>4, <1>6 DEF Has
    <2>2. \A i \in DOMAIN m : m[i].kind \in {"envelope", "failure"}
      BY <1>4, <1>5, <1>6
    <2> QED BY <1>3, <1>4, <1>6, <2>1, <2>2, OrderedAppend
  <1>10. NothingLost'
    <2>1. \A p \in 1..pumped' : frames[p] = "envelope" => p \in 1..pumped
      <3>1. pumped' = pumped \/ (pumped' = pumped + 1 /\ frames[pumped'] # "envelope")
        BY <1>1
      <3> QED BY <3>1 DEF IInv, TypeOK
    <2> QED BY <1>1, <1>4, <1>8, <2>1 DEF IInv, NothingLost, callVars, toldVars
  <1>11. PumpPhase' /\ Final' /\ OneHolder'
    BY <1>1, <1>2 DEF PumpPhase, Final, OneHolder, NobodyHolds, toldVars
  <1>12. PumpTruth'
    <2>1. m # responses => Has(responses', "failure")
      BY <1>6, <1>7 DEF Has
    <2> QED BY <1>1, <1>6, <2>1 DEF PumpTruth, callVars
  <1> QED BY <1>9, <1>10, <1>11, <1>12 DEF IInv

\* The end is taken and put back: the queue holds it alone, before and after.
LEMMA AsyncReadEndStep ==
    ASSUME IInv, TypeOK', NEW r \in Readers, AsyncReadEnd(r)
    PROVE  IInv' /\ Promise!TellEnd
  <1>1. /\ responses # <<>> /\ Head(responses) = End /\ reader' = [reader EXCEPT ![r] = "idle"]
        /\ responses' = Append(Tail(responses), End) /\ toldEnd' = TRUE
        /\ UNCHANGED <<callVars, pumpVars, last, toldFailure>>
    BY DEF AsyncReadEnd
  <1>2. responses \in Seq(Items) /\ End.kind = "end"
    BY DEF IInv, TypeOK, End
  <1>3. /\ Tail(responses) \in Seq(Items) /\ responses[1] = End /\ 1 \in DOMAIN responses
        /\ \A i \in DOMAIN responses : i = 1 \/ i - 1 \in DOMAIN Tail(responses)
    BY <1>1, <1>2, TailFacts
  <1>4. \A i \in DOMAIN Tail(responses) : FALSE
    BY <1>1, <1>2, <1>3, OrderedTail DEF IInv
  <1>5. Tail(responses) = <<>>
    BY <1>3, <1>4
  <1>6. responses' = <<End>> /\ DOMAIN responses' = {1} /\ responses'[1] = End
    <2>1. responses' = Append(<<>>, End)
      BY <1>1, <1>5
    <2>2. Append(<<>>, End) = <<End>> /\ DOMAIN <<End>> = {1} /\ <<End>>[1] = End
      BY DEF End
    <2> QED BY <2>1, <2>2
  <1>7. \A i \in DOMAIN responses : i = 1
    BY <1>3, <1>4
  <1>8. Has(responses, "end") /\ ~Has(responses, "failure") /\ NobodyHolds
    BY <1>1, <1>2, <1>3, <1>7 DEF Has, IInv, OneHolder, NobodyHolds
  <1>9. pump = "done" /\ NobodyHolds'
    BY <1>1, <1>8 DEF IInv, PumpPhase, NobodyHolds, TypeOK
  <1>10. Ordered(responses)' /\ Final'
    BY <1>2, <1>6 DEF Ordered, Final, Has
  <1>11. NothingLost'
    <2>1. \A p : End # Envelope(p)
      BY <1>2 DEF Envelope
    <2> QED BY <1>1, <1>2, <1>3, <1>6, <1>7, <2>1 DEF IInv, NothingLost, callVars, pumpVars
  <1>12. PumpPhase' /\ OneHolder'
    BY <1>1, <1>9 DEF PumpPhase, OneHolder, NobodyHolds, pumpVars
  <1>13. PumpTruth'
    BY <1>1, <1>8 DEF IInv, PumpTruth, callVars, pumpVars
  <1>14. Promise!TellEnd
    BY <1>1 DEF Promise!TellEnd, callVars
  <1> QED BY <1>10, <1>11, <1>12, <1>13, <1>14 DEF IInv

LEMMA AsyncStepIInv == IInv /\ [AsyncNext]_allVars => IInv'
  <1> SUFFICES ASSUME IInv, [AsyncNext]_allVars PROVE IInv'
    OBVIOUS
  <1>0. TypeOK' /\ (call = "live" => pump = "loop" \/ raised)
    BY AsyncTypeStep, LiveIsPumped DEF IInv
  <1>1. CASE [Next]_vars
    BY <1>1, StepIInv
  <1>2. CASE Loop(AsyncCallbackRaises \/ AsyncPumpEnds \/ AsyncPumpFails)
    BY <1>0, <1>2, AsyncPumpStep DEF Loop
  <1>3. ASSUME NEW r \in Readers, Loop(AsyncReadEnd(r)) PROVE IInv'
    BY <1>0, <1>3, AsyncReadEndStep DEF Loop
  <1>4. ASSUME NEW w \in Writers, AsyncWriter(w) PROVE IInv'
    <2>1. UNCHANGED <<frames, pumpVars, readVars, reader>> /\ (call # "live" => call' = call)
      BY <1>4, TaskStep DEF IInv
    <2> QED BY <1>0, <2>1, QuietStep
  <1> QED BY <1>1, <1>2, <1>3, <1>4, AsyncSteps

\* The same inductive invariant holds of both flavours.
THEOREM AsyncStreamInvariance == AsyncSpec => []IInv
  <1>1. AsyncInit => IInv
    BY InitIInv DEF AsyncInit
  <1> QED BY <1>1, AsyncStepIInv, PTL DEF AsyncSpec

\* Every variable a stream shares with a MacpStream stays in its type.
THEOREM AsyncStreamTypes == AsyncSpec => []TypeOK
  <1>1. IInv => TypeOK
    BY DEF IInv
  <1> QED BY <1>1, AsyncStreamInvariance, PTL

\* Whoever sees the end of an AsyncMacpStream may rely on it too (_pump_responses, read).
THEOREM AsyncEndCanBeTrusted == AsyncSpec => []EndIsTruth
  <1>1. IInv => EndIsTruth
    BY EndFollows
  <1> QED BY <1>1, AsyncStreamInvariance, PTL

\* Both flavours implement one promise: envelopes in order and each once, then at most
\* one failure, then the end for ever (docs/guides/async.md).
THEOREM AsyncPromiseKept == AsyncSpec => PromiseSpec
  <1>1. AsyncInit => Promise!Init
    BY DEF AsyncInit, Init, Promise!Init
  <1>2. IInv /\ TypeOK' /\ [AsyncNext]_allVars => [Promise!Next]_(Promise!promiseVars)
    <2> SUFFICES ASSUME IInv, TypeOK', [AsyncNext]_allVars
                 PROVE  Promise!Next \/ UNCHANGED Promise!promiseVars
      OBVIOUS
    <2> USE DEF Promise!promiseVars
    <2>1. CASE [Next]_vars
      BY <2>1, PromiseStep
    <2>2. CASE Loop(AsyncCallbackRaises \/ AsyncPumpEnds \/ AsyncPumpFails)
      BY <2>2, AsyncPumpLast DEF IInv, Loop, callVars, toldVars
    <2>3. ASSUME NEW r \in Readers, Loop(AsyncReadEnd(r)) PROVE Promise!Next
      BY <2>3, AsyncReadEndStep DEF Loop, Promise!Next
    <2>4. ASSUME NEW w \in Writers, AsyncWriter(w) PROVE UNCHANGED Promise!promiseVars
      BY <2>4, TaskStep DEF IInv, readVars
    <2> QED BY <2>1, <2>2, <2>3, <2>4, AsyncSteps
  <1> QED BY <1>1, <1>2, AsyncStreamInvariance, AsyncStreamTypes, PTL
          DEF AsyncSpec, PromiseSpec, Promise!Spec

-----------------------------------------------------------------------------
\* The write side: an AsyncMacpStream queues no frame, and none is owed but it went out.
NothingQueued == flavour = "asyncio" => requests = <<>> /\ owed <= sent

AsyncWriteInv == WriteInv /\ NothingQueued

LEMMA AsyncStepWriteInv == AsyncWriteInv /\ [AsyncNext]_allVars => AsyncWriteInv'
  <1> SUFFICES ASSUME AsyncWriteInv, [AsyncNext]_allVars PROVE AsyncWriteInv'
    OBVIOUS
  <1>0. TypeOK /\ TypeOK'
    BY AsyncTypeStep DEF AsyncWriteInv, WriteInv
  <1>1. CASE [Next]_vars /\ (flavour = "asyncio" => UNCHANGED writeVars) /\ UNCHANGED flavour
    BY <1>1, StepWriteInv DEF AsyncWriteInv, NothingQueued, writeVars
  <1>2. CASE \/ Loop(AsyncCallbackRaises \/ AsyncPumpEnds \/ AsyncPumpFails)
             \/ \E r \in Readers : Loop(AsyncReadEnd(r))
    <2>1. UNCHANGED <<callVars, writeVars, flavour>>
      BY <1>0, <1>2, AsyncPumpLast DEF Loop, AsyncReadEnd, asyncVars
    <2> QED BY <1>0, <2>1 DEF AsyncWriteInv, WriteInv, NothingQueued, MarkedAfterClosed, OwedIsAhead,
                              callVars, writeVars
  <1>3. ASSUME NEW w \in Writers, AsyncWriter(w) PROVE AsyncWriteInv'
    <2>1. /\ UNCHANGED <<requests, writer, flavour>> /\ flavour = "asyncio"
          /\ call' = "live" => call = "live"
          /\ closed' = closed \/ closed' = TRUE
          /\ \/ UNCHANGED <<owed, sent>>
             \/ sent' = sent + 1 /\ owed' \in {owed, owed + 1}
          /\ consumer' = consumer \/ (consumer' = "halfClosed" /\ closed' = TRUE)
      BY <1>0, <1>3, TaskStep
    <2>2. requests = <<>> /\ owed <= sent
      BY <2>1 DEF AsyncWriteInv, NothingQueued
    <2>3. owed' <= sent'
      BY <1>0, <2>1, <2>2 DEF TypeOK
    <2>4. MarkedAfterClosed'
      BY <2>1 DEF AsyncWriteInv, WriteInv, MarkedAfterClosed
    <2>5. OwedIsAhead'
      <3>1. requests' = <<>> /\ Len(requests') = 0 /\ \A i \in DOMAIN requests' : FALSE
        BY <2>1, <2>2
      <3>2. owed' \in Nat /\ sent' \in Nat /\ owed' <= sent' + Len(requests')
        <4>1. owed' \in Nat /\ sent' \in Nat
          BY <1>0 DEF TypeOK
        <4>2. \A a, b, n \in Nat : a <= b /\ n = 0 => a <= b + n
          OBVIOUS
        <4>3. Len(requests') \in Nat /\ Len(requests') = 0
          BY <3>1
        <4> QED BY <2>3, <4>1, <4>2, <4>3
      <3>3. call' = "live" => consumer' # "dropped"
        BY <2>1 DEF AsyncWriteInv, WriteInv, OwedIsAhead
      <3> QED BY <2>3, <3>1, <3>2, <3>3 DEF OwedIsAhead
    <2> QED BY <1>0, <2>1, <2>2, <2>3, <2>4, <2>5 DEF AsyncWriteInv, WriteInv, NothingQueued
  <1> QED BY <1>1, <1>2, <1>3, AsyncSteps

\* Of either flavour, what was put before anybody closed the stream goes out before the
\* half-close (send(), close()).
THEOREM AsyncClosingSendsFirst == AsyncSpec => []SentBeforeClose
  <1>1. AsyncInit => AsyncWriteInv
    BY InitWriteInv DEF AsyncInit, Init, AsyncWriteInv, NothingQueued
  <1>2. AsyncWriteInv => SentBeforeClose
    BY DEF AsyncWriteInv, WriteInv, OwedIsAhead, SentBeforeClose, TypeOK
  <1> QED BY <1>1, <1>2, AsyncStepWriteInv, PTL DEF AsyncSpec

-----------------------------------------------------------------------------
(***************************************************************************)
(* Who waits.  Once the pump is done the end is in the queue or a reader   *)
(* is about to put it back, and the write lock is held by a task that is   *)
(* inside send: nobody waits for somebody who has left.                    *)
(***************************************************************************)
EndIsThere == pump = "done" => Has(responses, "end") \/ \E r \in Readers : reader[r] = "holding"

\* Taking what is not the end leaves the end.
LEMMA EndLeft ==
    ASSUME NEW S, NEW q \in Seq(S), q # <<>>, Head(q).kind # "end", Has(q, "end")
    PROVE  Has(Tail(q), "end")
  <1>1. PICK i \in DOMAIN q : q[i].kind = "end"
    BY DEF Has
  <1>2. i - 1 \in DOMAIN Tail(q) /\ Tail(q)[i - 1] = q[i]
    BY <1>1, TailFacts
  <1> QED BY <1>1, <1>2 DEF Has

\* A step that leaves the pump, the queue and who holds the end alone.
LEMMA EndStays ==
    ASSUME EndIsThere, pump' = pump, responses' = responses,
           \A r \in Readers : reader[r] = "holding" => reader'[r] = "holding"
    PROVE  EndIsThere'
  BY DEF EndIsThere, Has

LEMMA EndIsThereKept ==
    ASSUME TypeOK, TypeOK', EndIsThere, [Next]_vars
    PROVE  EndIsThere'
  <1>0. /\ responses \in Seq(Items) /\ responses' \in Seq(Items') /\ End.kind = "end"
        /\ reader \in [Readers -> {"idle", "parked", "holding"}]
    BY DEF TypeOK, End
  <1>1. CASE Server
    BY <1>1, EndStays DEF Server, ServerSends, ServerStops, pumpVars, readVars
  <1>2. CASE PumpFrame \/ CallbackRaises \/ PumpEnds \/ PumpFails
    BY <1>2 DEF PumpFrame, CallbackRaises, PumpEnds, PumpFails, EndIsThere
  <1>3. CASE PumpFinally
    <2>1. responses' = Append(responses, End)
      BY <1>3 DEF PumpFinally
    <2>2. Has(responses', "end")
      BY <1>0, <2>1, EndsAreItems, HasAppend
    <2> QED BY <2>2 DEF EndIsThere, Has
  <1>4. ASSUME NEW r \in Readers, Read(r) \/ ReadTimesOut(r) PROVE EndIsThere'
    <2>1. \A s \in Readers : reader[s] = "holding" => reader'[s] = "holding"
      BY <1>0, <1>4 DEF Read, ReadTimesOut
    <2> QED BY <1>4, <2>1, EndStays DEF Read, ReadTimesOut, pumpVars, readVars
  <1>5. ASSUME NEW r \in Readers, ReadEnvelope(r) \/ ReadFailure(r) PROVE EndIsThere'
    <2>1. /\ reader[r] = "parked" /\ reader' = [reader EXCEPT ![r] = "idle"] /\ pump' = pump
          /\ responses # <<>> /\ Head(responses).kind # "end" /\ responses' = Tail(responses)
      BY <1>5 DEF ReadEnvelope, ReadFailure, Take, pumpVars
    <2>2. \A s \in Readers : reader[s] = "holding" => reader'[s] = "holding"
      BY <1>0, <2>1
    <2>3. Has(responses, "end") => Has(responses', "end")
      BY <1>0, <2>1, EndLeft
    <2> QED BY <2>1, <2>2, <2>3 DEF EndIsThere, Has
  <1>6. ASSUME NEW r \in Readers, ReadEnd(r) PROVE EndIsThere'
    <2>1. reader'[r] = "holding"
      BY <1>0, <1>6 DEF ReadEnd, Take, AfterEnd
    <2> QED BY <2>1 DEF EndIsThere
  <1>7. ASSUME NEW r \in Readers, PutEndBack(r) PROVE EndIsThere'
    <2>1. responses' = Append(responses, End)
      BY <1>7 DEF PutEndBack
    <2>2. Has(responses', "end")
      BY <1>0, <2>1, EndsAreItems, HasAppend
    <2> QED BY <2>2 DEF EndIsThere, Has
  <1>8. ASSUME NEW w \in Writers, WriterStep(w) PROVE EndIsThere'
    <2>1. UNCHANGED <<pumpVars, readVars, reader>>
      BY <1>8 DEF WriterStep, Finishing, Send, Close, Cancel, Called, Put, SetClosed, PutMark,
                  Abort, Writing
    <2> QED BY <2>1, EndStays DEF pumpVars, readVars
  <1>9. CASE Consumer
    BY <1>9, EndStays DEF Consumer, Transmit, HalfClose, pumpVars, readVars
  <1>10. CASE UNCHANGED vars
    BY <1>10, EndStays DEF vars, pumpVars, readVars
  <1> QED BY <1>1, <1>2, <1>3, <1>4, <1>5, <1>6, <1>7, <1>8, <1>9, <1>10
          DEF Next, Pump, ReaderStep, Reading

\* The write lock is a line of the tasks inside send, each once; a write in flight is its
\* holder's.
LockInv ==
    /\ task \in [Writers -> {"idle", "sending", "leaving"}] /\ write_lock \in Seq(Writers)
    /\ \A w \in Writers : task[w] = "sending" <=> \E i \in DOMAIN write_lock : write_lock[i] = w
    /\ \A i, j \in DOMAIN write_lock : write_lock[i] = write_lock[j] => i = j
    /\ in_flight => write_lock # <<>>

\* Somebody else's coming and going leaves the line alone.
LEMMA LockStays ==
    ASSUME LockInv, NEW w \in Writers, NEW to \in {"idle", "leaving"}, task[w] # "sending",
           task' = [task EXCEPT ![w] = to], write_lock' = write_lock, in_flight' = in_flight
    PROVE  LockInv'
  BY DEF LockInv

LEMMA LockLeft ==
    ASSUME LockInv, NEW w \in Writers, Leaves(w)
    PROVE  LockInv'
  <1>1. /\ write_lock # <<>> /\ w = Head(write_lock) /\ write_lock' = Tail(write_lock) /\ ~in_flight'
        /\ task' = [task EXCEPT ![w] = "idle"]
    BY DEF Leaves, Tasked, Released
  <1>2. write_lock \in Seq(Writers) /\ task \in [Writers -> {"idle", "sending", "leaving"}]
    BY DEF LockInv
  <1>3. /\ Tail(write_lock) \in Seq(Writers) /\ write_lock[1] = w /\ 1 \in DOMAIN write_lock
        /\ \A i \in DOMAIN Tail(write_lock) : i \in Nat /\ i >= 1 /\ i + 1 \in DOMAIN write_lock
                                                /\ Tail(write_lock)[i] = write_lock[i + 1]
        /\ \A i \in DOMAIN write_lock : i = 1 \/ (i - 1 \in DOMAIN Tail(write_lock)
                                                   /\ Tail(write_lock)[i - 1] = write_lock[i])
    BY <1>1, <1>2, TailFacts
  <1>4. task' \in [Writers -> {"idle", "sending", "leaving"}] /\ task'[w] = "idle"
        /\ \A v \in Writers : v # w => task'[v] = task[v]
    BY <1>1, <1>2
  <1>5. ASSUME NEW v \in Writers
        PROVE  task'[v] = "sending" <=> \E i \in DOMAIN write_lock' : write_lock'[i] = v
    <2>1. CASE v = w
      <3>1. ASSUME NEW i \in DOMAIN Tail(write_lock) PROVE Tail(write_lock)[i] # w
        <4>1. i + 1 # 1 /\ i + 1 \in DOMAIN write_lock /\ Tail(write_lock)[i] = write_lock[i + 1]
          BY <1>3, <3>1
        <4> QED BY <1>3, <4>1 DEF LockInv
      <3> QED BY <1>1, <1>4, <2>1, <3>1
    <2>2. CASE v # w
      <3>1. ASSUME task[v] = "sending" PROVE \E i \in DOMAIN write_lock' : write_lock'[i] = v
        <4>1. PICK i \in DOMAIN write_lock : write_lock[i] = v
          BY <3>1 DEF LockInv
        <4>2. i - 1 \in DOMAIN Tail(write_lock) /\ Tail(write_lock)[i - 1] = v
          BY <1>3, <2>2, <4>1
        <4> QED BY <1>1, <4>2
      <3>2. ASSUME NEW i \in DOMAIN write_lock', write_lock'[i] = v PROVE task[v] = "sending"
        <4>1. i + 1 \in DOMAIN write_lock /\ write_lock[i + 1] = v
          BY <1>1, <1>3, <3>2
        <4> QED BY <4>1 DEF LockInv
      <3> QED BY <1>4, <2>2, <3>1, <3>2
    <2> QED BY <2>1, <2>2
  <1>6. ASSUME NEW i \in DOMAIN write_lock', NEW j \in DOMAIN write_lock', write_lock'[i] = write_lock'[j]
        PROVE  i = j
    <2>1. /\ i \in Nat /\ j \in Nat /\ i + 1 \in DOMAIN write_lock /\ j + 1 \in DOMAIN write_lock
          /\ write_lock[i + 1] = write_lock[j + 1]
      BY <1>1, <1>3, <1>6
    <2>2. i + 1 = j + 1
      BY <2>1 DEF LockInv
    <2> QED BY <2>1, <2>2
  <1> QED BY <1>1, <1>3, <1>4, <1>5, <1>6 DEF LockInv

LEMMA LockJoined ==
    ASSUME LockInv, NEW w \in Writers, AsyncSend(w)
    PROVE  LockInv'
  <1>1. /\ task[w] = "idle" /\ task' = [task EXCEPT ![w] = "sending"]
        /\ write_lock' = Append(write_lock, w)
    BY DEF AsyncSend, TaskCalls, Tasked
  <1>2. write_lock \in Seq(Writers) /\ task \in [Writers -> {"idle", "sending", "leaving"}]
    BY DEF LockInv
  <1>3. /\ Append(write_lock, w) \in Seq(Writers)
        /\ DOMAIN Append(write_lock, w) = DOMAIN write_lock \cup {Len(write_lock) + 1}
        /\ \A i \in DOMAIN write_lock : i \in Nat /\ i < Len(write_lock) + 1
                                          /\ Append(write_lock, w)[i] = write_lock[i]
        /\ Append(write_lock, w)[Len(write_lock) + 1] = w
    BY <1>2, AppendFacts
  <1>4. ~ \E i \in DOMAIN write_lock : write_lock[i] = w
    BY <1>1 DEF LockInv
  <1>5. /\ task' \in [Writers -> {"idle", "sending", "leaving"}] /\ task'[w] = "sending"
        /\ \A v \in Writers : v # w => task'[v] = task[v]
    BY <1>1, <1>2
  <1>6. \A v \in Writers : task'[v] = "sending" <=> \E i \in DOMAIN write_lock' : write_lock'[i] = v
    BY <1>1, <1>3, <1>5 DEF LockInv
  <1>7. \A i, j \in DOMAIN write_lock' : write_lock'[i] = write_lock'[j] => i = j
    BY <1>1, <1>3, <1>4 DEF LockInv
  <1>8. write_lock' # <<>>
    BY <1>1, <1>3
  <1> QED BY <1>1, <1>3, <1>5, <1>6, <1>7, <1>8 DEF LockInv

\* What a step does to the end and to the line.
StrandedInv == EndIsThere /\ LockInv

LEMMA AsyncStranded ==
    ASSUME TypeOK, TypeOK', StrandedInv, [AsyncNext]_allVars
    PROVE  StrandedInv'
  <1>1. EndIsThere'
    <2>1. CASE [Next]_vars
      BY <2>1, EndIsThereKept DEF StrandedInv
    <2>2. CASE AsyncCallbackRaises \/ AsyncPumpEnds \/ AsyncPumpFails
      <3>1. /\ responses \in Seq(Items) /\ Failure \in Items /\ End \in Items /\ End.kind = "end"
        BY EndsAreItems DEF TypeOK, End
      <3>2. PICK q \in Seq(Items) : responses' = Append(q, End)
        <4>1. Append(responses, Failure) \in Seq(Items)
          BY <3>1, AppendFacts
        <4> QED BY <2>2, <3>1, <4>1, AsyncPumpLast
      <3>3. Has(responses', "end")
        BY <3>1, <3>2, HasAppend
      <3> QED BY <3>3 DEF EndIsThere, Has
    <2>3. ASSUME NEW r \in Readers, AsyncReadEnd(r) PROVE EndIsThere'
      <3>1. /\ responses \in Seq(Items) /\ responses # <<>> /\ responses' = Append(Tail(responses), End)
            /\ End \in Items /\ End.kind = "end"
        BY <2>3, EndsAreItems DEF AsyncReadEnd, TypeOK, End
      <3>2. Has(responses', "end")
        BY <3>1, TailFacts, HasAppend
      <3> QED BY <3>2 DEF EndIsThere, Has
    <2>4. ASSUME NEW w \in Writers, AsyncWriter(w) PROVE EndIsThere'
      BY <2>4, TaskStep, EndStays DEF StrandedInv, pumpVars, readVars
    <2> QED BY <2>1, <2>2, <2>3, <2>4, AsyncSteps DEF Loop
  <1>2. LockInv'
    <2>1. CASE UNCHANGED asyncVars
      BY <2>1 DEF asyncVars, StrandedInv, LockInv
    <2>2. ASSUME NEW w \in Writers, AsyncWriter(w) PROVE LockInv'
      <3>1. CASE AsyncSend(w)
        BY <3>1, LockJoined DEF StrandedInv
      <3>2. CASE Written(w) \/ WriteRaises(w)
        BY <3>2, LockLeft DEF Written, WriteRaises, StrandedInv
      <3>3. CASE Granted(w)
        BY <3>3 DEF Granted, Tasked, StrandedInv, LockInv
      <3>4. CASE AsyncClose(w) \/ AsyncCancel(w) \/ Exit(w) \/ Exited(w)
        <4>1. PICK to \in {"idle", "leaving"} :
                /\ task[w] # "sending" /\ task' = [task EXCEPT ![w] = to]
                /\ write_lock' = write_lock /\ in_flight' = in_flight
          BY <3>4 DEF AsyncClose, AsyncCancel, Exit, Exited, TaskCalls, Tasked, Aborts
        <4> QED BY <4>1, LockStays DEF StrandedInv
      <3> QED BY <2>2, <3>1, <3>2, <3>3, <3>4 DEF AsyncWriter, AsyncFinishing
    <2> QED BY <2>1, <2>2 DEF AsyncNext, Threads, Loop, allVars, asyncVars
  <1> QED BY <1>1, <1>2 DEF StrandedInv

\* A reader of a stream whose pump is done finds something in the queue or is about to,
\* and a task inside send is at the head of the line or stands behind one that is inside
\* send: the safety half of CallsReturn.
NobodyStranded ==
    /\ pump = "done" => responses # <<>> \/ \E r \in Readers : reader[r] = "holding"
    /\ \A w \in Writers : task[w] = "sending" =>
            write_lock # <<>> /\ task[Head(write_lock)] = "sending"

\* In both flavours nobody waits on a stream for somebody who has left it (read's handling
\* of the sentinel, _pump_responses, the write lock of send).
THEOREM NobodyIsStranded == AsyncSpec => []NobodyStranded
  <1>1. AsyncInit => StrandedInv
    <2> SUFFICES ASSUME AsyncInit PROVE StrandedInv
      OBVIOUS
    <2>1. pump = "loop" /\ task = [w \in Writers |-> "idle"] /\ write_lock = <<>> /\ ~in_flight
      BY DEF AsyncInit, Init
    <2> QED BY <2>1 DEF StrandedInv, EndIsThere, LockInv
  <1>2. TypeOK /\ StrandedInv => NobodyStranded
    <2> SUFFICES ASSUME TypeOK, StrandedInv PROVE NobodyStranded
      OBVIOUS
    <2>1. Has(responses, "end") => responses # <<>>
      BY DEF Has
    <2>2. ASSUME NEW w \in Writers, task[w] = "sending"
          PROVE  write_lock # <<>> /\ task[Head(write_lock)] = "sending"
      <3>1. write_lock \in Seq(Writers) /\ write_lock # <<>>
        BY <2>2 DEF StrandedInv, LockInv
      <3>2. Head(write_lock) \in Writers /\ 1 \in DOMAIN write_lock /\ write_lock[1] = Head(write_lock)
        BY <3>1, TailFacts
      <3> QED BY <3>1, <3>2 DEF StrandedInv, LockInv
    <2> QED BY <2>1, <2>2 DEF StrandedInv, EndIsThere, NobodyStranded
  <1> QED BY <1>1, <1>2, AsyncStreamTypes, AsyncStranded, PTL DEF AsyncSpec
=============================================================================
