--------------------------- MODULE StreamPromise ----------------------------
(***************************************************************************)
(* What the read side of an open stream promises to whoever reads it: the  *)
(* envelopes the server sent, each to one reader and none skipped, then at *)
(* most one failure, then the end, and after the end nothing but the end.  *)
(* A prefix of the envelopes is all a reader is promised.                  *)
(***************************************************************************)
EXTENDS Naturals, Sequences

CONSTANT FrameKinds    \* "envelope", and the kinds no reader sees

VARIABLES
    frames,            \* kinds of the frames the server sent, in order
    last,              \* frame of the newest envelope handed to a reader
    toldFailure,       \* has a reader been told that the call failed
    toldEnd            \* has a reader been told that the stream ended

promiseVars == <<frames, last, toldFailure, toldEnd>>

NextEnvelope(p) ==
    /\ p \in (last + 1)..Len(frames) /\ frames[p] = "envelope"
    /\ \A q \in (last + 1)..(p - 1) : frames[q] # "envelope"

Init == frames = <<>> /\ last = 0 /\ toldFailure = FALSE /\ toldEnd = FALSE

ServerSends ==
    /\ \E k \in FrameKinds : frames' = Append(frames, k)
    /\ UNCHANGED <<last, toldFailure, toldEnd>>

HandOver ==
    /\ ~toldFailure /\ ~toldEnd
    /\ NextEnvelope(last') /\ UNCHANGED <<frames, toldFailure, toldEnd>>

TellFailure ==
    /\ ~toldFailure /\ ~toldEnd /\ toldFailure' = TRUE
    /\ UNCHANGED <<frames, last, toldEnd>>

TellEnd ==
    /\ toldEnd' = TRUE
    /\ UNCHANGED <<frames, last, toldFailure>>

Next == ServerSends \/ HandOver \/ TellFailure \/ TellEnd

Spec == Init /\ [][Next]_promiseVars
=============================================================================
