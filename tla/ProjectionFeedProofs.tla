------------------------ MODULE ProjectionFeedProofs ------------------------
(***************************************************************************)
(* Proofs about ProjectionFeed, for every message set, every mode, every   *)
(* admission rule and every bound on failures.                             *)
(*                                                                         *)
(* The argument.  With distinct ids in the log, apply_envelope does one of *)
(* two things: nothing, when the id has been seen, or append the envelope, *)
(* its id and its effect together (ApplyCases); a failed apply does        *)
(* nothing (ApplyFailsIsNoop).  So seen is always the ids of the           *)
(* transcript.  Fed by the stream alone, the transcript is a prefix of the *)
(* log and the stream is never ahead of it; hence an envelope read from    *)
(* the stream is either one of the prefix, and is refused, or the next one *)
(* of the log, and is appended: the transcript stays a prefix.             *)
(*                                                                         *)
(* Replay is a recursive function, and what it computes is shown by        *)
(* induction over a set of numbers in the place of a predicate (Induction, *)
(* from the pigeonhole fact about finite sets): there is one function that *)
(* replays a transcript, so a longer transcript is one more Apply, which   *)
(* is what every step makes of the projection (TranscriptReproduces).  A   *)
(* consumer that has read all of the log has all of it in its transcript,  *)
(* so it is what the log gives (ReadIsHistory).                            *)
(***************************************************************************)
EXTENDS ProjectionFeed, FiniteSetTheorems, TLAPS

\* A projection is a record of its three parts, and its ids are distinct.
IsProj(p) ==
    /\ p = [transcript |-> p.transcript, seen |-> p.seen, view |-> p.view]
    /\ p.transcript \in Seq(Messages)

Distinct(s) == \A i, j \in DOMAIN s : s[i].id = s[j].id => i = j

Once(p) == Distinct(p.transcript) /\ p.seen = Ids(p.transcript)

\* The envelope of an ok ack is in the log before the ack is read.
AckedIsAccepted == rpc.status = "ok" => rpc.msg.id \in Ids(log)

\* The stream reads the log; its consumer counts what it read.
StreamInv ==
    /\ delivered <= Len(log)
    /\ stream # Down => stream = delivered

IInv ==
    /\ TypeOK
    /\ Distinct(log)
    /\ Once(proj)
    /\ AcceptedOnly
    /\ AckedIsAccepted
    /\ StreamInv
    /\ PrefixOfLog
    /\ CursorBehind

-----------------------------------------------------------------------------
\* What apply_envelope does to a projection: nothing, or one entry with its
\* id and its effect.
LEMMA ApplyCases ==
    ASSUME NEW p, NEW e \in Messages
    PROVE  IF e.id \in p.seen
           THEN Apply(p, e) = p
           ELSE Apply(p, e) = [transcript |-> Append(p.transcript, e),
                               seen |-> p.seen \cup {e.id},
                               view |-> Effect(p.view, e)]
  <1>1. e.mode = Mode /\ e.id # NoId
    BY MessagesAssumption
  <1>2. CASE e.id \in p.seen
    BY <1>1, <1>2 DEF Apply, Ignored, Redelivered
  <1>3. CASE e.id \notin p.seen
    <2>1. ~Ignored(p, e)
      BY <1>1, <1>3 DEF Ignored, Redelivered
    <2>2. {e.id} \ {NoId} = {e.id}
      BY <1>1
    <2> QED BY <1>3, <2>1, <2>2 DEF Apply, WithEffect, Enter
  <1> QED BY <1>2, <1>3

\* A failed apply leaves no trace: the rollback undoes the entry.
LEMMA ApplyFailsIsNoop ==
    ASSUME NEW p, NEW e \in Messages, IsProj(p)
    PROVE  ApplyFails(p, e) = p
  <1>1. e.mode = Mode /\ e.id # NoId
    BY MessagesAssumption
  <1>2. CASE e.id \in p.seen
    BY <1>1, <1>2 DEF ApplyFails, Ignored, Redelivered
  <1>3. CASE e.id \notin p.seen
    <2>1. ~Ignored(p, e)
      BY <1>1, <1>3 DEF Ignored, Redelivered
    <2>2. SubSeq(Append(p.transcript, e), 1, Len(Append(p.transcript, e)) - 1) = p.transcript
      BY DEF IsProj
    <2>3. (p.seen \cup ({e.id} \ {NoId})) \ {e.id} = p.seen
      BY <1>3
    <2>4. Rollback(Enter(p, e), e) =
            [transcript |-> p.transcript, seen |-> p.seen, view |-> p.view]
      BY <2>2, <2>3 DEF Rollback, Enter
    <2> QED BY <2>1, <2>4 DEF ApplyFails, IsProj
  <1> QED BY <1>2, <1>3

-----------------------------------------------------------------------------
\* Appending an envelope with a new id keeps ids distinct and adds its id.
LEMMA AppendIds ==
    ASSUME NEW s \in Seq(Messages), NEW m \in Messages
    PROVE  /\ Append(s, m) \in Seq(Messages)
           /\ Len(Append(s, m)) = Len(s) + 1
           /\ \A i \in DOMAIN s : Append(s, m)[i] = s[i]
           /\ Append(s, m)[Len(s) + 1] = m
           /\ Ids(Append(s, m)) = Ids(s) \cup {m.id}
           /\ Distinct(s) /\ m.id \notin Ids(s) => Distinct(Append(s, m))
  <1> DEFINE a == Append(s, m)
  <1>1. a \in Seq(Messages) /\ Len(a) = Len(s) + 1
    OBVIOUS
  <1>2. DOMAIN a = DOMAIN s \cup {Len(s) + 1} /\ Len(s) + 1 \notin DOMAIN s
    BY <1>1
  <1>3. (\A i \in DOMAIN s : a[i] = s[i]) /\ a[Len(s) + 1] = m
    OBVIOUS
  <1> HIDE DEF a
  <1>4. Ids(a) = Ids(s) \cup {m.id}
    BY <1>2, <1>3 DEF Ids
  <1>5. ASSUME Distinct(s), m.id \notin Ids(s) PROVE Distinct(a)
    BY <1>2, <1>3, <1>5 DEF Distinct, Ids
  <1> QED BY <1>1, <1>3, <1>4, <1>5 DEF a

\* One call of apply_envelope keeps the projection well formed, and afterwards
\* the transcript's ids are the old ones and the envelope's.
LEMMA ApplyKeepsOnce ==
    ASSUME NEW p, NEW e \in Messages, IsProj(p), Once(p)
    PROVE  /\ IsProj(Apply(p, e)) /\ Once(Apply(p, e))
           /\ Ids(Apply(p, e).transcript) = Ids(p.transcript) \cup {e.id}
  <1> DEFINE q == Apply(p, e)
  <1>0. p.transcript \in Seq(Messages)
    BY DEF IsProj
  <1>1. CASE e.id \in p.seen
    <2>1. q = p
      BY <1>1, ApplyCases
    <2> QED BY <1>1, <2>1 DEF Once
  <1>2. CASE e.id \notin p.seen
    <2>1. q = [transcript |-> Append(p.transcript, e), seen |-> p.seen \cup {e.id},
               view |-> Effect(p.view, e)]
      BY <1>2, ApplyCases
    <2> HIDE DEF q
    <2>2. q.transcript = Append(p.transcript, e) /\ q.seen = p.seen \cup {e.id}
      BY <2>1
    <2>3. IsProj(q)
      BY <1>0, <2>1, <2>2, AppendIds DEF IsProj
    <2>4. Once(q) /\ Ids(q.transcript) = Ids(p.transcript) \cup {e.id}
      BY <1>0, <1>2, <2>2, AppendIds DEF Once
    <2> QED BY <2>3, <2>4 DEF q
  <1> QED BY <1>1, <1>2

\* A fresh projection is one, with nothing in it (__init__).
LEMMA FreshIsOnce ==
    /\ IsProj(Fresh(InitView)) /\ Once(Fresh(InitView))
    /\ Fresh(InitView).transcript = <<>> /\ Ids(<<>>) = {}
  BY DEF Fresh, IsProj, Once, Distinct, Ids

-----------------------------------------------------------------------------
\* The feeds start in the invariant.
LEMMA InitInv == Init => IInv
  <1> SUFFICES ASSUME Init PROVE IInv
    OBVIOUS
  <1> USE FeedAssumption DEF Init
  <1>1. IsProj(proj) /\ Once(proj) /\ proj.transcript = <<>>
    BY FreshIsOnce
  <1>2. TypeOK
    BY <1>1 DEF TypeOK, IsProj, Idle, Down
  <1>3. Distinct(log) /\ AcceptedOnly /\ PrefixOfLog
    BY <1>1 DEF Distinct, AcceptedOnly, PrefixOfLog
  <1>4. AckedIsAccepted /\ StreamInv /\ CursorBehind
    BY <1>1 DEF AckedIsAccepted, StreamInv, CursorBehind, Idle, Down
  <1> QED BY <1>1, <1>2, <1>3, <1>4 DEF IInv

\* What a step may do to the log keeps the parts of the invariant about it.
LEMMA LogStep ==
    ASSUME IInv, NEW m \in Messages, Admits(m), log' = Append(log, m),
           proj' = proj, stream' = stream, delivered' = delivered
    PROVE  /\ log' \in Seq(Messages) /\ Distinct(log')
           /\ Ids(log') = Ids(log) \cup {m.id}
           /\ AcceptedOnly' /\ StreamInv' /\ PrefixOfLog' /\ CursorBehind'
  <1> USE DEF IInv
  <1>1. log \in Seq(Messages) /\ m.id \notin Ids(log)
    BY DEF TypeOK, Admits
  <1>2. /\ log' \in Seq(Messages) /\ Distinct(log') /\ Ids(log') = Ids(log) \cup {m.id}
        /\ Len(log') = Len(log) + 1
        /\ \A i \in DOMAIN log : log'[i] = log[i]
    BY <1>1, AppendIds
  <1>3. AcceptedOnly'
    BY <1>2 DEF AcceptedOnly
  <1>4. StreamInv' /\ CursorBehind'
    BY <1>1, <1>2 DEF StreamInv, CursorBehind, TypeOK
  <1>5. PrefixOfLog'
    <2>1. proj.transcript \in Seq(Messages)
      BY DEF TypeOK
    <2> QED BY <1>1, <1>2, <2>1 DEF PrefixOfLog
  <1> QED BY <1>2, <1>3, <1>4, <1>5

\* Applying an accepted envelope keeps the parts about the projection.
LEMMA ApplyStep ==
    ASSUME IInv, NEW e \in Messages, e.id \in Ids(log),
           log' = log, proj' = Apply(proj, e)
    PROVE  IsProj(proj') /\ Once(proj') /\ AcceptedOnly'
  <1>1. IsProj(proj) /\ Once(proj)
    BY DEF IInv, TypeOK, IsProj
  <1>2. /\ IsProj(proj') /\ Once(proj')
        /\ Ids(proj'.transcript) = Ids(proj.transcript) \cup {e.id}
    BY <1>1, ApplyKeepsOnce
  <1>3. Ids(proj.transcript) \subseteq Ids(log)
    BY DEF IInv, AcceptedOnly, Ids
  <1>4. AcceptedOnly'
    <2> SUFFICES ASSUME NEW i \in DOMAIN proj'.transcript
                 PROVE  proj'.transcript[i].id \in Ids(log')
      BY DEF AcceptedOnly
    <2>1. proj'.transcript[i].id \in Ids(proj'.transcript)
      BY DEF Ids
    <2>2. Ids(log') = Ids(log)
      BY DEF Ids
    <2> QED BY <1>2, <1>3, <2>1, <2>2
  <1> QED BY <1>2, <1>4

\* Fed by the stream alone, the next envelope of the stream either was applied
\* before or is the next one of the log.
LEMMA NextIsNew ==
    ASSUME IInv, ~TrackAcks, Readable, NEW e, e = log[stream + 1]
    PROVE  /\ e \in Messages /\ e.id \in Ids(log)
           /\ stream + 1 \in 1..Len(log) /\ stream = delivered
           /\ \/ e.id \in proj.seen /\ stream + 1 <= Len(proj.transcript)
              \/ e.id \notin proj.seen /\ stream = Len(proj.transcript)
  <1> DEFINE t == proj.transcript
             n == stream + 1
  <1>1. /\ log \in Seq(Messages) /\ t \in Seq(Messages) /\ Distinct(log)
        /\ proj.seen = Ids(t) /\ Len(t) <= Len(log)
        /\ \A i \in DOMAIN t : t[i] = log[i]
        /\ delivered \in Nat /\ delivered <= Len(t)
    BY DEF IInv, TypeOK, Once, PrefixOfLog, CursorBehind
  <1>2. stream = delivered /\ n \in 1..Len(log)
    BY <1>1 DEF IInv, StreamInv, Readable
  <1>3. e \in Messages /\ e.id \in Ids(log)
    BY <1>1, <1>2 DEF Ids
  <1> HIDE DEF t
  <1>4. CASE n <= Len(t)
    <2>1. n \in DOMAIN t /\ t[n] = e
      BY <1>1, <1>2, <1>4
    <2> QED BY <1>1, <1>2, <1>3, <1>4, <2>1 DEF Ids, t
  <1>5. CASE n > Len(t)
    <2>1. stream = Len(t)
      BY <1>1, <1>2, <1>5
    <2>2. ASSUME NEW i \in DOMAIN t, t[i].id = e.id PROVE FALSE
      <3>1. i \in DOMAIN log /\ n \in DOMAIN log /\ log[i].id = log[n].id /\ i # n
        BY <1>1, <1>2, <1>5, <2>2
      <3> QED BY <1>1, <3>1 DEF Distinct
    <2>3. e.id \notin proj.seen
      BY <1>1, <2>2 DEF Ids
    <2> QED BY <1>2, <1>3, <2>1, <2>3 DEF t
  <1> QED BY <1>1, <1>2, <1>4, <1>5

-----------------------------------------------------------------------------
\* The invariant is inductive: one step per action.
LEMMA StepInv == IInv /\ [Next]_vars => IInv'
  <1> SUFFICES ASSUME IInv, [Next]_vars PROVE IInv'
    OBVIOUS
  <1> USE FeedAssumption
  <1>0. /\ log \in Seq(Messages) /\ stream \in Nat \cup {Down} /\ delivered \in Nat
        /\ sent \subseteq Messages /\ net \subseteq sent
        /\ rpc \in {Idle} \cup [status : Acks, msg : Messages]
        /\ failures \in 0..MaxFailures
        /\ IsProj(proj) /\ Once(proj) /\ proj.transcript \in Seq(Messages)
    BY DEF IInv, TypeOK, IsProj
  <1>1. ASSUME NEW m \in Messages, PeerSend(m) PROVE IInv'
    <2>1. /\ log' \in Seq(Messages) /\ Distinct(log') /\ Ids(log') = Ids(log) \cup {m.id}
          /\ AcceptedOnly' /\ StreamInv' /\ PrefixOfLog' /\ CursorBehind'
      BY <1>1, LogStep DEF PeerSend
    <2>2. TypeOK' /\ Once(proj')
      BY <1>1, <2>1 DEF PeerSend, IInv, TypeOK
    <2>3. AckedIsAccepted'
      BY <1>1, <2>1 DEF PeerSend, IInv, AckedIsAccepted
    <2> QED BY <2>1, <2>2, <2>3 DEF IInv
  <1>2. ASSUME NEW m \in Messages, RuntimeReceive(m) PROVE IInv'
    <2>1. /\ log' \in Seq(Messages) /\ Distinct(log') /\ Ids(log) \subseteq Ids(log')
          /\ Admits(m) => m.id \in Ids(log')
          /\ AcceptedOnly' /\ StreamInv' /\ PrefixOfLog' /\ CursorBehind'
      <3>1. CASE Admits(m)
        BY <1>2, <3>1, LogStep DEF RuntimeReceive
      <3>2. CASE ~Admits(m)
        BY <1>2, <3>2 DEF RuntimeReceive, IInv, TypeOK, AcceptedOnly, StreamInv,
           PrefixOfLog, CursorBehind
      <3> QED BY <3>1, <3>2
    <2>2. rpc' \in {Idle} \cup [status : Acks, msg : Messages]
      BY <1>0, <1>2 DEF RuntimeReceive, AtLoop, Acks
    <2>3. TypeOK' /\ Once(proj')
      BY <1>0, <1>2, <2>1, <2>2 DEF RuntimeReceive, IInv, TypeOK
    <2>4. AckedIsAccepted'
      BY <1>0, <1>2, <2>1 DEF RuntimeReceive, IInv, AckedIsAccepted, AtLoop, Acks
    <2> QED BY <2>1, <2>3, <2>4 DEF IInv
  <1>3. ASSUME NEW m \in Messages, SessionSend(m) PROVE IInv'
    <2>1. rpc' \in [status : Acks, msg : Messages] /\ rpc'.status # "ok"
      BY <1>3 DEF SessionSend, Acks
    <2> QED BY <1>0, <1>3, <2>1 DEF SessionSend, IInv, TypeOK, AcceptedOnly,
          AckedIsAccepted, StreamInv, PrefixOfLog, CursorBehind
  <1>4. CASE AckReturns
    <2>1. rpc.msg \in Messages /\ log' = log
      BY <1>0, <1>4 DEF AckReturns, Idle
    <2>2. CASE proj' = proj
      BY <1>0, <1>4, <2>1, <2>2 DEF AckReturns, IInv, TypeOK, AcceptedOnly, Idle,
         AckedIsAccepted, StreamInv, PrefixOfLog, CursorBehind
    <2>3. CASE TrackAcks /\ rpc.status = "ok" /\ proj' = Apply(proj, rpc.msg)
      <3>1. IsProj(proj') /\ Once(proj') /\ AcceptedOnly'
        BY <2>1, <2>3, ApplyStep DEF IInv, AckedIsAccepted
      <3>2. TypeOK'
        BY <1>0, <1>4, <2>1, <3>1 DEF AckReturns, IsProj, TypeOK
      <3>3. AckedIsAccepted' /\ StreamInv' /\ PrefixOfLog' /\ CursorBehind' /\ Distinct(log')
        BY <1>4, <2>1, <2>3 DEF AckReturns, IInv, Idle, AckedIsAccepted, StreamInv,
           PrefixOfLog, CursorBehind
      <3> QED BY <3>1, <3>2, <3>3 DEF IInv
    <2> QED BY <1>4, <2>2, <2>3 DEF AckReturns, TrackAck
  <1>5. CASE RpcFails
    BY <1>0, <1>5 DEF RpcFails, Fail, IInv, TypeOK, AcceptedOnly, Idle,
       AckedIsAccepted, StreamInv, PrefixOfLog, CursorBehind
  <1>6. CASE Subscribe
    BY <1>0, <1>6 DEF Subscribe, ResumeFrom, IInv, TypeOK, AcceptedOnly, Down,
       AckedIsAccepted, StreamInv, PrefixOfLog, CursorBehind
  <1>7. ASSUME Readable, proj' = Apply(proj, log[stream + 1]), log' = log,
               delivered' \in {delivered, delivered + 1},
               delivered' = delivered + 1 => stream' = stream + 1,
               delivered' = delivered => stream' = Down,
               UNCHANGED <<sent, net, rpc>>, failures' \in 0..MaxFailures
        PROVE  IInv'
    <2> DEFINE e == log[stream + 1]
    <2>1. /\ stream \in Nat /\ stream = delivered /\ stream + 1 \in 1..Len(log)
          /\ e \in Messages /\ e.id \in Ids(log)
      BY <1>0, <1>7 DEF Readable, Down, IInv, StreamInv, Ids
    <2>2. IsProj(proj') /\ Once(proj') /\ AcceptedOnly'
      BY <1>7, <2>1, ApplyStep
    <2>3. TypeOK'
      BY <1>0, <1>7, <2>1, <2>2 DEF IsProj, TypeOK, Down
    <2>4. Distinct(log') /\ AckedIsAccepted'
      BY <1>7 DEF IInv, AckedIsAccepted
    <2>5. StreamInv'
      BY <1>7, <2>1 DEF StreamInv
    <2>6. ASSUME ~TrackAcks
          PROVE  /\ Len(proj'.transcript) <= Len(log)
                 /\ \A i \in DOMAIN proj'.transcript : proj'.transcript[i] = log[i]
                 /\ stream + 1 <= Len(proj'.transcript)
      <3> HIDE DEF e
      <3>1. /\ Len(proj.transcript) <= Len(log)
            /\ \A i \in DOMAIN proj.transcript : proj.transcript[i] = log[i]
        BY <2>6 DEF IInv, PrefixOfLog
      <3>2. CASE e.id \in proj.seen /\ stream + 1 <= Len(proj.transcript)
        <4>1. proj' = proj
          BY <1>7, <2>1, <3>2, ApplyCases DEF e
        <4> QED BY <3>1, <3>2, <4>1
      <3>3. CASE e.id \notin proj.seen /\ stream = Len(proj.transcript)
        <4>1. proj'.transcript = Append(proj.transcript, e)
          BY <1>7, <2>1, <3>3, ApplyCases DEF e
        <4> QED BY <1>0, <2>1, <3>1, <3>3, <4>1 DEF e
      <3> QED BY <1>7, <2>6, <3>2, <3>3, NextIsNew DEF e
    <2>7. PrefixOfLog' /\ CursorBehind'
      BY <1>7, <2>1, <2>6 DEF PrefixOfLog, CursorBehind
    <2> QED BY <2>2, <2>3, <2>4, <2>5, <2>7 DEF IInv
  <1>8. CASE Deliver
    BY <1>0, <1>7, <1>8 DEF Deliver
  <1>9. CASE DeliverUncounted
    BY <1>0, <1>7, <1>9 DEF DeliverUncounted, Fail
  <1>10. CASE DeliverRaises
    <2>1. log[stream + 1] \in Messages
      BY <1>0, <1>10 DEF DeliverRaises, Readable, Down, IInv, StreamInv
    <2>2. proj' = proj
      BY <1>0, <1>10, <2>1, ApplyFailsIsNoop DEF DeliverRaises
    <2> QED BY <1>0, <1>10, <2>2 DEF DeliverRaises, Fail, IInv, TypeOK, AcceptedOnly,
          AckedIsAccepted, StreamInv, PrefixOfLog, CursorBehind
  <1>11. CASE StreamBreaks
    BY <1>0, <1>11 DEF StreamBreaks, Fail, IInv, TypeOK, AcceptedOnly,
       AckedIsAccepted, StreamInv, PrefixOfLog, CursorBehind
  <1>12. CASE Restart
    <2>1. IsProj(proj') /\ Once(proj') /\ proj'.transcript = <<>> /\ log' = log
      BY <1>12, FreshIsOnce DEF Restart
    <2>2. TypeOK'
      BY <1>0, <1>12, <2>1 DEF Restart, Fail, TypeOK, IsProj
    <2> QED BY <1>0, <1>12, <2>1, <2>2 DEF Restart, IInv, AcceptedOnly, Idle, Down,
          AckedIsAccepted, StreamInv, PrefixOfLog, CursorBehind
  <1>13. CASE UNCHANGED vars
    BY <1>13 DEF vars, IInv, TypeOK, AcceptedOnly,
       AckedIsAccepted, StreamInv, PrefixOfLog, CursorBehind
  <1> QED BY <1>1, <1>2, <1>3, <1>4, <1>5, <1>6, <1>8, <1>9, <1>10, <1>11, <1>12, <1>13
          DEF Next, Runtime, Session, Stream

-----------------------------------------------------------------------------
\* Induction on the natural numbers, for a set instead of a predicate: were n the
\* first missing, k + 1 would take 0..n's members to those without 0, of which there
\* are fewer.
LEMMA Induction ==
    ASSUME NEW S, 0 \in S, \A k \in Nat : k \in S => k + 1 \in S
    PROVE  Nat \subseteq S
  <1> SUFFICES ASSUME NEW n \in Nat, n \notin S PROVE FALSE
    OBVIOUS
  <1> DEFINE K == {k \in 0..n : k \in S}
             f == [k \in K |-> k + 1]
  <1>1. IsFiniteSet(K)
    <2>1. IsFiniteSet(0..n) /\ K \in SUBSET (0..n)
      BY FS_Interval
    <2> HIDE DEF K
    <2> QED BY <2>1, FS_Subset
  <1>2. 0 \in K /\ Cardinality(K) \in Nat
    BY <1>1, FS_CardinalityType
  <1>3. IsFiniteSet(K \ {0}) /\ Cardinality(K \ {0}) < Cardinality(K)
    <2> HIDE DEF K
    <2>1. IsFiniteSet(K \ {0}) /\ Cardinality(K \ {0}) = Cardinality(K) - 1
      BY <1>1, <1>2, FS_RemoveElement
    <2> QED BY <1>2, <2>1
  <1>4. f \in [K -> K \ {0}]
    <2>1. ASSUME NEW k \in K PROVE k + 1 \in K \ {0}
      OBVIOUS
    <2> QED BY <2>1
  <1>5. PICK x, y \in K : x # y /\ f[x] = f[y]
    <2> HIDE DEF K, f
    <2> QED BY <1>1, <1>3, <1>4, FS_PigeonHole
  <1> QED BY <1>5

\* f holds what the first k envelopes of t leave of p, one by one.
Replays(f, p, t, k) == f = [n \in 0..k |-> IF n = 0 THEN p ELSE Apply(f[n - 1], t[n])]

\* A replay extends by one envelope, whatever comes after the ones it took.
LEMMA ReplayOneMore ==
    ASSUME NEW p, NEW t, NEW u, NEW k \in Nat, NEW f, Replays(f, p, t, k),
           \A i \in 1..k : u[i] = t[i]
    PROVE  \E g : Replays(g, p, u, k + 1) /\ g[k + 1] = Apply(f[k], u[k + 1])
  <1> DEFINE g == [n \in 0..k + 1 |-> IF n = k + 1 THEN Apply(f[k], u[k + 1]) ELSE f[n]]
  <1>1. g[k + 1] = Apply(f[k], u[k + 1]) /\ \A n \in 0..k : g[n] = f[n]
    OBVIOUS
  <1>2. \A n \in 0..k : f[n] = IF n = 0 THEN p ELSE Apply(f[n - 1], t[n])
    BY DEF Replays
  <1>3. ASSUME NEW n \in 0..k + 1
        PROVE  g[n] = IF n = 0 THEN p ELSE Apply(g[n - 1], u[n])
    <2>1. CASE n = k + 1
      <3>1. n # 0 /\ n - 1 = k /\ k \in 0..k
        BY <2>1
      <3> HIDE DEF g
      <3> QED BY <1>1, <2>1, <3>1
    <2>2. CASE n = 0
      <3>1. n \in 0..k
        BY <2>2
      <3> HIDE DEF g
      <3> QED BY <1>1, <1>2, <2>2, <3>1
    <2>3. CASE n \in 1..k
      <3>1. n \in 0..k /\ n - 1 \in 0..k /\ n # 0
        BY <2>3
      <3> HIDE DEF g
      <3> QED BY <1>1, <1>2, <2>3, <3>1
    <2> QED BY <2>1, <2>2, <2>3
  <1>4. Replays(g, p, u, k + 1)
    <2>1. g = [n \in 0..k + 1 |-> g[n]]
      OBVIOUS
    <2> HIDE DEF g
    <2>2. [n \in 0..k + 1 |-> g[n]] = [n \in 0..k + 1 |-> IF n = 0 THEN p ELSE Apply(g[n - 1], u[n])]
      BY <1>3
    <2> QED BY <2>1, <2>2 DEF Replays
  <1> QED BY <1>1, <1>4

\* Any sequence can be replayed, one envelope after the other.
LEMMA ReplayExists ==
    ASSUME NEW p, NEW t, NEW k \in Nat
    PROVE  \E f : Replays(f, p, t, k)
  <1> DEFINE S == {n \in Nat : \E f : Replays(f, p, t, n)}
  <1>1. 0 \in S
    <2>1. PICK f : f = [n \in 0..0 |-> p]
      OBVIOUS
    <2>2. f = [n \in 0..0 |-> IF n = 0 THEN p ELSE Apply(f[n - 1], t[n])]
      BY <2>1
    <2> QED BY <2>2 DEF Replays
  <1>2. ASSUME NEW n \in Nat, n \in S PROVE n + 1 \in S
    <2>1. PICK f : Replays(f, p, t, n)
      BY <1>2
    <2> QED BY <2>1, ReplayOneMore
  <1> HIDE DEF S
  <1>3. Nat \subseteq S
    BY <1>1, <1>2, Induction
  <1> QED BY <1>3 DEF S

\* And in one way only.
LEMMA ReplayUnique ==
    ASSUME NEW p, NEW t, NEW k \in Nat, NEW f, Replays(f, p, t, k), NEW g, Replays(g, p, t, k)
    PROVE  f = g
  <1> DEFINE S == {n \in Nat : n <= k => f[n] = g[n]}
  <1>0. /\ \A n \in 0..k : f[n] = IF n = 0 THEN p ELSE Apply(f[n - 1], t[n])
        /\ \A n \in 0..k : g[n] = IF n = 0 THEN p ELSE Apply(g[n - 1], t[n])
    BY DEF Replays
  <1>1. 0 \in S
    BY <1>0
  <1>2. ASSUME NEW n \in Nat, n \in S PROVE n + 1 \in S
    <2> SUFFICES ASSUME n + 1 <= k PROVE f[n + 1] = g[n + 1]
      OBVIOUS
    <2>1. n + 1 \in 0..k /\ n + 1 # 0 /\ (n + 1) - 1 = n /\ f[n] = g[n]
      BY <1>2
    <2> QED BY <1>0, <2>1
  <1>3. Nat \subseteq S
    <2> HIDE DEF S
    <2> QED BY <1>1, <1>2, Induction
  <1>4. \A n \in 0..k : f[n] = g[n]
    BY <1>3
  <1>5. f = [n \in 0..k |-> f[n]] /\ g = [n \in 0..k |-> g[n]]
    BY DEF Replays
  <1> QED BY <1>4, <1>5

\* The recursive function of Replay is the one that replays the sequence.
LEMMA ReplayIs ==
    ASSUME NEW p, NEW t, Len(t) \in Nat, NEW f, Replays(f, p, t, Len(t))
    PROVE  Replay(p, t) = f[Len(t)]
  <1>1. PICK g : g = (CHOOSE h : Replays(h, p, t, Len(t)))
    OBVIOUS
  <1>2. Replay(p, t) = g[Len(t)]
    BY <1>1 DEF Replay, Replays
  <1>3. Replays(g, p, t, Len(t))
    BY <1>1
  <1> QED BY <1>2, <1>3, ReplayUnique

\* Replaying nothing changes nothing.
LEMMA ReplayNothing ==
    ASSUME NEW p PROVE Replay(p, <<>>) = p
  <1>1. PICK f : Replays(f, p, <<>>, 0)
    BY ReplayExists
  <1>2. f[0] = p
    BY <1>1 DEF Replays
  <1>3. Len(<<>>) = 0 /\ 0 \in Nat
    OBVIOUS
  <1> QED BY <1>1, <1>2, <1>3, ReplayIs

\* One envelope more is one apply more.
LEMMA ReplayAppend ==
    ASSUME NEW p, NEW t, Len(t) \in Nat, NEW u, NEW e, Len(u) = Len(t) + 1, u[Len(t) + 1] = e,
           \A i \in 1..Len(t) : u[i] = t[i]
    PROVE  Replay(p, u) = Apply(Replay(p, t), e)
  <1>1. PICK f : Replays(f, p, t, Len(t))
    BY ReplayExists
  <1>2. PICK g : Replays(g, p, u, Len(t) + 1) /\ g[Len(t) + 1] = Apply(f[Len(t)], u[Len(t) + 1])
    BY <1>1, ReplayOneMore
  <1>3. Replay(p, t) = f[Len(t)]
    BY <1>1, ReplayIs
  <1>4. Replay(p, u) = g[Len(u)]
    BY <1>2, ReplayIs
  <1> QED BY <1>2, <1>3, <1>4

-----------------------------------------------------------------------------
\* The inductive invariant holds of every behaviour of the feeds.
THEOREM Invariance == Spec => []IInv
  <1>1. Init => IInv
    BY InitInv
  <1>2. IInv /\ [Next]_vars => IInv'
    BY StepInv
  <1> QED BY <1>1, <1>2, PTL DEF Spec

\* Every variable keeps its type (the feeds of a projection).
THEOREM TypeCorrect == Spec => []TypeOK
  <1>1. IInv => TypeOK
    BY DEF IInv
  <1> QED BY <1>1, Invariance, PTL

\* Whichever feeds are in use, a projection holds accepted envelopes only.
THEOREM OnlyAccepted == Spec => []AcceptedOnly
  <1>1. IInv => AcceptedOnly
    BY DEF IInv
  <1> QED BY <1>1, Invariance, PTL

\* Whichever feeds are in use, no envelope is applied twice, and no id is
\* refused whose envelope is not in the transcript (dedup gate and rollback).
THEOREM AppliedOnce == Spec => []EachOnce
  <1>1. IInv => EachOnce
    BY DEF IInv, Once, Distinct, EachOnce
  <1> QED BY <1>1, Invariance, PTL

\* Fed by the stream alone, the transcript is a prefix of accepted history.
THEOREM StreamIsPrefix == Spec => []PrefixOfLog
  <1>1. IInv => PrefixOfLog
    BY DEF IInv
  <1> QED BY <1>1, Invariance, PTL

\* The resume cursor never overtakes what took effect (no gap on a resubscribe).
THEOREM NoGap == Spec => []CursorBehind
  <1>1. IInv => CursorBehind
    BY DEF IInv
  <1> QED BY <1>1, Invariance, PTL

\* Fed by the stream alone, a projection implements the exactly-once reading of
\* accepted history: resubscribes, redeliveries, failed applies and broken
\* streams are invisible, a restart forgets everything.
THEOREM ExactlyOnce == ASSUME ~TrackAcks PROVE Spec => HistorySpec
  <1> USE DEF History!avars
  <1>1. Init => History!Init
    BY DEF Init, History!Init, Fresh
  <1>2. IInv /\ [Next]_vars => [History!Next]_(History!avars)
    <2> SUFFICES ASSUME IInv, [Next]_vars PROVE [History!Next]_(History!avars)
      OBVIOUS
    <2>0. log \in Seq(Messages) /\ proj.transcript \in Seq(Messages) /\ IsProj(proj)
      BY DEF IInv, TypeOK, IsProj
    <2>1. CASE log' = log /\ proj' = proj
      BY <2>1
    <2>2. ASSUME NEW m \in Messages, log' = Append(log, m), proj' = proj
          PROVE  History!Accept
      BY <2>2 DEF History!Accept
    <2>3. ASSUME NEW e, Readable, e = log[stream + 1], proj' = Apply(proj, e), log' = log
          PROVE  proj' = proj \/ History!ApplyNext
      <3>1. CASE e.id \in proj.seen
        BY <2>3, <3>1, NextIsNew, ApplyCases
      <3>2. CASE e.id \notin proj.seen /\ stream = Len(proj.transcript)
        <4>1. /\ proj'.transcript = Append(proj.transcript, e)
              /\ proj'.view = Effect(proj.view, e)
          BY <2>3, <3>2, NextIsNew, ApplyCases
        <4>2. Len(proj.transcript) < Len(log)
          BY <2>0, <2>3, <3>2 DEF Readable
        <4> QED BY <2>0, <2>3, <3>2, <4>1, <4>2 DEF History!ApplyNext
      <3> QED BY <2>3, <3>1, <3>2, NextIsNew
    <2>4. ASSUME proj' = Fresh(InitView), log' = log
          PROVE  History!Forget
      BY <2>4 DEF History!Forget, Fresh
    <2>5. ASSUME Readable PROVE log[stream + 1] \in Messages
      BY <2>5, NextIsNew
    <2>6. CASE Runtime
      <3>1. PICK m \in Messages : PeerSend(m) \/ RuntimeReceive(m)
        BY <2>6 DEF Runtime
      <3>2. \/ log' = Append(log, m) /\ proj' = proj
            \/ log' = log /\ proj' = proj
        BY <3>1 DEF PeerSend, RuntimeReceive
      <3> QED BY <2>1, <2>2, <3>2 DEF History!Next
    <2>7. CASE Session
      BY <2>1, <2>7 DEF Session, SessionSend, AckReturns, RpcFails
    <2>8. CASE Subscribe \/ StreamBreaks
      BY <2>1, <2>8 DEF Subscribe, StreamBreaks
    <2>9. CASE Deliver \/ DeliverUncounted
      BY <2>1, <2>3, <2>9 DEF Deliver, DeliverUncounted, History!Next
    <2>10. CASE DeliverRaises
      BY <2>0, <2>1, <2>5, <2>10, ApplyFailsIsNoop DEF DeliverRaises
    <2>11. CASE Restart
      BY <2>4, <2>11 DEF Restart, History!Next
    <2>12. CASE UNCHANGED vars
      BY <2>1, <2>12 DEF vars
    <2> QED BY <2>6, <2>7, <2>8, <2>9, <2>10, <2>11, <2>12 DEF Next, Stream
  <1> QED BY <1>1, <1>2, Invariance, PTL DEF Spec, HistorySpec, History!Spec

-----------------------------------------------------------------------------
\* What a step does to the projection: nothing, one apply, or a fresh start.
LEMMA ProjectionSteps ==
    ASSUME IInv, [Next]_vars
    PROVE  \/ proj' = proj
           \/ proj' = Fresh(InitView)
           \/ \E e \in Messages : proj' = Apply(proj, e)
  <1>0. IsProj(proj) /\ rpc \in {Idle} \cup [status : Acks, msg : Messages]
    BY DEF IInv, TypeOK, IsProj
  <1>1. Readable => log[stream + 1] \in Messages
    BY DEF Readable, IInv, TypeOK, Down
  <1>2. CASE AckReturns
    <2>1. rpc.msg \in Messages
      BY <1>0, <1>2 DEF AckReturns, Idle
    <2> QED BY <1>2, <2>1 DEF AckReturns, TrackAck
  <1>3. CASE Deliver \/ DeliverUncounted
    BY <1>1, <1>3 DEF Deliver, DeliverUncounted
  <1>4. CASE DeliverRaises
    BY <1>0, <1>1, <1>4, ApplyFailsIsNoop DEF DeliverRaises
  <1>5. CASE Restart
    BY <1>5 DEF Restart
  <1>6. CASE Runtime \/ (\E m \in Messages : SessionSend(m)) \/ RpcFails \/ Subscribe \/ StreamBreaks
             \/ UNCHANGED vars
    BY <1>6 DEF Runtime, PeerSend, RuntimeReceive, SessionSend, RpcFails, Subscribe, StreamBreaks, vars
  <1> QED BY <1>2, <1>3, <1>4, <1>5, <1>6 DEF Next, Session, Stream

\* Whatever feeds are in use, and in whatever order they deliver, redeliver, fail and
\* restart, the projection is what its transcript replayed through a fresh one gives
\* (apply_envelope: determinism).
THEOREM TranscriptReproduces == Spec => []ReplayReproduces
  <1>1. Init => ReplayReproduces
    BY ReplayNothing DEF Init, ReplayReproduces, Fresh
  <1>2. IInv /\ ReplayReproduces /\ [Next]_vars => ReplayReproduces'
    <2> SUFFICES ASSUME IInv, ReplayReproduces, [Next]_vars PROVE ReplayReproduces'
      OBVIOUS
    <2>0. IsProj(proj)
      BY DEF IInv, TypeOK, IsProj
    <2>1. CASE proj' = proj
      BY <2>1 DEF ReplayReproduces
    <2>2. CASE proj' = Fresh(InitView)
      BY <2>2, ReplayNothing DEF ReplayReproduces, Fresh
    <2>3. ASSUME NEW e \in Messages, proj' = Apply(proj, e) PROVE ReplayReproduces'
      <3>1. CASE e.id \in proj.seen
        BY <2>1, <2>3, <3>1, ApplyCases
      <3>2. CASE e.id \notin proj.seen
        <4>1. proj'.transcript = Append(proj.transcript, e)
          BY <2>3, <3>2, ApplyCases
        <4>2. Replay(Fresh(InitView), proj'.transcript) = Apply(Replay(Fresh(InitView), proj.transcript), e)
          <5>1. PICK t : t = proj.transcript
            OBVIOUS
          <5>2. PICK u : u = proj'.transcript
            OBVIOUS
          <5>3. Len(t) \in Nat /\ Len(u) = Len(t) + 1 /\ u[Len(t) + 1] = e /\ \A i \in 1..Len(t) : u[i] = t[i]
            BY <2>0, <4>1, <5>1, <5>2, AppendIds DEF IsProj
          <5> QED BY <5>1, <5>2, <5>3, ReplayAppend
        <4> QED BY <2>3, <4>2 DEF ReplayReproduces
      <3> QED BY <3>1, <3>2
    <2> QED BY <2>1, <2>2, <2>3, ProjectionSteps
  <1> QED BY <1>1, <1>2, Invariance, PTL DEF Spec

\* Fed by the stream alone, a consumer that has read all the runtime accepted so far
\* has the projection that history gives, whatever it resubscribed through on the way:
\* the state CatchesUp says it comes to.
THEOREM ReadIsHistory ==
    ASSUME ~TrackAcks
    PROVE  Spec => [](stream = Len(log) => proj = Replay(Fresh(InitView), log))
  <1>1. IInv /\ ReplayReproduces => (stream = Len(log) => proj = Replay(Fresh(InitView), log))
    <2> SUFFICES ASSUME IInv, ReplayReproduces, stream = Len(log)
                 PROVE  proj = Replay(Fresh(InitView), log)
      OBVIOUS
    <2> DEFINE t == proj.transcript
    <2>1. /\ log \in Seq(Messages) /\ t \in Seq(Messages) /\ delivered <= Len(t)
          /\ Len(t) <= Len(log) /\ \A i \in DOMAIN t : t[i] = log[i]
      BY DEF IInv, TypeOK, PrefixOfLog, CursorBehind
    <2>2. stream = delivered
      BY <2>1 DEF IInv, StreamInv, Down
    <2> HIDE DEF t
    <2>3. Len(t) = Len(log)
      BY <2>1, <2>2 DEF IInv, TypeOK
    <2>4. t = log
      BY <2>1, <2>3
    <2> QED BY <2>4 DEF ReplayReproduces, t
  <1> QED BY <1>1, Invariance, TranscriptReproduces, PTL
=============================================================================
