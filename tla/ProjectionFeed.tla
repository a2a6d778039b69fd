--------------------------- MODULE ProjectionFeed ---------------------------
(***************************************************************************)
(* One client process and the two feeds of its projection.                 *)
(*                                                                         *)
(* Stream: a subscribe stream replays the runtime's accepted history from  *)
(* after_sequence on.  It can break at any point; the consumer then        *)
(* subscribes again, from its resume cursor (the same adapter) or from 0   *)
(* (a new one), so delivery is at least once.                              *)
(* Session: BaseSession._send_and_track sends an envelope, blocks in the   *)
(* RPC and, when TrackAcks, applies the envelope itself once the ack is ok.*)
(*                                                                         *)
(* A Participant has only the first feed (TrackAcks = FALSE); a session    *)
(* whose projection is also fed its stream has both.  One thread owns the  *)
(* projection (apply_envelope is not thread-safe), so nothing is read from *)
(* the stream while an RPC blocks.  The runtime is external: it accepts    *)
(* what Admissible allows, from this process and from its peers.           *)
(***************************************************************************)
EXTENDS BaseProjection, FiniteSets

CONSTANTS
    Messages,          \* every envelope of the instance, each with its own id
    Me,                \* the sender this process sends as
    InitView,          \* the view __init__ sets up
    Admissible(_, _),  \* Admissible(log, m): a conforming runtime accepts m
    TrackAcks,         \* is the session's own feed in use
    MaxFailures        \* bound on broken streams, RPCs, applies and restarts

ASSUME MessagesAssumption ==
    /\ \A m \in Messages : m.mode = Mode /\ m.id # NoId
    /\ \A m, n \in Messages : m.id = n.id => m = n

ASSUME FeedAssumption == TrackAcks \in BOOLEAN /\ MaxFailures \in Nat

VARIABLES
    log,               \* accepted history of the session, at the runtime
    proj,              \* the projection
    stream,            \* ordinal of the last envelope read, or Down
    delivered,         \* the adapter's resume cursor
    sent,              \* envelopes this process built and sent
    net,               \* envelopes sent and not yet seen by the runtime
    rpc,               \* the Send in progress
    failures

vars == <<log, proj, stream, delivered, sent, net, rpc, failures>>

Down == -1
Idle == [status |-> "idle"]
Acks == {"waiting", "ok", "nack"}
Ids(s) == {s[i].id : i \in DOMAIN s}
AtLoop == rpc = Idle

Init ==
    /\ log = <<>>
    /\ proj = Fresh(InitView)
    /\ stream = Down
    /\ delivered = 0
    /\ sent = {}
    /\ net = {}
    /\ rpc = Idle
    /\ failures = 0

Fail == failures < MaxFailures /\ failures' = failures + 1

-----------------------------------------------------------------------------
\* External: the runtime admits by its own rules and refuses a known message id.
Admits(m) == m.id \notin Ids(log) /\ Admissible(log, m)

PeerSend(m) ==
    /\ m.sender # Me
    /\ Admits(m)
    /\ log' = Append(log, m)
    /\ UNCHANGED <<proj, stream, delivered, sent, net, rpc, failures>>

RuntimeReceive(m) ==
    /\ m \in net
    /\ net' = net \ {m}
    /\ log' = IF Admits(m) THEN Append(log, m) ELSE log
    /\ rpc' = IF ~AtLoop /\ rpc.msg = m
              THEN [rpc EXCEPT !.status = IF Admits(m) THEN "ok" ELSE "nack"]
              ELSE rpc
    /\ UNCHANGED <<proj, stream, delivered, sent, failures>>

-----------------------------------------------------------------------------
\* A session action builds an envelope with a new id and blocks in client.send.
SessionSend(m) ==
    /\ AtLoop
    /\ m.sender = Me /\ m \notin sent
    /\ sent' = sent \cup {m}
    /\ net' = net \cup {m}
    /\ rpc' = [status |-> "waiting", msg |-> m]
    /\ UNCHANGED <<log, proj, stream, delivered, failures>>

\* _track_ack: an accepted envelope is applied; a NACK leaves the projection.
TrackAck_Always(p, m, ok) == Apply(p, m)
TrackAck(p, m, ok) == IF ok THEN Apply(p, m) ELSE p

AckReturns ==
    /\ rpc.status \in {"ok", "nack"}
    /\ proj' = IF TrackAcks THEN TrackAck(proj, rpc.msg, rpc.status = "ok") ELSE proj
    /\ rpc' = Idle
    /\ UNCHANGED <<log, stream, delivered, sent, net, failures>>

\* The RPC ends in an error or its deadline; client.send raises before any
\* tracking, whether the envelope reached the runtime, never will, or still may.
RpcFails ==
    /\ ~AtLoop /\ Fail
    /\ rpc' = Idle
    /\ UNCHANGED <<log, proj, stream, delivered, sent, net>>

-----------------------------------------------------------------------------
\* send_subscribe(after_sequence): the cursor of the same adapter, or 0 of a new one.
ResumeFrom_Ahead(cursor) == {0, cursor + 1}
ResumeFrom_Inclusive(cursor) == {0, cursor - 1}
ResumeFrom(cursor) == {0, cursor}

Subscribe ==
    /\ AtLoop /\ stream = Down
    /\ \E after \in ResumeFrom(delivered) : stream' = after /\ delivered' = after
    /\ UNCHANGED <<log, proj, sent, net, rpc, failures>>

Readable == AtLoop /\ stream # Down /\ stream < Len(log)

\* The consumer takes the next envelope and comes back for another.
Deliver ==
    /\ Readable
    /\ proj' = Apply(proj, log[stream + 1])
    /\ stream' = stream + 1
    /\ delivered' = delivered + 1
    /\ UNCHANGED <<log, sent, net, rpc, failures>>

\* The envelope is applied, then the consumer leaves the loop (a handler
\* raised): the generator never resumes after its yield, so it is not counted.
DeliverUncounted ==
    /\ Readable /\ Fail
    /\ proj' = Apply(proj, log[stream + 1])
    /\ stream' = Down
    /\ UNCHANGED <<log, delivered, sent, net, rpc>>

\* apply_envelope raises: rolled back, and the consumer leaves the loop.
DeliverRaises ==
    /\ Readable /\ Fail
    /\ proj' = ApplyFails(proj, log[stream + 1])
    /\ stream' = Down
    /\ UNCHANGED <<log, delivered, sent, net, rpc>>

\* The stream breaks; what it had queued is gone.
StreamBreaks ==
    /\ AtLoop /\ stream # Down /\ Fail
    /\ stream' = Down
    /\ UNCHANGED <<log, proj, delivered, sent, net, rpc>>

\* The process restarts with nothing: projections are not persisted.
Restart ==
    /\ Fail
    /\ proj' = Fresh(InitView)
    /\ stream' = Down /\ delivered' = 0 /\ rpc' = Idle
    /\ UNCHANGED <<log, sent, net>>

-----------------------------------------------------------------------------
Runtime == \E m \in Messages : PeerSend(m) \/ RuntimeReceive(m)
Session == (\E m \in Messages : SessionSend(m)) \/ AckReturns \/ RpcFails
Stream == Subscribe \/ Deliver \/ DeliverUncounted \/ DeliverRaises \/ StreamBreaks

Next == Runtime \/ Session \/ Stream \/ Restart

\* The consumer's loop keeps running and subscribes again when its stream is
\* gone; the runtime answers what reached it.  Nobody is obliged to send.
Fairness ==
    /\ WF_vars(Subscribe) /\ WF_vars(Deliver) /\ WF_vars(AckReturns)
    /\ WF_vars(\E m \in Messages : RuntimeReceive(m))

Spec == Init /\ [][Next]_vars
FairSpec == Spec /\ Fairness

-----------------------------------------------------------------------------
TypeOK ==
    /\ log \in Seq(Messages)
    /\ proj.transcript \in Seq(Messages)
    /\ proj = [transcript |-> proj.transcript, seen |-> proj.seen, view |-> proj.view]
    /\ stream \in Nat \cup {Down} /\ delivered \in Nat
    /\ sent \subseteq Messages /\ net \subseteq sent
    /\ rpc \in {Idle} \cup [status : Acks, msg : Messages]
    /\ failures \in 0..MaxFailures

\* The projection holds accepted envelopes only: a NACK, a lost ack or a
\* rolled-back apply never leaves one behind (base_projection.py precondition,
\* kept by _track_ack and by the stream).
AcceptedOnly == \A i \in DOMAIN proj.transcript : proj.transcript[i].id \in Ids(log)

\* No envelope counts twice, whatever is redelivered or fed from both sides
\* (the dedup gate of apply_envelope), and no id is refused without its
\* envelope having taken effect (the rollback).
EachOnce ==
    /\ \A i, j \in DOMAIN proj.transcript :
            proj.transcript[i].id = proj.transcript[j].id => i = j
    /\ proj.seen = Ids(proj.transcript)

\* Fed by the stream alone, the transcript is a prefix of accepted history:
\* no gap, no reordering, whatever resubscribes happened (the resume cursor).
PrefixOfLog ==
    ~TrackAcks =>
        /\ Len(proj.transcript) <= Len(log)
        /\ \A i \in DOMAIN proj.transcript : proj.transcript[i] = log[i]

\* Accepted history is append-only and the resume cursor never runs ahead of
\* what took effect: an overtaking cursor would skip an envelope for good.
CursorBehind == ~TrackAcks => delivered <= Len(proj.transcript)

\* Replaying the transcript through a fresh projection reproduces it, dedup gate
\* and view (apply_envelope: determinism, whatever was redelivered or raised).
ReplayReproduces == proj = Replay(Fresh(InitView), proj.transcript)

\* Every accepted envelope reaches the projection of a consumer that keeps
\* resubscribing (at-least-once transport, bounded failures).
CatchesUp ==
    \A n \in 1..Cardinality(Messages) : Len(log) >= n ~> Len(proj.transcript) >= n

\* Fed by the stream alone, the projection implements the exactly-once reading
\* of accepted history.
History == INSTANCE AcceptedHistory
    WITH view <- proj.view, applied <- Len(proj.transcript), Step <- Effect
HistorySpec == History!Spec
=============================================================================
