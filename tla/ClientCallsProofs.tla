------------------------- MODULE ClientCallsProofs -------------------------
(***************************************************************************)
(* Proofs about ClientCalls, for any callers and programs, any credentials *)
(* and capabilities, and any number of retries, pages and faults.          *)
(*                                                                         *)
(* The argument.  A request that may still reach the runtime carries the   *)
(* id and the identity of one call that has begun and that nothing local   *)
(* refused; only retry_send has more than one request for an id.  So what  *)
(* a helper sent is accepted at most once and never found a duplicate, and *)
(* a reply says of the history it was given on what a caller concludes     *)
(* from it later, because history only grows.                              *)
(***************************************************************************)
EXTENDS ClientCalls, SequenceTheorems, TLAPS

SendMethods == {"send", "send_signal", "send_progress"}

-----------------------------------------------------------------------------
\* The tables of RPCs.
LEMMA SyncSends ==
    ASSUME NEW table \in SyncTables
    PROVE  /\ \A m \in SendMethods \cap DOMAIN table :
                table[m].answer = "send_ack" /\ table[m].errors = "send" /\ table[m].gate = "none"
           /\ "initialize" \in DOMAIN table => table["initialize"] = Read("forwarded")
BY DEF SyncTables, InitializeRpc, SendRpc, GetSessionRpc, ControlRpcs, DiscoveryRpcs, ListSessionsRpcs,
       WatchSessionsRpc, ModeRegistryRpcs, PolicyRpcs, WhatIfReplayRpc, ReceiptRpcs, StreamRpcs, AmbientRpcs,
       Rpc, Read, Mutation, Control, Gated, Watch, Sends, SendMethods

\* Wherever a table of each client has an RPC, they say the same of it.
LEMMA TablesAgree ==
    ASSUME NEW table \in SyncTables, NEW other \in AsyncTables, NEW m \in DOMAIN table \cap DOMAIN other
    PROVE  table[m] = other[m]
<1> USE DEF SyncTables, InitializeRpc, SendRpc, GetSessionRpc, ControlRpcs, DiscoveryRpcs, ListSessionsRpcs,
       WatchSessionsRpc, ModeRegistryRpcs, PolicyRpcs, WhatIfReplayRpc, ReceiptRpcs, StreamRpcs, AmbientRpcs
<1>1. CASE other = AsyncCoreRpcs        BY <1>1 DEF AsyncCoreRpcs
<1>2. CASE other = AsyncControlRpcs     BY <1>2 DEF AsyncControlRpcs
<1>3. CASE other = AsyncDiscoveryRpcs   BY <1>3 DEF AsyncDiscoveryRpcs
<1>4. CASE other = AsyncListRpcs        BY <1>4 DEF AsyncListRpcs
<1>5. CASE other = AsyncWatchSessionsRpc BY <1>5 DEF AsyncWatchSessionsRpc
<1>6. CASE other = AsyncModeRegistryRpcs BY <1>6 DEF AsyncModeRegistryRpcs
<1>7. CASE other = AsyncPolicyRpcs      BY <1>7 DEF AsyncPolicyRpcs
<1>8. CASE other = AsyncGatedRpcs       BY <1>8 DEF AsyncGatedRpcs
<1>9. CASE other = AsyncStreamRpcs      BY <1>9 DEF AsyncStreamRpcs
<1>10. CASE other = AsyncAmbientRpcs    BY <1>10 DEF AsyncAmbientRpcs
<1> QED
  BY <1>1, <1>2, <1>3, <1>4, <1>5, <1>6, <1>7, <1>8, <1>9, <1>10 DEF AsyncTables

\* Both clients have every RPC.
LEMMA EveryMethod ==
    ASSUME NEW m \in Methods
    PROVE  /\ \E table \in SyncTables : m \in DOMAIN table
           /\ \E other \in AsyncTables : m \in DOMAIN other
<1>1. \E table \in SyncTables : m \in DOMAIN table
  BY DEF Methods
<1>2. \A table \in SyncTables : m \in DOMAIN table =>
        m \in DOMAIN AsyncCoreRpcs \cup DOMAIN AsyncControlRpcs \cup DOMAIN AsyncDiscoveryRpcs
              \cup DOMAIN AsyncListRpcs \cup DOMAIN AsyncWatchSessionsRpc \cup DOMAIN AsyncModeRegistryRpcs
              \cup DOMAIN AsyncPolicyRpcs \cup DOMAIN AsyncGatedRpcs \cup DOMAIN AsyncStreamRpcs
              \cup DOMAIN AsyncAmbientRpcs
  BY DEF SyncTables, InitializeRpc, SendRpc, GetSessionRpc, ControlRpcs, DiscoveryRpcs, ListSessionsRpcs,
       WatchSessionsRpc, ModeRegistryRpcs, PolicyRpcs, WhatIfReplayRpc, ReceiptRpcs, StreamRpcs, AmbientRpcs,
       AsyncCoreRpcs, AsyncControlRpcs, AsyncDiscoveryRpcs, AsyncListRpcs, AsyncWatchSessionsRpc,
       AsyncModeRegistryRpcs, AsyncPolicyRpcs, AsyncGatedRpcs, AsyncStreamRpcs, AsyncAmbientRpcs
<1> QED BY <1>1, <1>2 DEF AsyncTables

LEMMA LookedUp ==
    ASSUME NEW tables, NEW m, \E table \in tables : m \in DOMAIN table
    PROVE  \E table \in tables : m \in DOMAIN table /\ Lookup(tables, m) = table[m]
BY DEF Lookup

\* MacpClient and AsyncMacpClient treat every RPC the same: the credentials it needs,
\* its capability, its argument check and what its failures become.
THEOREM FlavoursAgree == \A m \in Methods : RpcOf("sync", m) = RpcOf("async", m)
<1> SUFFICES ASSUME NEW m \in Methods PROVE RpcOf("sync", m) = RpcOf("async", m)
  OBVIOUS
<1>1. PICK table \in SyncTables : m \in DOMAIN table /\ Lookup(SyncTables, m) = table[m]
  BY EveryMethod, LookedUp
<1>2. PICK other \in AsyncTables : m \in DOMAIN other /\ Lookup(AsyncTables, m) = other[m]
  BY EveryMethod, LookedUp
<1> QED BY <1>1, <1>2, TablesAgree DEF RpcOf

LEMMA RpcFacts ==
    ASSUME NEW flavour, NEW m \in Methods
    PROVE  /\ m \in SendMethods =>
                /\ RpcOf(flavour, m).answer = "send_ack" /\ RpcOf(flavour, m).errors = "send"
                /\ RpcOf(flavour, m).gate = "none"
           /\ m = "initialize" => RpcOf(flavour, m) = Read("forwarded")
<1>1. PICK table \in SyncTables : m \in DOMAIN table /\ Lookup(SyncTables, m) = table[m]
  BY EveryMethod, LookedUp
<1>2. RpcOf(flavour, m) = table[m]
  BY <1>1, FlavoursAgree DEF RpcOf
<1> QED BY <1>1, <1>2, SyncSends

LEMMA SomeMethods == SendMethods \subseteq Methods /\ "initialize" \in Methods
<1>1. {SendRpc, AmbientRpcs, InitializeRpc} \subseteq SyncTables
  BY DEF SyncTables
<1>2. DOMAIN SendRpc \cup DOMAIN AmbientRpcs \cup DOMAIN InitializeRpc \subseteq Methods
  BY <1>1 DEF Methods
<1> QED BY <1>2 DEF SendRpc, AmbientRpcs, InitializeRpc, SendMethods

-----------------------------------------------------------------------------
Sequence(s) == s \in Seq({s[i] : i \in DOMAIN s})

IsAck(reply) ==
    /\ reply.form = "ack" /\ reply = Ack(reply.ok, reply.duplicate, reply.code)
    /\ reply.ok \in BOOLEAN /\ reply.duplicate \in BOOLEAN
IsStatus(reply) == reply.form = "status" /\ reply = Status(reply.status, reply.macp_code)
IsValue(reply) ==
    \/ reply = Value
    \/ /\ DOMAIN reply = {"form", "more"}
       /\ reply = [form |-> "value", more |-> reply.more] /\ reply.more \in BOOLEAN
    \/ /\ DOMAIN reply = {"form", "capabilities"}
       /\ reply = [form |-> "value", capabilities |-> reply.capabilities]
       /\ reply.capabilities \in CapabilitySets
IsReply(reply) == IsAck(reply) \/ IsStatus(reply) \/ IsValue(reply)

IsPosition(p) ==
    /\ p.at \in Nat /\ p.attempt \in Nat
    /\ \/ /\ p.status \in {"idle", "gate", "probing", "sent"}
          /\ p = [status |-> p.status, at |-> p.at, attempt |-> p.attempt]
       \/ /\ p.status \in {"answered", "backoff"}
          /\ p = [status |-> p.status, at |-> p.at, attempt |-> p.attempt,
                  of |-> p.of, reply |-> p.reply, asof |-> p.asof]
          /\ p.asof \in Nat /\ IsReply(p.reply)

IsRequest(r) ==
    /\ r = [by |-> r.by, at |-> r.at, n |-> r.n, method |-> r.method,
            id |-> r.id, sender |-> r.sender, token |-> r.token]
    /\ r.by \in Callers /\ r.at \in Nat /\ r.n \in Nat

Typed ==
    /\ config \in Configs /\ program \in Programs
    /\ DOMAIN pc = Callers /\ \A c \in Callers : IsPosition(pc[c])
    /\ \A r \in net : IsRequest(r)
    /\ Sequence(log) /\ Sequence(own)
    /\ session \in {"open", "suspended", "ended"}
    /\ advertises \in CapabilitySets
    /\ server_capabilities \in {Unknown} \cup CapabilitySets
    /\ server_capabilities # Unknown => server_capabilities \subseteq heard
    /\ DOMAIN outcome = Callers
    /\ \A c \in Callers : Sequence(outcome[c]) /\ \A k \in DOMAIN outcome[c] : outcome[c][k].asof \in Nat
    /\ faults \in 0..MaxFaults

-----------------------------------------------------------------------------
RpcIn(method) == RpcOf(config.flavour, method)
Cleared(method) == RpcIn(method).gate = "none" \/ RpcIn(method).gate \in heard
Passed(job) == Refusal(job, RpcIn(job.method)) = "none"

\* The call at k of caller c has begun.
Started(c, k) ==
    k \in DOMAIN program[c] /\ (k < pc[c].at \/ (k = pc[c].at /\ pc[c].status # "idle"))
IsHelper(job) == job.how = "session" /\ IsSend(job)

\* The ids accepted up to a point of history.
Before(n) == {log[i].id : i \in 1..n}

\* What a reply to a send says of history is so.
TrueReply(job, reply, asof) ==
    /\ IsAck(reply) \/ IsStatus(reply)
    /\ reply.form = "ack" =>
        /\ reply.ok \/ reply.duplicate => job.id \in Before(asof)
        /\ ~reply.ok /\ ~reply.duplicate => job.id \notin Before(asof)
        /\ job.how # "retry" => ~reply.duplicate
    /\ /\ reply.form = "status"
       /\ reply.macp_code # "" \/ reply.status \in {"ALREADY_EXISTS", "FAILED_PRECONDITION"}
       => job.id \notin Before(asof)

\* A caller is at the call after the finished ones, and what it is doing with it.
CallerAt(c) ==
    LET p == pc[c]
        job == program[c][p.at]
    IN  /\ p.at = Len(outcome[c]) + 1
        /\ p.status # "idle" =>
            /\ p.at \in DOMAIN program[c] /\ Passed(job)
            /\ IsSend(job) => p.status \notin {"probing", "gate"}
            /\ IsSend(job) /\ job.how # "retry" => p.attempt = 1
        /\ p.status = "gate" => server_capabilities # Unknown
        /\ p.status = "sent" => Cleared(job.method)
        /\ p.status \in {"answered", "backoff"} =>
            /\ p.asof <= Len(log)
            /\ p.of = "initialize" \/ Cleared(job.method)
            /\ p.of = "initialize" /\ p.reply.form = "value" => "capabilities" \in DOMAIN p.reply
            /\ IsSend(job) => TrueReply(job, p.reply, p.asof)
        /\ p.status = "backoff" => job.how = "retry" /\ Retryable(OfReply(RpcIn(job.method), p.reply))

\* A request is the one its call makes.
RequestOf(r) ==
    LET job == program[r.by][r.at]
    IN  /\ Started(r.by, r.at) /\ Passed(job) /\ Cleared(r.method)
        /\ r.id = job.id /\ r.token = CallAuth(job).token
        /\ r.sender = SenderOn(job, RpcIn(job.method))
        /\ r.method \in {"initialize", job.method}
        /\ IsSend(job) => r.method = job.method
        /\ IsSend(job) /\ job.how # "retry" => r.n = 1 /\ r.id \notin Accepted

\* What was accepted is the envelope of a call that has begun.
EntryOf(e) ==
    \E c \in Callers : \E k \in DOMAIN program[c] :
        LET job == program[c][k]
        IN  /\ Started(c, k) /\ Passed(job) /\ IsSend(job)
            /\ e.id = job.id /\ e.token = CallAuth(job).token
            /\ e.sender = SenderOn(job, RpcIn(job.method))

OneEntryEach == \A i, j \in DOMAIN log : log[i].id = log[j].id => i = j

\* The projection holds what the session's helpers have finished sending.
OwnOf(x) ==
    /\ x \in Accepted
    /\ \E c \in Callers : \E k \in DOMAIN program[c] :
        k < pc[c].at /\ IsHelper(program[c][k]) /\ x = program[c][k].id
OneOwnEach == \A i, j \in DOMAIN own : own[i] = own[j] => i = j

\* Of two calls of one caller, the earlier one comes first in the projection; and
\* once it is in the projection, nothing of the later one came before it in history.
OwnOrder ==
    \A c \in Callers : \A k, l \in DOMAIN program[c] : \A i, j \in DOMAIN own :
        k < l /\ own[i] = program[c][k].id /\ own[j] = program[c][l].id => i < j
LogOrder ==
    \A c \in Callers : \A k, l \in DOMAIN program[c] : \A i, j \in DOMAIN log :
        /\ k < l /\ log[i].id = program[c][k].id /\ log[j].id = program[c][l].id
        /\ \E x \in DOMAIN own : own[x] = program[c][k].id
        => i < j

\* A finished call.
EndingOf(c, k) ==
    LET job == program[c][k]
        end == outcome[c][k].end
    IN  /\ k \in DOMAIN program[c] /\ outcome[c][k].asof <= Len(log)
        /\ IsSend(job) =>
            /\ end.kind = "returned" => job.id \in Before(outcome[c][k].asof)
            /\ end.kind = "MacpAckError" => job.id \notin Before(outcome[c][k].asof)
        /\ IsHelper(job) /\ end = Returned => \E x \in DOMAIN own : own[x] = job.id

OwnInv ==
    /\ \A x \in DOMAIN own : OwnOf(own[x])
    /\ OneOwnEach /\ OwnOrder /\ LogOrder

IInv ==
    /\ Typed
    /\ \A c \in Callers : CallerAt(c)
    /\ \A r \in net : RequestOf(r)
    /\ \A i \in DOMAIN log : EntryOf(log[i])
    /\ OneEntryEach
    /\ OwnInv
    /\ \A c \in Callers : \A k \in DOMAIN outcome[c] : EndingOf(c, k)
    /\ \A m \in served : Cleared(m)

-----------------------------------------------------------------------------
\* Sequences that keep what they hold.
LEMMA EmptySequence == Sequence(<<>>)
BY DEF Sequence

LEMMA SequenceDomain ==
    ASSUME NEW s, Sequence(s)
    PROVE  Len(s) \in Nat /\ DOMAIN s = 1..Len(s)
BY DEF Sequence

LEMMA AppendSequence ==
    ASSUME NEW s, Sequence(s), NEW x
    PROVE  /\ Sequence(Append(s, x)) /\ Len(Append(s, x)) = Len(s) + 1
           /\ DOMAIN Append(s, x) = 1..Len(s) + 1
           /\ Append(s, x)[Len(s) + 1] = x
           /\ \A i \in DOMAIN s : Append(s, x)[i] = s[i]
<1> DEFINE S == {s[i] : i \in DOMAIN s} \cup {x}
           t == Append(s, x)
<1>1. s \in Seq(S)
  <2>1. s \in Seq({s[i] : i \in DOMAIN s})
    BY DEF Sequence
  <2>2. DOMAIN s = 1..Len(s) /\ Len(s) \in Nat /\ s = [i \in 1..Len(s) |-> s[i]]
    BY <2>1
  <2>3. \A i \in 1..Len(s) : s[i] \in S
    BY <2>2
  <2> HIDE DEF S
  <2> QED BY <2>2, <2>3, IsASeq
<1>2. x \in S
  OBVIOUS
<1>3. t \in Seq(S) /\ Len(t) = Len(s) + 1 /\ DOMAIN t = 1..Len(s) + 1 /\ t[Len(s) + 1] = x
      /\ \A i \in DOMAIN s : t[i] = s[i]
  <2> HIDE DEF S
  <2> QED BY <1>1, <1>2
<1>4. t \in Seq({t[i] : i \in DOMAIN t})
  <2>1. t = [i \in 1..Len(t) |-> t[i]] /\ Len(t) \in Nat /\ DOMAIN t = 1..Len(t)
    <3> HIDE DEF S, t
    <3> QED BY <1>3
  <2>2. \A i \in 1..Len(t) : t[i] \in {t[j] : j \in DOMAIN t}
    BY <2>1
  <2> HIDE DEF t
  <2> QED BY <2>1, <2>2, IsASeq
<1> QED BY <1>3, <1>4 DEF Sequence

\* t is s, or s and one more.
Extends(s, t) == t = s \/ \E x : t = Append(s, x)

LEMMA ExtendsSequence ==
    ASSUME NEW s, Sequence(s), NEW t, Extends(s, t)
    PROVE  /\ Sequence(t) /\ Len(s) <= Len(t)
           /\ \A i \in DOMAIN s : i \in DOMAIN t /\ t[i] = s[i]
<1>1. Len(s) \in Nat /\ DOMAIN s = 1..Len(s)
  BY SequenceDomain
<1>2. CASE t = s
  BY <1>1, <1>2
<1>3. CASE \E x : t = Append(s, x)
  BY <1>1, <1>3, AppendSequence
<1> QED BY <1>2, <1>3 DEF Extends

-----------------------------------------------------------------------------
\* What every step keeps.
Grows ==
    /\ config' = config /\ program' = program
    /\ heard \subseteq heard' /\ (server_capabilities # Unknown => server_capabilities' # Unknown)
    /\ \A c \in Callers : \A k \in DOMAIN program[c] : Started(c, k) => Started(c, k)'
    /\ Extends(log, log') /\ Extends(own, own')

LEMMA SameCalls ==
    ASSUME config' = config
    PROVE  /\ \A job : Passed(job)' <=> Passed(job)
           /\ \A job : CallAuth(job)' = CallAuth(job)
           /\ \A job : SenderOn(job, RpcIn(job.method))' = SenderOn(job, RpcIn(job.method))
BY DEF Passed, Refusal, RpcIn, SenderAuth, CallAuth, Builds, SenderOn

LEMMA RequestKept ==
    ASSUME Grows, NEW r, IsRequest(r), RequestOf(r), r.id \in Accepted' => r.id \in Accepted
    PROVE  RequestOf(r)'
<1>1. r.by \in Callers /\ r.at \in DOMAIN program[r.by]
  BY DEF IsRequest, RequestOf, Started
<1>2. Started(r.by, r.at)'
  BY <1>1 DEF Grows, RequestOf
<1> QED
  BY <1>1, <1>2, SameCalls
     DEF Grows, RequestOf, Cleared, RpcIn, Passed, Refusal, SenderAuth, CallAuth, Builds, SenderOn

LEMMA BeforeKept ==
    ASSUME Sequence(log), Extends(log, log'), NEW n \in Nat, n <= Len(log)
    PROVE  Before(n)' = Before(n) /\ n <= Len(log') /\ Before(n) \subseteq Accepted
<1>1. \A i \in 1..n : i \in DOMAIN log /\ log'[i] = log[i]
  BY SequenceDomain, ExtendsSequence
<1>2. Len(log) \in Nat /\ Len(log') \in Nat /\ Len(log) <= Len(log')
  BY SequenceDomain, ExtendsSequence
<1>3. Before(n)' = Before(n)
  BY <1>1 DEF Before
<1>4. n <= Len(log')
  BY <1>2
<1> QED BY <1>1, <1>3, <1>4 DEF Before, Accepted

LEMMA AcceptedKept ==
    ASSUME Sequence(log), Extends(log, log') PROVE Accepted \subseteq Accepted'
BY ExtendsSequence DEF Accepted

LEMMA EntryKept ==
    ASSUME Grows, NEW e, EntryOf(e)
    PROVE  EntryOf(e)'
<1>1. PICK c \in Callers : \E k \in DOMAIN program[c] :
        LET job == program[c][k]
        IN  /\ Started(c, k) /\ Passed(job) /\ IsSend(job)
            /\ e.id = job.id /\ e.token = CallAuth(job).token
            /\ e.sender = SenderOn(job, RpcIn(job.method))
  BY DEF EntryOf
<1>3. PICK k \in DOMAIN program[c] :
        LET job == program[c][k]
        IN  /\ Started(c, k) /\ Passed(job) /\ IsSend(job)
            /\ e.id = job.id /\ e.token = CallAuth(job).token
            /\ e.sender = SenderOn(job, RpcIn(job.method))
  BY <1>1
<1>2. c \in Callers /\ k \in DOMAIN program'[c] /\ IsSend(program'[c][k])
  BY <1>3 DEF Grows
<1> QED
  BY <1>2, <1>3, SameCalls
     DEF Grows, EntryOf, Cleared, RpcIn, Passed, Refusal, SenderAuth, CallAuth, Builds, SenderOn

LEMMA TrueReplyKept ==
    ASSUME NEW job, NEW reply, NEW n \in Nat, n <= Len(log), TrueReply(job, reply, n),
           Sequence(log), Extends(log, log')
    PROVE  TrueReply(job, reply, n)'
BY BeforeKept DEF TrueReply

\* A caller that no step touches is where it was.
LEMMA CallerKept ==
    ASSUME Grows, Typed, NEW c \in Callers, CallerAt(c), pc'[c] = pc[c], outcome'[c] = outcome[c]
    PROVE  CallerAt(c)'
<1>1. PICK p : p = pc[c]
  OBVIOUS
<1>2. PICK job : job = program[c][p.at]
  OBVIOUS
<1>3. pc'[c] = p /\ program'[c][p.at] = job /\ DOMAIN program'[c] = DOMAIN program[c]
  BY <1>1, <1>2 DEF Grows
<1>4. Passed(job)' <=> Passed(job)
  BY SameCalls DEF Grows
<1>5. Cleared(job.method) => Cleared(job.method)'
  BY DEF Grows, Cleared, RpcIn
<1>6. ASSUME p.status \in {"answered", "backoff"}, p.asof <= Len(log)
      PROVE  /\ p.asof <= Len(log')
             /\ TrueReply(job, p.reply, p.asof) => TrueReply(job, p.reply, p.asof)'
  <2>1. p.asof \in Nat
    BY <1>1, <1>6 DEF Typed, IsPosition
  <2>2. Sequence(log) /\ Extends(log, log')
    BY DEF Typed, Grows
  <2> QED BY <1>6, <2>1, <2>2, TrueReplyKept, BeforeKept
<1>7. RpcIn(job.method)' = RpcIn(job.method)
  BY DEF Grows, RpcIn
<1> QED
  BY <1>1, <1>2, <1>3, <1>4, <1>5, <1>6, <1>7 DEF CallerAt, Grows

LEMMA EndingKept ==
    ASSUME Grows, Typed, NEW c \in Callers, NEW k \in DOMAIN outcome[c], EndingOf(c, k),
           outcome'[c][k] = outcome[c][k]
    PROVE  EndingOf(c, k)'
<1>1. PICK o : o = outcome[c][k]
  OBVIOUS
<1>2. outcome'[c][k] = o /\ program'[c] = program[c]
  BY <1>1 DEF Grows
<1>3. o.asof \in Nat /\ o.asof <= Len(log)
  BY <1>1 DEF Typed, EndingOf
<1>4. Before(o.asof)' = Before(o.asof) /\ o.asof <= Len(log')
  BY <1>3, BeforeKept DEF Typed, Grows
<1>5. \A x \in DOMAIN own : x \in DOMAIN own' /\ own'[x] = own[x]
  BY ExtendsSequence DEF Typed, Grows
<1> QED BY <1>1, <1>2, <1>3, <1>4, <1>5 DEF EndingOf

\* The projection, in a step that adds nothing to it or to history.
LEMMA OwnKept ==
    ASSUME OwnInv, own' = own, log' = log, program' = program,
           \A c \in Callers : pc[c].at \in Nat /\ pc'[c].at \in Nat /\ pc[c].at <= pc'[c].at,
           program \in Programs
    PROVE  OwnInv'
<1>1. ASSUME NEW x \in DOMAIN own, OwnOf(own[x]) PROVE OwnOf(own[x])'
  <2>1. own[x] \in Accepted'
    BY <1>1 DEF OwnOf, Accepted
  <2>2. PICK c \in Callers : \E k \in DOMAIN program[c] :
            k < pc[c].at /\ IsHelper(program[c][k]) /\ own[x] = program[c][k].id
    BY <1>1 DEF OwnOf
  <2>3. \A k \in DOMAIN program[c] : k \in Nat
    BY CallsAssumption
  <2>4. \E k \in DOMAIN program'[c] :
            k < pc'[c].at /\ IsHelper(program'[c][k]) /\ own'[x] = program'[c][k].id
    BY <2>2, <2>3
  <2> QED BY <2>1, <2>4 DEF OwnOf
<1>2. \A x \in DOMAIN own' : OwnOf(own[x])'
  BY <1>1 DEF OwnInv
<1> QED BY <1>2 DEF OwnInv, OneOwnEach, OwnOrder, LogOrder

\* A step of caller c: what it touches is shown, the rest is kept.
LEMMA CallerStep ==
    ASSUME IInv, Typed', Grows, NEW c \in Callers,
           \A d \in Callers : d # c => pc'[d] = pc[d] /\ outcome'[d] = outcome[d],
           CallerAt(c)',
           \A r \in net' : RequestOf(r)',
           \A i \in DOMAIN log' : i \in DOMAIN log \/ EntryOf(log[i])',
           OneEntryEach', OwnInv',
           \A k \in DOMAIN outcome'[c] :
                (k \in DOMAIN outcome[c] /\ outcome'[c][k] = outcome[c][k]) \/ EndingOf(c, k)',
           \A m \in served' : m \in served \/ Cleared(m)'
    PROVE  IInv'
<1>1. \A d \in Callers : CallerAt(d)'
  BY CallerKept DEF IInv
<1>2. \A i \in DOMAIN log' : EntryOf(log[i])'
  <2>1. ASSUME NEW i \in DOMAIN log PROVE EntryOf(log[i])'
    <3>1. PICK e : e = log[i]
      OBVIOUS
    <3>2. log'[i] = e
      BY <3>1, ExtendsSequence DEF IInv, Typed, Grows
    <3>3. EntryOf(e)'
      BY <3>1, EntryKept DEF IInv
    <3> QED BY <3>2, <3>3
  <2> QED BY <2>1
<1>3. \A d \in Callers : \A k \in DOMAIN outcome'[d] : EndingOf(d, k)'
  BY EndingKept DEF IInv
<1>4. \A m \in served' : Cleared(m)'
  <2>1. ASSUME NEW m, Cleared(m) PROVE Cleared(m)'
    BY <2>1 DEF Grows, Cleared, RpcIn
  <2> QED BY <2>1 DEF IInv
<1> QED BY <1>1, <1>2, <1>3, <1>4 DEF IInv

-----------------------------------------------------------------------------
\* The numbers of a caller's calls.
LEMMA CallNumbers ==
    ASSUME Typed, NEW c \in Callers
    PROVE  /\ Len(program[c]) \in Nat /\ DOMAIN program[c] = 1..Len(program[c])
           /\ \A k \in DOMAIN program[c] : program[c][k] \in Jobs
           /\ pc[c].at \in Nat /\ pc[c].attempt \in Nat
<1>1. program[c] \in Seq(Jobs)
  BY CallsAssumption DEF Typed
<1>2. pc[c].at \in Nat /\ pc[c].attempt \in Nat
  BY DEF Typed, IsPosition
<1>3. /\ Len(program[c]) \in Nat /\ DOMAIN program[c] = 1..Len(program[c])
      /\ \A k \in DOMAIN program[c] : program[c][k] \in Jobs
  BY <1>1
<1> QED BY <1>2, <1>3

LEMMA StartedGrows ==
    ASSUME Typed, NEW c \in Callers, program' = program,
           \A d \in Callers : d # c => pc'[d] = pc[d],
           \/ pc'[c].at = pc[c].at /\ pc'[c].status # "idle"
           \/ pc'[c].at = pc[c].at + 1
    PROVE  \A d \in Callers : \A k \in DOMAIN program[d] : Started(d, k) => Started(d, k)'
<1>1. SUFFICES ASSUME NEW d \in Callers, NEW k \in DOMAIN program[d], Started(d, k) PROVE Started(d, k)'
  OBVIOUS
<1>2. k \in Nat /\ pc[d].at \in Nat /\ k \in DOMAIN program'[d]
  BY CallNumbers
<1>3. CASE d # c
  BY <1>1, <1>2, <1>3 DEF Started
<1>4. CASE d = c /\ pc'[c].at = pc[c].at /\ pc'[c].status # "idle"
  BY <1>1, <1>2, <1>4 DEF Started
<1>5. CASE d = c /\ pc'[c].at = pc[c].at + 1
  BY <1>1, <1>2, <1>5 DEF Started
<1> QED BY <1>3, <1>4, <1>5

LEMMA OneCallEach ==
    ASSUME Typed, NEW c \in Callers, NEW d \in Callers,
           NEW k \in DOMAIN program[c], NEW l \in DOMAIN program[d], program[c][k].id = program[d][l].id
    PROVE  c = d /\ k = l
<1>1. program \in Programs
  BY DEF Typed
<1>2. \A p \in Programs : \A a, b \in Callers : \A m \in DOMAIN p[a], n \in DOMAIN p[b] :
        p[a][m].id = p[b][n].id => a = b /\ m = n
  BY CallsAssumption
<1> QED BY <1>1, <1>2

\* An id that is accepted belongs to one call, and that call has begun.
LEMMA AcceptedStarted ==
    ASSUME IInv, NEW c \in Callers, NEW k \in DOMAIN program[c], program[c][k].id \in Accepted
    PROVE  Started(c, k) /\ IsSend(program[c][k])
<1>1. PICK i \in DOMAIN log : log[i].id = program[c][k].id
  BY DEF Accepted
<1>2. EntryOf(log[i])
  BY DEF IInv
<1>3. PICK d \in Callers : \E l \in DOMAIN program[d] :
        Started(d, l) /\ IsSend(program[d][l]) /\ log[i].id = program[d][l].id
  BY <1>2 DEF EntryOf
<1>4. PICK l \in DOMAIN program[d] :
        Started(d, l) /\ IsSend(program[d][l]) /\ log[i].id = program[d][l].id
  BY <1>3
<1>5. program[c][k].id = program[d][l].id /\ Typed
  BY <1>1, <1>4 DEF IInv
<1>6. c = d /\ k = l
  BY <1>5, OneCallEach
<1> QED BY <1>4, <1>6

LEMMA NewRequest ==
    ASSUME IInv, Grows, NEW c \in Callers, NEW r, NEW method, NEW n,
           r = Request(c, method, n), log' = log,
           pc[c].at \in DOMAIN program[c], pc'[c].at = pc[c].at, pc'[c].status # "idle",
           Passed(JobOf(c)), Cleared(method), method \in {"initialize", JobOf(c).method},
           IsSend(JobOf(c)) =>
                method = JobOf(c).method /\ (JobOf(c).how # "retry" => n = 1 /\ pc[c].status = "idle")
    PROVE  RequestOf(r)'
<1>1. PICK job : job = JobOf(c)
  OBVIOUS
<1>2. /\ r.by = c /\ r.at = pc[c].at /\ r.n = n /\ r.method = method
      /\ r.id = job.id /\ r.sender = SenderOn(job, RpcIn(job.method)) /\ r.token = CallAuth(job).token
  BY <1>1 DEF Request, RpcFor, RpcIn
<1>3. program'[r.by][r.at] = job
  BY <1>1, <1>2 DEF Grows, JobOf
<1>4. Started(r.by, r.at)'
  BY <1>2, CallNumbers DEF Grows, Started, IInv
<1>5. Passed(job)' /\ CallAuth(job)' = CallAuth(job)
      /\ SenderOn(job, RpcIn(job.method))' = SenderOn(job, RpcIn(job.method))
  BY <1>1, SameCalls DEF Grows
<1>6. Cleared(r.method)'
  BY <1>2 DEF Grows, Cleared, RpcIn
<1>7. ASSUME IsSend(job), job.how # "retry" PROVE r.id \notin Accepted'
  <2>1. job = program[c][pc[c].at]
    BY <1>1 DEF JobOf
  <2>2. ~Started(c, pc[c].at)
    BY <1>1, <1>7, CallNumbers DEF Started, IInv
  <2>3. job.id \notin Accepted
    BY <2>1, <2>2, AcceptedStarted
  <2> QED BY <2>3, <1>2 DEF Accepted
<1> QED
  BY <1>1, <1>2, <1>3, <1>4, <1>5, <1>6, <1>7 DEF RequestOf

-----------------------------------------------------------------------------
\* The capabilities in the cache are ones that were heard of.
CacheGrows ==
    /\ heard \subseteq heard'
    /\ server_capabilities' \in {Unknown} \cup CapabilitySets
    /\ server_capabilities # Unknown => server_capabilities' # Unknown
    /\ server_capabilities' # Unknown => server_capabilities' \subseteq heard'

LEMMA CacheKept ==
    ASSUME Typed, UNCHANGED <<server_capabilities, heard>> PROVE CacheGrows
BY DEF Typed, CacheGrows

\* A call goes on without a request.
LEMMA MoveStep ==
    ASSUME IInv, NEW c \in Callers, NEW p, IsPosition(p),
           pc' = [pc EXCEPT ![c] = p], p.at = pc[c].at, p.status # "idle",
           net' \subseteq net, CacheGrows, faults' \in 0..MaxFaults,
           UNCHANGED <<config, program, log, own, outcome, served, session, advertises>>,
           CallerAt(c)'
    PROVE  IInv'
<1>1. Typed' /\ pc'[c] = p
  BY DEF IInv, Typed, CacheGrows
<1>2. Grows
  <2>1. \A d \in Callers : \A k \in DOMAIN program[d] : Started(d, k) => Started(d, k)'
    BY <1>1, StartedGrows DEF IInv, Typed
  <2> QED BY <2>1 DEF Grows, CacheGrows, Extends
<1>3. \A r \in net' : RequestOf(r)'
  <2>1. Accepted' = Accepted
    BY DEF Accepted
  <2> QED BY <1>2, <2>1, RequestKept DEF IInv, Typed
<1>4. OwnInv'
  <2>1. \A d \in Callers : pc[d].at \in Nat /\ pc'[d].at \in Nat /\ pc[d].at <= pc'[d].at
    BY <1>1 DEF IInv, Typed, IsPosition
  <2> QED BY <2>1, OwnKept DEF IInv, Typed
<1>5. OneEntryEach'
  BY DEF IInv, OneEntryEach
<1>6. \A d \in Callers : d # c => pc'[d] = pc[d] /\ outcome'[d] = outcome[d]
  BY DEF IInv, Typed
<1> QED BY <1>1, <1>2, <1>3, <1>4, <1>5, <1>6, CallerStep

\* A call sends a request.
LEMMA SendStep ==
    ASSUME IInv, NEW c \in Callers, NEW status \in {"probing", "sent"}, NEW method, NEW n \in Nat,
           SendRequest(c, status, method, n),
           UNCHANGED <<config, program, log, own, outcome, served, session, advertises, faults,
                       server_capabilities, heard>>,
           pc[c].at \in DOMAIN program[c], Passed(JobOf(c)), Cleared(method),
           \/ status = "sent" /\ method = JobOf(c).method
           \/ status = "probing" /\ method = "initialize" /\ ~IsSend(JobOf(c)),
           IsSend(JobOf(c)) /\ JobOf(c).how # "retry" => n = 1 /\ pc[c].status = "idle"
    PROVE  IInv'
<1>1. PICK p : p = [status |-> status, at |-> pc[c].at, attempt |-> n]
  OBVIOUS
<1>2. PICK r : r = Request(c, method, n)
  OBVIOUS
<1>3. pc' = [pc EXCEPT ![c] = p] /\ net' = net \cup {r}
  BY <1>1, <1>2 DEF SendRequest
<1>4. IsPosition(p) /\ p.at = pc[c].at /\ p.status = status /\ p.attempt = n
  BY <1>1, CallNumbers DEF IsPosition, IInv
<1>5. IsRequest(r)
  BY <1>2, CallNumbers DEF IsRequest, Request, IInv
<1>6. Typed' /\ pc'[c] = p
  BY <1>3, <1>4, <1>5 DEF IInv, Typed
<1>7. Grows
  <2>1. \A d \in Callers : \A k \in DOMAIN program[d] : Started(d, k) => Started(d, k)'
    BY <1>3, <1>4, <1>6, StartedGrows DEF IInv, Typed
  <2> QED BY <2>1 DEF Grows, Extends
<1>8. \A q \in net' : RequestOf(q)'
  <2>1. Accepted' = Accepted
    BY DEF Accepted
  <2>2. RequestOf(r)'
    BY <1>2, <1>4, <1>6, <1>7, NewRequest
  <2> QED BY <1>3, <1>7, <2>1, <2>2, RequestKept DEF IInv, Typed
<1>9. OwnInv'
  <2>1. \A d \in Callers : pc[d].at \in Nat /\ pc'[d].at \in Nat /\ pc[d].at <= pc'[d].at
    BY <1>3, <1>4, <1>6 DEF IInv, Typed, IsPosition
  <2> QED BY <2>1, OwnKept DEF IInv, Typed
<1>10. OneEntryEach'
  BY DEF IInv, OneEntryEach
<1>11. \A d \in Callers : d # c => pc'[d] = pc[d] /\ outcome'[d] = outcome[d]
  BY <1>3 DEF IInv, Typed
<1>12. CallerAt(c)'
  <2>1. PICK job : job = JobOf(c)
    OBVIOUS
  <2>2. program'[c][p.at] = job /\ DOMAIN program'[c] = DOMAIN program[c]
    BY <1>4, <2>1 DEF JobOf
  <2>3. Passed(job)' /\ (status = "sent" => Cleared(job.method)')
    <3>1. Passed(job)'
      BY <2>1, SameCalls
    <3>2. Cleared(method)'
      BY DEF Cleared, RpcIn
    <3> QED BY <2>1, <3>1, <3>2
  <2>4. p.at = Len(outcome[c]) + 1
    BY <1>4 DEF IInv, CallerAt
  <2> QED BY <1>4, <1>6, <2>1, <2>2, <2>3, <2>4 DEF CallerAt
<1> QED BY <1>6, <1>7, <1>8, <1>9, <1>10, <1>11, <1>12, CallerStep

\* A call is over, and what it ended with is true.
LEMMA FinishStep ==
    ASSUME IInv, NEW c \in Callers, NEW result, NEW n \in Nat, n <= Len(log), Finish(c, result, n),
           net' \subseteq net, CacheGrows, Extends(own, own'), Sequence(own'), OwnInv',
           UNCHANGED <<config, program, log, served, session, advertises, faults>>,
           pc[c].at \in DOMAIN program[c],
           IsSend(JobOf(c)) =>
                /\ result.kind = "returned" => JobOf(c).id \in Before(n)
                /\ result.kind = "MacpAckError" => JobOf(c).id \notin Before(n),
           IsHelper(JobOf(c)) /\ result = Returned => \E x \in DOMAIN own' : own'[x] = JobOf(c).id
    PROVE  IInv'
<1>1. PICK p : p = Idle(pc[c].at + 1)
  OBVIOUS
<1>2. PICK o : o = [end |-> result, asof |-> n]
  OBVIOUS
<1>3. pc' = [pc EXCEPT ![c] = p] /\ outcome' = [outcome EXCEPT ![c] = Append(outcome[c], o)]
  BY <1>1, <1>2 DEF Finish
<1>4. IsPosition(p) /\ p.at = pc[c].at + 1 /\ p.status = "idle"
  <2>1. pc[c].at + 1 \in Nat
    BY CallNumbers DEF IInv
  <2> QED BY <1>1, <2>1 DEF IsPosition, Idle
<1>5. pc'[c] = p /\ outcome'[c] = Append(outcome[c], o) /\ Sequence(outcome[c])
      /\ \A d \in Callers : d # c => pc'[d] = pc[d] /\ outcome'[d] = outcome[d]
  BY <1>3 DEF IInv, Typed
<1>6. /\ Sequence(outcome'[c]) /\ Len(outcome'[c]) = Len(outcome[c]) + 1
      /\ DOMAIN outcome'[c] = 1..Len(outcome[c]) + 1
      /\ DOMAIN outcome[c] = 1..Len(outcome[c]) /\ Len(outcome[c]) \in Nat
      /\ outcome'[c][Len(outcome[c]) + 1] = o
      /\ \A k \in DOMAIN outcome[c] : outcome'[c][k] = outcome[c][k]
  BY <1>5, AppendSequence, SequenceDomain
<1>7. \A k \in DOMAIN outcome'[c] : k \in DOMAIN outcome[c] \/ k = Len(outcome[c]) + 1
  BY <1>6
<1>8. pc[c].at = Len(outcome[c]) + 1
  BY DEF IInv, CallerAt
<1>9. Typed'
  <2>1. \A k \in DOMAIN outcome'[c] : outcome'[c][k].asof \in Nat
    BY <1>2, <1>6, <1>7 DEF IInv, Typed
  <2>2. DOMAIN outcome' = Callers /\ DOMAIN pc' = Callers
    BY <1>3 DEF IInv, Typed
  <2>3. \A d \in Callers : Sequence(outcome'[d]) /\ \A k \in DOMAIN outcome'[d] : outcome'[d][k].asof \in Nat
    BY <1>5, <1>6, <2>1 DEF IInv, Typed
  <2>4. \A d \in Callers : IsPosition(pc'[d])
    BY <1>4, <1>5 DEF IInv, Typed
  <2> QED BY <2>2, <2>3, <2>4 DEF IInv, Typed, CacheGrows
<1>10. Grows
  <2>1. \A d \in Callers : \A k \in DOMAIN program[d] : Started(d, k) => Started(d, k)'
    BY <1>4, <1>5, StartedGrows DEF IInv
  <2> QED BY <2>1 DEF Grows, CacheGrows, Extends
<1>11. \A r \in net' : RequestOf(r)'
  <2>1. Accepted' = Accepted
    BY DEF Accepted
  <2> QED BY <1>10, <2>1, RequestKept DEF IInv, Typed
<1>12. OneEntryEach'
  BY DEF IInv, OneEntryEach
<1>13. CallerAt(c)'
  BY <1>4, <1>5, <1>6, <1>8 DEF CallerAt
<1>14. \A k \in DOMAIN outcome'[c] :
            (k \in DOMAIN outcome[c] /\ outcome'[c][k] = outcome[c][k]) \/ EndingOf(c, k)'
  <2>1. PICK job : job = JobOf(c)
    OBVIOUS
  <2>2. PICK k : k = pc[c].at
    OBVIOUS
  <2>3. program'[c][k] = job /\ outcome'[c][k] = o /\ k \in DOMAIN program'[c]
    BY <1>6, <1>8, <2>1, <2>2 DEF JobOf
  <2>4. Before(n)' = Before(n) /\ o.asof = n /\ o.end = result
    BY <1>2 DEF Before
  <2>5. EndingOf(c, k)'
    BY <2>1, <2>3, <2>4 DEF EndingOf
  <2> QED BY <1>6, <1>7, <1>8, <2>2, <2>5
<1> QED BY <1>5, <1>9, <1>10, <1>11, <1>12, <1>13, <1>14, CallerStep

\* The local refusals, none of which a runtime gives.
LEMMA RefusalKinds ==
    ASSUME NEW job, NEW rpc
    PROVE  /\ Refusal(job, rpc) \in {"MacpSessionError", "MacpIdentityMismatchError", "MacpSdkError", "none"}
           /\ Refusal(job, rpc) = "none" /\ Builds(job, rpc) => ~Mismatch(SenderAuth(job), job.sender)
BY DEF Refusal, Builds

-----------------------------------------------------------------------------
\* The callers' steps.
LEMMA SendCall ==
    ASSUME Typed, NEW c \in Callers, pc[c].at \in DOMAIN program[c]
    PROVE  /\ JobOf(c) \in Jobs /\ JobOf(c).method \in Methods
           /\ JobOf(c).how = "retry" => IsSend(JobOf(c))
           /\ RpcFor(c) = RpcIn(JobOf(c).method)
           /\ IsSend(JobOf(c)) =>
                /\ RpcFor(c).answer = "send_ack" /\ RpcFor(c).errors = "send" /\ RpcFor(c).gate = "none"
<1>1. JobOf(c) \in Jobs /\ JobOf(c).method \in Methods
  BY CallNumbers DEF JobOf, Jobs
<1>2. RpcFor(c) = RpcIn(JobOf(c).method)
  BY DEF RpcFor, RpcIn
<1>3. JobOf(c).how = "retry" => IsSend(JobOf(c))
  <2>1. program \in Programs
    BY DEF Typed
  <2>2. \A p \in Programs : \A d \in Callers : \A k \in DOMAIN p[d] : p[d][k].how = "retry" => p[d][k].method = "send"
    BY CallsAssumption
  <2> QED BY <2>1, <2>2 DEF JobOf, IsSend
<1>4. IsSend(JobOf(c)) =>
        /\ RpcFor(c).answer = "send_ack" /\ RpcFor(c).errors = "send" /\ RpcFor(c).gate = "none"
  BY <1>1, RpcFacts DEF RpcFor, IsSend, SendMethods
<1> QED BY <1>1, <1>2, <1>3, <1>4

LEMMA InitializeCleared == Cleared("initialize")
BY RpcFacts, SomeMethods DEF Cleared, RpcIn, Read, Rpc

LEMMA OwnUntouched ==
    ASSUME Typed, UNCHANGED own PROVE Extends(own, own') /\ Sequence(own')
BY DEF Typed, Extends

\* A call that ends without an answer of the runtime.
LEMMA GiveUp ==
    ASSUME IInv, NEW c \in Callers, NEW result, Finish(c, result, 0), net' \subseteq net,
           UNCHANGED <<config, program, log, own, served, session, advertises, faults,
                       server_capabilities, heard>>,
           pc[c].at \in DOMAIN program[c],
           IsSend(JobOf(c)) => result.kind \notin {"returned", "MacpAckError"}
    PROVE  IInv'
<1>1. 0 <= Len(log) /\ 0 \in Nat
  BY SequenceDomain DEF IInv, Typed
<1>2. OwnInv'
  <2>1. \A d \in Callers : pc'[d].at = IF d = c THEN pc[d].at + 1 ELSE pc[d].at
    BY DEF IInv, Typed, Finish, Idle
  <2>2. \A d \in Callers : pc[d].at \in Nat
    BY CallNumbers DEF IInv
  <2>3. \A d \in Callers : pc[d].at \in Nat /\ pc'[d].at \in Nat /\ pc[d].at <= pc'[d].at
    BY <2>1, <2>2
  <2> QED BY <2>3, OwnKept DEF IInv, Typed
<1>3. IsSend(JobOf(c)) => result # Returned
  <2>1. Returned.kind = "returned"
    BY DEF Returned, Raised
  <2> QED BY <2>1
<1> QED BY <1>1, <1>2, <1>3, FinishStep, CacheKept, OwnUntouched DEF IInv, IsHelper

LEMMA BeginStep == ASSUME IInv, NEW c \in Callers, Begin(c) PROVE IInv'
<1> DEFINE refusal == Refusal(JobOf(c), RpcFor(c))
<1>1. pc[c].status = "idle" /\ pc[c].at \in DOMAIN program[c] /\ pc[c].at = Len(outcome[c]) + 1
  <2>1. Len(outcome[c]) \in Nat
    BY SequenceDomain DEF IInv, Typed
  <2>2. pc[c].at = Len(outcome[c]) + 1
    BY DEF IInv, CallerAt
  <2>3. pc[c].status = "idle" /\ pc[c].at <= Len(program[c])
    BY DEF Begin
  <2> QED BY <2>1, <2>2, <2>3, CallNumbers DEF IInv
<1>2. UNCHANGED <<config, program, log, session, advertises, server_capabilities, own, served, heard, faults>>
  BY DEF Begin, Fixed
<1>3. refusal = "none" => Passed(JobOf(c))
  BY SendCall, <1>1 DEF Passed, IInv
<1>4. CASE refusal # "none" /\ Finish(c, Raised(refusal, ""), 0) /\ UNCHANGED net
  <2>1. Raised(refusal, "").kind \notin {"returned", "MacpAckError"}
    BY RefusalKinds DEF Raised
  <2> QED BY <1>1, <1>2, <1>4, <2>1, GiveUp
<1>5. CASE refusal = "none" /\ RpcFor(c).gate = "none" /\ SendRequest(c, "sent", JobOf(c).method, 1) /\ UNCHANGED outcome
  <2>1. Cleared(JobOf(c).method)
    BY <1>1, <1>5, SendCall DEF Cleared, IInv
  <2> QED BY <1>1, <1>2, <1>3, <1>5, <2>1, SendStep
<1>6. CASE refusal = "none" /\ RpcFor(c).gate # "none" /\ SendRequest(c, "probing", "initialize", 1) /\ UNCHANGED outcome
  <2>1. ~IsSend(JobOf(c))
    BY <1>1, <1>6, SendCall DEF IInv
  <2> QED BY <1>1, <1>2, <1>3, <1>6, <2>1, SendStep, InitializeCleared
<1>7. CASE /\ refusal = "none" /\ RpcFor(c).gate # "none" /\ server_capabilities # Unknown
           /\ pc' = [pc EXCEPT ![c] = [status |-> "gate", at |-> pc[c].at, attempt |-> 1]]
           /\ UNCHANGED <<net, outcome>>
  <2>1. PICK p : p = [status |-> "gate", at |-> pc[c].at, attempt |-> 1]
    OBVIOUS
  <2>2. IsPosition(p) /\ p.at = pc[c].at /\ p.status = "gate" /\ pc'[c] = p
    BY <1>7, <2>1, CallNumbers DEF IsPosition, IInv, Typed
  <2>3. ~IsSend(JobOf(c))
    BY <1>1, <1>7, SendCall DEF IInv
  <2>4. CallerAt(c)'
    <3>1. PICK job : job = JobOf(c)
      OBVIOUS
    <3>2. program'[c][p.at] = job /\ p.at \in DOMAIN program'[c]
      BY <1>1, <1>2, <2>2, <3>1 DEF JobOf
    <3>3. Passed(job)'
      BY <1>2, <1>3, <1>7, <3>1, SameCalls
    <3> QED BY <1>1, <1>2, <1>7, <2>2, <2>3, <3>1, <3>2, <3>3 DEF CallerAt
  <2> QED BY <1>2, <1>7, <2>1, <2>2, <2>4, MoveStep, CacheKept DEF IInv, Typed
<1> QED BY <1>4, <1>5, <1>6, <1>7 DEF Begin

LEMMA GateStep == ASSUME IInv, NEW c \in Callers, Gate(c) PROVE IInv'
<1>1. /\ pc[c].status = "gate" /\ pc[c].at \in DOMAIN program[c] /\ Passed(JobOf(c)) /\ ~IsSend(JobOf(c))
      /\ server_capabilities # Unknown
  BY DEF Gate, IInv, CallerAt, JobOf
<1>2. UNCHANGED <<config, program, log, session, advertises, server_capabilities, own, served, heard, faults>>
  BY DEF Gate, Fixed
<1>3. CASE Advertised(server_capabilities, RpcFor(c)) /\ SendRequest(c, "sent", JobOf(c).method, 1) /\ UNCHANGED outcome
  <2>1. Cleared(JobOf(c).method)
    BY <1>1, <1>3, SendCall DEF Advertised, Cleared, IInv, Typed
  <2> QED BY <1>1, <1>2, <1>3, <2>1, SendStep
<1>4. CASE Finish(c, Raised("MacpSdkError", ""), 0) /\ UNCHANGED net
  BY <1>1, <1>2, <1>4, GiveUp
<1> QED BY <1>3, <1>4 DEF Gate

LEMMA ResendStep == ASSUME IInv, NEW c \in Callers, Resend(c) PROVE IInv'
<1>1. /\ pc[c].status = "backoff" /\ pc[c].at \in DOMAIN program[c] /\ Passed(JobOf(c))
      /\ JobOf(c).how = "retry"
  BY DEF Resend, IInv, CallerAt, JobOf
<1>2. UNCHANGED <<config, program, log, session, advertises, server_capabilities, own, outcome, served, heard, faults>>
      /\ SendRequest(c, "sent", JobOf(c).method, pc[c].attempt + 1)
  BY DEF Resend, Fixed
<1>3. Cleared(JobOf(c).method)
  BY <1>1, SendCall DEF Cleared, IInv
<1>4. pc[c].attempt + 1 \in Nat
  BY CallNumbers DEF IInv
<1> QED BY <1>1, <1>2, <1>3, <1>4, SendStep

LEMMA AbandonStep == ASSUME IInv, NEW c \in Callers, Abandon(c) PROVE IInv'
<1>1. pc[c].at \in DOMAIN program[c] /\ RpcFor(c).answer = "stream"
  BY DEF Abandon, IInv, CallerAt, JobOf
<1>2. ~IsSend(JobOf(c))
  BY <1>1, SendCall DEF IInv
<1>3. /\ UNCHANGED <<config, program, log, session, advertises, server_capabilities, own, served, heard, faults>>
      /\ net' \subseteq net /\ Finish(c, Returned, 0)
  BY DEF Abandon, Fixed
<1> QED BY <1>1, <1>2, <1>3, GiveUp

\* A caller gets an answer, from the runtime or from gRPC.
Answered(c, method, reply, n) ==
    [status |-> "answered", at |-> pc[c].at, attempt |-> pc[c].attempt,
     of |-> method, reply |-> reply, asof |-> n]

LEMMA AnsweredAt ==
    ASSUME IInv, Grows, NEW c \in Callers, pc[c].status \in Waiting, NEW p, pc'[c] = p,
           NEW method, NEW reply, IsReply(reply), NEW n \in Nat, n <= Len(log'),
           p = Answered(c, method, reply, n), outcome'[c] = outcome[c],
           NEW job, job = JobOf(c),
           method = "initialize" \/ (method = job.method /\ Cleared(method)),
           method = "initialize" /\ reply.form = "value" => "capabilities" \in DOMAIN reply,
           IsSend(job) => TrueReply(job, reply, n)'
    PROVE  CallerAt(c)' /\ IsPosition(p) /\ p.at = pc[c].at /\ p.status # "idle"
<1>1. /\ p.status = "answered" /\ p.at = pc[c].at /\ p.attempt = pc[c].attempt /\ p.of = method
      /\ p.reply = reply /\ p.asof = n
  BY DEF Answered
<1>2. IsPosition(p)
  BY <1>1, CallNumbers DEF Answered, IsPosition, IInv
<1>3. /\ pc[c].at \in DOMAIN program[c] /\ Passed(job) /\ pc[c].at = Len(outcome[c]) + 1
      /\ IsSend(job) /\ job.how # "retry" => pc[c].attempt = 1
  BY DEF IInv, CallerAt, Waiting, JobOf
<1>4. /\ program'[c][p.at] = job /\ p.at \in DOMAIN program'[c] /\ Passed(job)'
      /\ (method = "initialize" \/ Cleared(job.method)')
  <2>1. Passed(job)'
    BY <1>3, SameCalls DEF Grows
  <2>2. Cleared(job.method) => Cleared(job.method)'
    BY DEF Grows, Cleared, RpcIn
  <2> QED BY <1>1, <1>3, <2>1, <2>2 DEF Grows, JobOf
<1> QED BY <1>1, <1>2, <1>3, <1>4 DEF CallerAt

\* gRPC's own failures say nothing of history.
LEMMA FailsStep ==
    ASSUME IInv, NEW c \in Callers, NEW status \in {"UNAVAILABLE", "DEADLINE_EXCEEDED"},
           Fails(c, status), faults' \in 0..MaxFaults
    PROVE  IInv'
<1>1. PICK job : job = JobOf(c)
  OBVIOUS
<1>2. PICK method : method = IF pc[c].status = "probing" THEN "initialize" ELSE job.method
  OBVIOUS
<1>3. PICK reply : reply = Status(status, "")
  OBVIOUS
<1>4. PICK p : p = Answered(c, method, reply, Len(log))
  OBVIOUS
<1>5. pc[c].status \in Waiting /\ pc' = [pc EXCEPT ![c] = p] /\ net' \subseteq net
  BY <1>1, <1>2, <1>3, <1>4 DEF Fails, Answered
<1>6. UNCHANGED <<config, program, log, session, advertises, server_capabilities, own, outcome, served, heard>>
  BY DEF Fails, Fixed
<1>7. /\ reply.form = "status" /\ reply.status = status /\ reply.macp_code = ""
      /\ IsStatus(reply) /\ IsReply(reply)
  BY <1>3 DEF Status, IsStatus, IsReply
<1>9. pc'[c] = p /\ p.at = pc[c].at /\ p.status = "answered"
      /\ \A d \in Callers : d # c => pc'[d] = pc[d]
  BY <1>4, <1>5 DEF IInv, Typed, Answered
<1>10. Grows
  <2>1. \A d \in Callers : \A k \in DOMAIN program[d] : Started(d, k) => Started(d, k)'
    BY <1>6, <1>9, StartedGrows DEF IInv
  <2> QED BY <1>6, <2>1 DEF Grows, Extends
<1>11. method = "initialize" \/ (method = job.method /\ Cleared(method))
  BY <1>1, <1>2, <1>5 DEF IInv, CallerAt, JobOf, Waiting
<1>12. Len(log) \in Nat /\ Len(log) <= Len(log')
  BY <1>6, SequenceDomain DEF IInv, Typed
<1>14. PICK n : n = Len(log)
  OBVIOUS
<1>15. TrueReply(job, reply, n)'
  BY <1>7 DEF TrueReply
<1>16. CallerAt(c)' /\ IsPosition(p)
  BY <1>1, <1>4, <1>5, <1>6, <1>7, <1>9, <1>10, <1>11, <1>12, <1>14, <1>15, AnsweredAt
<1> QED BY <1>5, <1>6, <1>9, <1>16, MoveStep, CacheKept DEF IInv

LEMMA NetworkStep == ASSUME IInv, NEW c \in Callers, Network(c) PROVE IInv'
<1>1. CASE Break(c)
  <2>1. faults' \in 0..MaxFaults
    BY <1>1, CallsAssumption DEF Break, Fault, IInv, Typed
  <2> QED BY <1>1, <2>1, FailsStep DEF Break
<1>2. CASE Deadline(c)
  <2>1. faults' \in 0..MaxFaults
    BY <1>2 DEF Deadline, IInv, Typed
  <2> QED BY <1>2, <2>1, FailsStep DEF Deadline
<1> QED BY <1>1, <1>2, AbandonStep DEF Network

-----------------------------------------------------------------------------
\* A step that only changes what the runtime advertises, or nothing.
LEMMA QuietStep ==
    ASSUME IInv,
           UNCHANGED <<config, program, pc, net, log, session, server_capabilities, own, outcome, served, heard>>,
           advertises' \in CapabilitySets, faults' \in 0..MaxFaults
    PROVE  IInv'
<1>1. UNCHANGED <<config, program, pc, net, log, session, server_capabilities, own, outcome, served, heard>>
  OBVIOUS
<1>2. Typed'
  BY <1>1 DEF IInv, Typed
<1>3. Grows
  BY <1>1 DEF Grows, Extends, Started
<1>4. \A r \in net' : RequestOf(r)'
  <2>1. Accepted' = Accepted
    BY <1>1 DEF Accepted
  <2> QED BY <1>1, <1>3, <2>1, RequestKept DEF IInv, Typed
<1>5. OwnInv'
  <2>1. \A d \in Callers : pc[d].at \in Nat /\ pc'[d].at \in Nat /\ pc[d].at <= pc'[d].at
    BY <1>1, CallNumbers DEF IInv
  <2> QED BY <1>1, <2>1, OwnKept DEF IInv, Typed
<1>6. OneEntryEach'
  BY <1>1 DEF IInv, OneEntryEach
<1>7. \A c \in Callers : CallerAt(c)' /\ \A k \in DOMAIN outcome'[c] : EndingOf(c, k)'
  BY <1>1, <1>3, CallerKept, EndingKept DEF IInv
<1>8. \A i \in DOMAIN log' : EntryOf(log[i])'
  <2>1. SUFFICES ASSUME NEW i \in DOMAIN log PROVE EntryOf(log[i])'
    BY <1>1
  <2>2. PICK e : e = log[i]
    OBVIOUS
  <2>3. EntryOf(e)'
    BY <1>3, <2>2, EntryKept DEF IInv
  <2> QED BY <1>1, <2>2, <2>3
<1>9. \A m \in served' : Cleared(m)'
  BY <1>1 DEF IInv, Cleared, RpcIn
<1> QED BY <1>2, <1>4, <1>5, <1>6, <1>7, <1>8, <1>9 DEF IInv

LEMMA UpgradeStep == ASSUME IInv, Upgrade PROVE IInv'
<1>1. /\ UNCHANGED <<config, program, pc, net, log, session, server_capabilities, own, outcome, served, heard>>
      /\ advertises' \in CapabilitySets /\ faults' \in 0..MaxFaults
  BY CallsAssumption DEF Upgrade, Fault, Fixed, IInv, Typed
<1> QED BY <1>1, QuietStep

-----------------------------------------------------------------------------
\* What an answer to a send becomes.
LEMMA RaisedKind == ASSUME NEW kind, NEW code PROVE Raised(kind, code).kind = kind /\ Raised(kind, code).code = code
BY DEF Raised

LEMMA SendErrorKinds ==
    ASSUME NEW status, NEW code
    PROVE  /\ SendErrorFromRpc(status, code).kind \in {"MacpAckError", "MacpTransportError"}
           /\ SendErrorFromRpc(status, code).kind = "MacpAckError" =>
                code # "" \/ status \in {"ALREADY_EXISTS", "FAILED_PRECONDITION"}
           /\ code # "" =>
                /\ SendErrorFromRpc(status, code).kind = "MacpAckError"
                /\ SendErrorFromRpc(status, code).code = code
<1>0. PICK e : e = SendErrorFromRpc(status, code)
  OBVIOUS
<1>1. \/ e = Raised("MacpAckError", code) /\ code # ""
      \/ e = Raised("MacpAckError", "SESSION_ALREADY_EXISTS") /\ code = "" /\ status = "ALREADY_EXISTS"
      \/ e = Raised("MacpAckError", "POLICY_DENIED") /\ code = "" /\ status = "FAILED_PRECONDITION"
      \/ e = Raised("MacpTransportError", status) /\ code = ""
  BY <1>0 DEF SendErrorFromRpc, TransportErrorFromRpc
<1>2. \A x : e = Raised("MacpAckError", x) => e.kind = "MacpAckError" /\ e.code = x
  BY DEF Raised
<1>3. \A x : e = Raised("MacpTransportError", x) => e.kind = "MacpTransportError"
  BY DEF Raised
<1> QED BY <1>0, <1>1, <1>2, <1>3

LEMMA SendResult ==
    ASSUME NEW rpc, rpc.answer = "send_ack", rpc.errors = "send", NEW reply
    PROVE  /\ IsAck(reply) =>
                OfReply(rpc, reply) = IF reply.duplicate \/ reply.ok THEN Returned ELSE Raised("MacpAckError", reply.code)
           /\ IsStatus(reply) => OfReply(rpc, reply) = SendErrorFromRpc(reply.status, reply.macp_code)
<1>1. IsAck(reply) => OfReply(rpc, reply) = SendAckOrRaise(reply)
  BY DEF IsAck, OfReply
<1>2. IsStatus(reply) => OfReply(rpc, reply) = SendErrorFromRpc(reply.status, reply.macp_code)
  BY DEF IsStatus, OfReply
<1>3. IsAck(reply) => SendAckOrRaise(reply) =
        IF reply.duplicate \/ reply.ok THEN Returned ELSE Raised("MacpAckError", reply.code)
  BY DEF IsAck, SendAckOrRaise, AckOrRaise
<1> QED BY <1>1, <1>2, <1>3

LEMMA SendTold ==
    ASSUME NEW rpc, rpc.answer = "send_ack", rpc.errors = "send", NEW job, NEW reply, NEW n,
           TrueReply(job, reply, n)
    PROVE  /\ OfReply(rpc, reply).kind = "returned" => job.id \in Before(n)
           /\ OfReply(rpc, reply).kind = "MacpAckError" => job.id \notin Before(n)
           /\ OfReply(rpc, reply) = Returned /\ job.how # "retry" => reply.form = "ack" /\ reply.ok
<1>1. CASE IsAck(reply)
  <2>1. reply.form = "ack" /\ reply.ok \in BOOLEAN /\ reply.duplicate \in BOOLEAN
    BY <1>1 DEF IsAck
  <2>2. Returned.kind = "returned" /\ Raised("MacpAckError", reply.code).kind = "MacpAckError"
    BY RaisedKind DEF Returned
  <2>3. CASE reply.duplicate \/ reply.ok
    BY <1>1, <2>1, <2>2, <2>3, SendResult DEF TrueReply
  <2>4. CASE ~reply.duplicate /\ ~reply.ok
    BY <1>1, <2>1, <2>2, <2>4, SendResult DEF TrueReply
  <2> QED BY <2>3, <2>4
<1>2. CASE IsStatus(reply)
  <2>1. PICK status, code : status = reply.status /\ code = reply.macp_code
    OBVIOUS
  <2>2. OfReply(rpc, reply) = SendErrorFromRpc(status, code)
    BY <1>2, <2>1, SendResult
  <2>3. /\ SendErrorFromRpc(status, code).kind \in {"MacpAckError", "MacpTransportError"}
        /\ SendErrorFromRpc(status, code).kind = "MacpAckError" =>
                code # "" \/ status \in {"ALREADY_EXISTS", "FAILED_PRECONDITION"}
    BY SendErrorKinds
  <2>4. Returned.kind = "returned" /\ reply.form = "status"
    BY <1>2, RaisedKind DEF Returned, IsStatus
  <2>5. OfReply(rpc, reply).kind # "returned" /\ OfReply(rpc, reply) # Returned
    BY <2>2, <2>3, <2>4
  <2> QED BY <2>1, <2>2, <2>3, <2>4, <2>5 DEF TrueReply
<1> QED BY <1>1, <1>2 DEF TrueReply

\* What a helper sent joins the projection.
LEMMA OwnAppend ==
    ASSUME IInv, NEW c \in Callers, pc[c].at \in DOMAIN program[c], NEW job, job = JobOf(c),
           IsHelper(job), job.id \in Accepted, own' = Append(own, job.id), log' = log, program' = program,
           pc'[c].at = pc[c].at + 1, \A d \in Callers : d # c => pc'[d] = pc[d]
    PROVE  OwnInv'
<1>1. PICK at : at = pc[c].at
  OBVIOUS
<1>2. at \in DOMAIN program[c] /\ job = program[c][at] /\ at \in Nat /\ pc'[c].at = at + 1
  BY <1>1, CallNumbers DEF JobOf, IInv
<1>3. /\ Len(own) \in Nat /\ DOMAIN own = 1..Len(own) /\ DOMAIN own' = 1..Len(own) + 1
      /\ own'[Len(own) + 1] = job.id /\ \A i \in DOMAIN own : own'[i] = own[i]
  BY AppendSequence, SequenceDomain DEF IInv, Typed
<1>4. ASSUME NEW i \in DOMAIN own, NEW k \in DOMAIN program[c], own[i] = program[c][k].id PROVE k < at
  <2>1. OwnOf(own[i])
    BY DEF IInv, OwnInv
  <2>2. PICK d \in Callers : \E l \in DOMAIN program[d] : l < pc[d].at /\ own[i] = program[d][l].id
    BY <2>1 DEF OwnOf
  <2>3. PICK l \in DOMAIN program[d] : l < pc[d].at /\ own[i] = program[d][l].id
    BY <2>2
  <2>4. program[c][k].id = program[d][l].id /\ Typed
    BY <1>4, <2>3 DEF IInv
  <2>5. d = c /\ l = k
    BY <2>4, OneCallEach
  <2> QED BY <1>1, <2>3, <2>5
<1>5. \A i \in DOMAIN own : own[i] # job.id
  BY <1>2, <1>4
<1>6. ASSUME NEW k \in DOMAIN program[c], program[c][k].id = job.id PROVE k = at
  BY <1>2, <1>6, OneCallEach DEF IInv
<1>7. \A i \in DOMAIN own' : OwnOf(own[i])'
  <2>1. ASSUME NEW i \in DOMAIN own PROVE OwnOf(own[i])'
    <3>1. PICK x : x = own[i]
      OBVIOUS
    <3>2. OwnOf(x)
      BY <3>1 DEF IInv, OwnInv
    <3>3. PICK d \in Callers : \E l \in DOMAIN program[d] :
            l < pc[d].at /\ IsHelper(program[d][l]) /\ x = program[d][l].id
      BY <3>2 DEF OwnOf
    <3>4. PICK l \in DOMAIN program[d] : l < pc[d].at /\ IsHelper(program[d][l]) /\ x = program[d][l].id
      BY <3>3
    <3>5. l \in Nat /\ pc[d].at \in Nat
      BY CallNumbers DEF IInv
    <3>6. l < pc'[d].at
      BY <1>1, <1>2, <3>4, <3>5
    <3>7. x \in Accepted'
      BY <3>2 DEF OwnOf, Accepted
    <3>8. OwnOf(x)'
      BY <3>4, <3>6, <3>7 DEF OwnOf
    <3> QED BY <1>3, <3>1, <3>8
  <2>2. OwnOf(job.id)'
    <3>1. job.id \in Accepted'
      BY DEF Accepted
    <3>2. at < pc'[c].at /\ at \in DOMAIN program'[c] /\ program'[c][at] = job
      BY <1>2
    <3> QED BY <3>1, <3>2 DEF OwnOf
  <2> QED BY <1>3, <2>1, <2>2
<1>8. OneOwnEach'
  BY <1>3, <1>5 DEF IInv, OwnInv, OneOwnEach
<1>9. OwnOrder'
  <2>1. SUFFICES ASSUME NEW d \in Callers, NEW k \in DOMAIN program[d], NEW l \in DOMAIN program[d],
                        NEW i \in DOMAIN own', NEW j \in DOMAIN own',
                        k < l, own'[i] = program[d][k].id, own'[j] = program[d][l].id
                 PROVE  i < j
    BY DEF OwnOrder
  <2>2. CASE i \in DOMAIN own /\ j \in DOMAIN own
    BY <1>3, <2>1, <2>2 DEF IInv, OwnInv, OwnOrder
  <2>3. CASE i \in DOMAIN own /\ j = Len(own) + 1
    BY <1>3, <2>3
  <2>4. CASE i = Len(own) + 1
    <3>1. d = c /\ k = at
      BY <1>2, <1>3, <2>1, <2>4, OneCallEach DEF IInv
    <3>2. j \notin DOMAIN own
      BY <1>2, <1>3, <1>4, <2>1, <3>1, CallNumbers DEF IInv
    <3>3. program[d][l].id = job.id
      BY <1>3, <2>1, <3>2
    <3>4. l = at
      BY <1>6, <3>1, <3>3
    <3> QED BY <1>2, <2>1, <3>1, <3>4
  <2> QED BY <1>3, <2>2, <2>3, <2>4
<1>10. LogOrder'
  <2>1. SUFFICES ASSUME NEW d \in Callers, NEW k \in DOMAIN program[d], NEW l \in DOMAIN program[d],
                        NEW i \in DOMAIN log, NEW j \in DOMAIN log, NEW x \in DOMAIN own',
                        k < l, log[i].id = program[d][k].id, log[j].id = program[d][l].id,
                        own'[x] = program[d][k].id
                 PROVE  i < j
    BY DEF LogOrder
  <2>2. CASE x \in DOMAIN own
    BY <1>3, <2>1, <2>2 DEF IInv, OwnInv, LogOrder
  <2>3. CASE x = Len(own) + 1
    <3>1. d = c /\ k = at
      BY <1>2, <1>3, <2>1, <2>3, OneCallEach DEF IInv
    <3>2. program[d][l].id \in Accepted
      BY <2>1 DEF Accepted
    <3>3. Started(d, l)
      BY <3>2, AcceptedStarted
    <3> QED BY <1>1, <1>2, <2>1, <3>1, <3>3, CallNumbers DEF Started, IInv
  <2> QED BY <1>3, <2>2, <2>3
<1> QED BY <1>7, <1>8, <1>9, <1>10 DEF OwnInv

LEMMA ReplyFields ==
    ASSUME NEW reply, IsReply(reply)
    PROVE  /\ "capabilities" \in DOMAIN reply => reply.form = "value" /\ reply.capabilities \in CapabilitySets
           /\ "more" \in DOMAIN reply => reply.form = "value" /\ "capabilities" \notin DOMAIN reply
           /\ IsAck(reply) \/ IsStatus(reply) => reply.form # "value"
BY DEF IsReply, IsAck, IsStatus, IsValue, Ack, Status, Value

LEMMA RememberGrows ==
    ASSUME Typed, NEW reply, IsReply(reply), Remember(reply)
    PROVE  /\ CacheGrows
           /\ "capabilities" \in DOMAIN reply => server_capabilities' # Unknown
           /\ "capabilities" \notin DOMAIN reply => UNCHANGED <<server_capabilities, heard>>
<1>1. CASE "capabilities" \in DOMAIN reply
  <2>1. server_capabilities' = reply.capabilities /\ heard' = heard \cup reply.capabilities
    BY <1>1 DEF Remember
  <2>2. reply.capabilities \in CapabilitySets /\ reply.capabilities # Unknown
    BY <1>1, ReplyFields, CallsAssumption
  <2> QED BY <1>1, <2>1, <2>2 DEF CacheGrows
<1>2. CASE "capabilities" \notin DOMAIN reply
  <2>1. UNCHANGED <<server_capabilities, heard>>
    BY <1>2 DEF Remember
  <2> QED BY <1>2, <2>1, CacheKept
<1> QED BY <1>1, <1>2

LEMMA ReturnStep == ASSUME IInv, NEW c \in Callers, Return(c) PROVE IInv'
<1>1. PICK job : job = JobOf(c)
  OBVIOUS
<1>2. PICK p : p = pc[c]
  OBVIOUS
<1>3. PICK reply : reply = p.reply
  OBVIOUS
<1>4. PICK result : result = OfReply(RpcFor(c), reply)
  OBVIOUS
<1>5. /\ p.status = "answered" /\ IsPosition(p) /\ IsReply(reply) /\ p.asof \in Nat /\ p.at \in Nat /\ p.attempt \in Nat
  BY <1>2, <1>3 DEF Return, IInv, Typed, IsPosition
<1>6. /\ p.at \in DOMAIN program[c] /\ Passed(job) /\ p.asof <= Len(log)
      /\ p.of = "initialize" \/ Cleared(job.method)
      /\ p.of = "initialize" /\ reply.form = "value" => "capabilities" \in DOMAIN reply
      /\ IsSend(job) => TrueReply(job, reply, p.asof)
      /\ IsSend(job) /\ job.how # "retry" => p.attempt = 1
      /\ p.at = Len(outcome[c]) + 1
  <2>1. CallerAt(c)
    BY DEF IInv
  <2> QED BY <1>1, <1>2, <1>3, <1>5, <2>1 DEF CallerAt, JobOf
<1>7. UNCHANGED <<config, program, log, session, advertises, served, faults>>
      /\ Remember(reply) /\ own' = TrackAck(job, result, reply)
  BY <1>1, <1>2, <1>3, <1>4 DEF Return, Fixed
<1>8. /\ CacheGrows
      /\ "capabilities" \in DOMAIN reply => server_capabilities' # Unknown
      /\ "capabilities" \notin DOMAIN reply => UNCHANGED <<server_capabilities, heard>>
  BY <1>5, <1>7, RememberGrows DEF IInv
<1>9. /\ job.how = "retry" => IsSend(job)
      /\ IsSend(job) => RpcFor(c).answer = "send_ack" /\ RpcFor(c).errors = "send" /\ RpcFor(c).gate = "none"
      /\ RpcFor(c) = RpcIn(job.method)
  BY <1>1, <1>2, <1>6, SendCall DEF IInv
<1>10. IsSend(job) => reply.form # "value"
  BY <1>5, <1>6, ReplyFields DEF TrueReply
<1>11. ~IsHelper(job) => own' = own
  BY <1>7 DEF TrackAck, IsHelper
<1>12. CASE /\ p.of = "initialize" /\ RpcFor(c).gate # "none" /\ reply.form = "value"
            /\ pc' = [pc EXCEPT ![c] = [status |-> "gate", at |-> pc[c].at, attempt |-> 1]]
            /\ UNCHANGED <<net, outcome>>
  <2>1. PICK q : q = [status |-> "gate", at |-> p.at, attempt |-> 1]
    OBVIOUS
  <2>2. IsPosition(q) /\ q.at = p.at /\ q.status = "gate" /\ pc'[c] = q
    BY <1>2, <1>5, <1>12, <2>1 DEF IsPosition, IInv, Typed
  <2>3. ~IsSend(job) /\ own' = own
    BY <1>9, <1>11, <1>12 DEF IsHelper
  <2>4. CallerAt(c)'
    <3>1. program'[c][q.at] = job /\ q.at \in DOMAIN program'[c]
      BY <1>1, <1>2, <1>6, <1>7, <2>2 DEF JobOf
    <3>2. Passed(job)' /\ server_capabilities' # Unknown
      BY <1>6, <1>7, <1>8, <1>12, SameCalls
    <3> QED BY <1>6, <1>12, <2>2, <2>3, <3>1, <3>2 DEF CallerAt
  <2> QED BY <1>2, <1>7, <1>8, <1>12, <2>1, <2>2, <2>3, <2>4, MoveStep DEF IInv, Typed
<1>13. CASE HasMore(reply) /\ SendRequest(c, "sent", job.method, p.attempt + 1) /\ UNCHANGED outcome
  <2>1. reply.form = "value" /\ "capabilities" \notin DOMAIN reply
    BY <1>5, <1>13, ReplyFields DEF HasMore
  <2>2. ~IsSend(job) /\ own' = own /\ Cleared(job.method) /\ UNCHANGED <<server_capabilities, heard>>
    BY <1>6, <1>8, <1>10, <1>11, <2>1 DEF IsHelper
  <2>3. p.attempt + 1 \in Nat
    BY <1>5
  <2> QED BY <1>1, <1>2, <1>6, <1>7, <1>13, <2>2, <2>3, SendStep
<1>14. CASE Finish(c, result, p.asof) /\ UNCHANGED net
  <2>1. IsSend(job) =>
            /\ result.kind = "returned" => job.id \in Before(p.asof)
            /\ result.kind = "MacpAckError" => job.id \notin Before(p.asof)
            /\ result = Returned /\ job.how # "retry" => reply.form = "ack" /\ reply.ok
    BY <1>4, <1>6, <1>9, SendTold
  <2>2. pc'[c].at = pc[c].at + 1 /\ \A d \in Callers : d # c => pc'[d] = pc[d]
    BY <1>14 DEF Finish, Idle, IInv, Typed
  <2>3. CASE IsHelper(job) /\ result = Returned /\ reply.ok
    <3>1. own' = Append(own, job.id)
      BY <1>7, <2>3 DEF TrackAck, IsHelper
    <3>2. job.id \in Accepted
      <4>1. job.id \in Before(p.asof)
        BY <2>1, <2>3, RaisedKind DEF IsHelper, Returned
      <4>2. \A i \in 1..p.asof : i \in DOMAIN log
        BY <1>5, <1>6, SequenceDomain DEF IInv, Typed
      <4> QED BY <4>1, <4>2 DEF Before, Accepted
    <3>3. OwnInv'
      BY <1>1, <1>2, <1>6, <1>7, <2>2, <2>3, <3>1, <3>2, OwnAppend
    <3>4. /\ Sequence(own') /\ Extends(own, own')
          /\ \E x \in DOMAIN own' : own'[x] = job.id
      <4>1. /\ Sequence(own') /\ DOMAIN own' = 1..Len(own) + 1 /\ own'[Len(own) + 1] = job.id /\ Len(own) \in Nat
        BY <3>1, AppendSequence, SequenceDomain DEF IInv, Typed
      <4>2. Len(own) + 1 \in DOMAIN own'
        BY <4>1
      <4> QED BY <3>1, <4>1, <4>2 DEF Extends
    <3> QED BY <1>1, <1>2, <1>5, <1>6, <1>7, <1>8, <1>14, <2>1, <3>3, <3>4, FinishStep
  <2>4. CASE ~(IsHelper(job) /\ result = Returned /\ reply.ok)
    <3>1. own' = own
      BY <1>7, <2>4 DEF TrackAck, IsHelper
    <3>2. ~(IsHelper(job) /\ result = Returned)
      BY <2>1, <2>4 DEF IsHelper
    <3>3. OwnInv'
      <4>1. \A d \in Callers : pc[d].at \in Nat
        BY CallNumbers DEF IInv
      <4>2. \A d \in Callers : pc[d].at \in Nat /\ pc'[d].at \in Nat /\ pc[d].at <= pc'[d].at
        BY <2>2, <4>1
      <4> QED BY <1>7, <3>1, <4>2, OwnKept DEF IInv, Typed
    <3>4. Sequence(own') /\ Extends(own, own')
      BY <3>1, OwnUntouched DEF IInv
    <3> QED BY <1>1, <1>2, <1>5, <1>6, <1>7, <1>8, <1>14, <2>1, <3>2, <3>3, <3>4, FinishStep
  <2> QED BY <2>3, <2>4
<1>15. CASE job.how = "retry" /\ Finish(c, Raised("MacpRetryError", ""), p.asof) /\ UNCHANGED net
  <2>1. own' = own /\ ~IsHelper(job)
    BY <1>11, <1>15 DEF IsHelper
  <2>2. Raised("MacpRetryError", "").kind = "MacpRetryError"
    BY RaisedKind
  <2>3. \A d \in Callers : pc[d].at \in Nat /\ pc'[d].at \in Nat /\ pc[d].at <= pc'[d].at
    <3>1. \A d \in Callers : pc[d].at \in Nat
      BY CallNumbers DEF IInv
    <3>2. \A d \in Callers : pc'[d].at = IF d = c THEN pc[d].at + 1 ELSE pc[d].at
      BY <1>15 DEF Finish, Idle, IInv, Typed
    <3> QED BY <3>1, <3>2
  <2>4. OwnInv'
    BY <1>7, <2>1, <2>3, OwnKept DEF IInv, Typed
  <2>5. Sequence(own') /\ Extends(own, own')
    BY <2>1, OwnUntouched DEF IInv
  <2> QED BY <1>1, <1>2, <1>5, <1>6, <1>7, <1>8, <1>15, <2>1, <2>2, <2>4, <2>5, FinishStep
<1>16. CASE /\ job.how = "retry" /\ Retryable(result)
            /\ pc' = [pc EXCEPT ![c].status = "backoff"] /\ UNCHANGED <<net, outcome>>
  <2>1. PICK q : q = [p EXCEPT !.status = "backoff"]
    OBVIOUS
  <2>2. /\ pc' = [pc EXCEPT ![c] = q] /\ pc'[c] = q
    BY <1>2, <1>16, <2>1 DEF IInv, Typed
  <2>3. /\ q.status = "backoff" /\ q.at = p.at /\ q.attempt = p.attempt /\ q.of = p.of
        /\ q.reply = reply /\ q.asof = p.asof
        /\ q = [status |-> "backoff", at |-> p.at, attempt |-> p.attempt, of |-> p.of, reply |-> reply, asof |-> p.asof]
    BY <1>3, <1>5, <2>1 DEF IsPosition
  <2>4. IsPosition(q)
    BY <1>5, <2>3 DEF IsPosition
  <2>5. own' = own
    BY <1>11, <1>16 DEF IsHelper
  <2>6. CallerAt(c)'
    <3>1. program'[c][q.at] = job /\ q.at \in DOMAIN program'[c]
      BY <1>1, <1>2, <1>6, <1>7, <2>3 DEF JobOf
    <3>2. Passed(job)' /\ RpcIn(job.method)' = RpcIn(job.method) /\ IsSend(job)
      BY <1>6, <1>7, <1>9, <1>16, SameCalls DEF RpcIn
    <3>3. Cleared(job.method)'
      BY <1>7, <1>9, <1>16 DEF Cleared, RpcIn
    <3>4. TrueReply(job, reply, p.asof)'
      BY <1>6, <1>7, <3>2 DEF TrueReply, Before
    <3>5. Retryable(OfReply(RpcIn(job.method), reply))'
      BY <1>4, <1>9, <1>16, <3>2
    <3> QED BY <1>5, <1>6, <1>7, <1>16, <2>2, <2>3, <3>1, <3>2, <3>3, <3>4, <3>5 DEF CallerAt
  <2> QED BY <1>2, <1>7, <1>8, <1>16, <2>2, <2>3, <2>4, <2>5, <2>6, MoveStep DEF IInv, Typed
<1> QED
  BY <1>1, <1>2, <1>3, <1>4, <1>12, <1>13, <1>14, <1>15, <1>16 DEF Return, AfterAnswer

-----------------------------------------------------------------------------
\* The runtime answers a request.
LEMMA ReplyForms ==
    /\ \A ok, duplicate \in BOOLEAN : \A code : IsAck(Ack(ok, duplicate, code)) /\ IsReply(Ack(ok, duplicate, code))
    /\ \A status, code : IsStatus(Status(status, code)) /\ IsReply(Status(status, code))
    /\ IsReply(Value) /\ Value.form = "value"
    /\ \A more \in BOOLEAN : IsReply([form |-> "value", more |-> more])
    /\ \A caps \in CapabilitySets : IsReply([form |-> "value", capabilities |-> caps])
<1>1. \A ok, duplicate \in BOOLEAN : \A code : IsAck(Ack(ok, duplicate, code))
  BY DEF Ack, IsAck
<1>2. \A status, code : IsStatus(Status(status, code))
  BY DEF Status, IsStatus
<1>3. Value.form = "value"
  BY DEF Value
<1>4. \A more \in BOOLEAN : IsValue([form |-> "value", more |-> more])
  BY DEF IsValue
<1>5. \A caps \in CapabilitySets : IsValue([form |-> "value", capabilities |-> caps])
  BY DEF IsValue
<1> QED BY <1>1, <1>2, <1>3, <1>4, <1>5 DEF IsReply, IsValue

\* What happens to history when the request r is served.
Accepts(r) ==
    \/ log' = log
    \/ /\ log' = Append(log, [id |-> r.id, sender |-> r.sender, token |-> r.token])
       /\ ~Known(r.id) /\ IsSend(program[r.by][r.at])

LEMMA AcceptedAfter ==
    ASSUME Sequence(log), NEW r, Accepts(r)
    PROVE  /\ Extends(log, log') /\ Sequence(log') /\ Len(log) <= Len(log') /\ Len(log') \in Nat
           /\ \A i \in DOMAIN log : i \in DOMAIN log' /\ log'[i] = log[i]
           /\ \A i \in DOMAIN log' :
                \/ i \in DOMAIN log
                \/ /\ i = Len(log) + 1 /\ ~Known(r.id) /\ IsSend(program[r.by][r.at])
                   /\ log'[i] = [id |-> r.id, sender |-> r.sender, token |-> r.token]
           /\ \A x \in Accepted' : x \in Accepted \/ (x = r.id /\ ~Known(r.id))
<1>1. Len(log) \in Nat /\ DOMAIN log = 1..Len(log)
  BY SequenceDomain
<1>2. CASE log' = log
  <2>1. Accepted' = Accepted
    BY <1>2 DEF Accepted
  <2> QED BY <1>1, <1>2, <2>1 DEF Extends
<1>3. CASE /\ log' = Append(log, [id |-> r.id, sender |-> r.sender, token |-> r.token])
           /\ ~Known(r.id) /\ IsSend(program[r.by][r.at])
  <2>1. PICK e : e = [id |-> r.id, sender |-> r.sender, token |-> r.token]
    OBVIOUS
  <2>2. /\ Sequence(log') /\ Len(log') = Len(log) + 1 /\ DOMAIN log' = 1..Len(log) + 1
        /\ log'[Len(log) + 1] = e /\ \A i \in DOMAIN log : log'[i] = log[i]
    BY <1>3, <2>1, AppendSequence
  <2>3. \A i \in DOMAIN log' : i \in DOMAIN log \/ i = Len(log) + 1
    BY <1>1, <2>2
  <2>4. \A x \in Accepted' : x \in Accepted \/ x = r.id
    <3>1. e.id = r.id
      BY <2>1
    <3> QED BY <2>2, <2>3, <3>1 DEF Accepted
  <2>5. Extends(log, log')
    BY <1>3 DEF Extends
  <2>8. Len(log) <= Len(log') /\ Len(log') \in Nat
    BY <1>1, <2>2
  <2>6. \A i \in DOMAIN log' : i \notin DOMAIN log => i = Len(log) + 1 /\ log'[i] = e
    BY <2>2, <2>3
  <2>7. \A i \in DOMAIN log : i \in DOMAIN log' /\ log'[i] = log[i]
    BY <1>1, <2>2
  <2> QED BY <1>3, <2>1, <2>2, <2>4, <2>5, <2>6, <2>7, <2>8
<1> QED BY <1>2, <1>3 DEF Accepts

LEMMA KnownAccepted == ASSUME NEW id PROVE Known(id) <=> id \in Accepted
BY DEF Known, Accepted

LEMMA OwnAfterServe ==
    ASSUME IInv, NEW r, Accepts(r), own' = own, program' = program,
           \A d \in Callers : pc'[d].at = pc[d].at
    PROVE  OwnInv'
<1>0. Sequence(log)
  BY DEF IInv, Typed
<1>1. \A i \in DOMAIN own' : OwnOf(own[i])'
  <2>1. SUFFICES ASSUME NEW i \in DOMAIN own PROVE OwnOf(own[i])'
    OBVIOUS
  <2>2. PICK x : x = own[i]
    OBVIOUS
  <2>3. OwnOf(x)
    BY <2>2 DEF IInv, OwnInv
  <2>4. x \in Accepted'
    BY <1>0, <2>3, AcceptedAfter, AcceptedKept DEF OwnOf
  <2>5. OwnOf(x)'
    BY <2>3, <2>4 DEF OwnOf
  <2> QED BY <2>2, <2>5
<1>2. OneOwnEach' /\ OwnOrder'
  BY DEF IInv, OwnInv, OneOwnEach, OwnOrder
<1>3. LogOrder'
  <2>1. SUFFICES ASSUME NEW d \in Callers, NEW k \in DOMAIN program[d], NEW l \in DOMAIN program[d],
                        NEW i \in DOMAIN log', NEW j \in DOMAIN log', NEW x \in DOMAIN own,
                        k < l, log'[i].id = program[d][k].id, log'[j].id = program[d][l].id,
                        own[x] = program[d][k].id
                 PROVE  i < j
    BY DEF LogOrder
  <2>2. Len(log) \in Nat /\ DOMAIN log = 1..Len(log)
    BY <1>0, SequenceDomain
  <2>3. i \in DOMAIN log
    <3>1. own[x] \in Accepted
      BY DEF IInv, OwnInv, OwnOf
    <3>2. ASSUME i \notin DOMAIN log PROVE FALSE
      <4>1. ~Known(r.id) /\ log'[i] = [id |-> r.id, sender |-> r.sender, token |-> r.token]
        BY <1>0, <3>2, AcceptedAfter
      <4>2. log'[i].id = r.id
        BY <4>1
      <4> QED BY <2>1, <3>1, <4>1, <4>2, KnownAccepted
    <3> QED BY <3>2
  <2>4. CASE j \in DOMAIN log
    <3>1. log'[i] = log[i] /\ log'[j] = log[j]
      BY <1>0, <2>3, <2>4, AcceptedAfter
    <3>2. LogOrder
      BY DEF IInv, OwnInv
    <3> QED BY <2>1, <2>3, <2>4, <3>1, <3>2 DEF LogOrder
  <2>5. CASE j \notin DOMAIN log
    <3>1. j = Len(log) + 1
      BY <1>0, <2>5, AcceptedAfter
    <3> QED BY <2>2, <2>3, <3>1
  <2> QED BY <2>4, <2>5
<1> QED BY <1>1, <1>2, <1>3 DEF OwnInv

LEMMA ServedStep ==
    ASSUME IInv, NEW r \in net, Accepts(r), NEW reply, IsReply(reply), Answer(r, reply),
           UNCHANGED <<config, program, advertises, server_capabilities, own, outcome, heard>>,
           session' \in {"open", "suspended", "ended"}, faults' \in 0..MaxFaults,
           NEW job, job = program[r.by][r.at],
           r.method = "initialize" /\ reply.form = "value" => "capabilities" \in DOMAIN reply,
           NEW n, n = Len(log'), IsSend(job) => TrueReply(job, reply, n)'
    PROVE  IInv'
<1>1. PICK c \in Callers : c = r.by
  BY DEF IInv, Typed, IsRequest
<1>2. /\ IsRequest(r) /\ RequestOf(r) /\ Sequence(log) /\ r.at \in DOMAIN program[c]
      /\ r.id = job.id /\ r.token = CallAuth(job).token /\ r.sender = SenderOn(job, RpcIn(job.method))
      /\ Started(c, r.at) /\ Passed(job) /\ Cleared(r.method)
      /\ r.method = "initialize" \/ r.method = job.method
  BY <1>1 DEF IInv, Typed, RequestOf, Started
<1>3. PICK p : p = Answered(c, r.method, reply, n)
  OBVIOUS
<1>4. /\ DOMAIN pc' = Callers /\ \A d \in Callers : d # c => pc'[d] = pc[d]
      /\ \/ pc'[c] = pc[c]
         \/ pc'[c] = p /\ pc[c].status \in Waiting /\ pc[c].at = r.at
  BY <1>1, <1>3 DEF Answer, Answered, IInv, Typed
<1>5. n \in Nat /\ Extends(log, log') /\ Sequence(log')
  BY <1>2, AcceptedAfter
<1>6. p.at = pc[c].at /\ p.status = "answered"
  BY <1>3 DEF Answered
<1>7. Grows
  <2>1. \A d \in Callers : \A k \in DOMAIN program[d] : Started(d, k) => Started(d, k)'
    BY <1>4, <1>6 DEF Started
  <2> QED BY <1>5, <2>1 DEF Grows, Extends
<1>8. CallerAt(c)' /\ IsPosition(pc'[c])
  <2>1. CASE pc'[c] = pc[c]
    BY <1>7, <2>1, CallerKept DEF IInv, Typed
  <2>2. CASE pc'[c] = p /\ pc[c].status \in Waiting /\ pc[c].at = r.at
    <3>1. job = JobOf(c)
      BY <1>1, <2>2 DEF JobOf
    <3>2. n <= Len(log')
      BY <1>5
    <3>3. r.method = "initialize" \/ (r.method = job.method /\ Cleared(r.method))
      BY <1>2
    <3> QED BY <1>3, <1>5, <1>7, <2>2, <3>1, <3>2, <3>3, AnsweredAt
  <2> QED BY <1>4, <2>1, <2>2
<1>9. Typed'
  <2>1. \A d \in Callers : IsPosition(pc'[d])
    BY <1>4, <1>8 DEF IInv, Typed
  <2>2. \A q \in net' : IsRequest(q)
    BY DEF Answer, IInv, Typed
  <2> QED BY <1>4, <1>5, <2>1, <2>2 DEF IInv, Typed
<1>10. \A q \in net' : RequestOf(q)'
  <2>1. SUFFICES ASSUME NEW q \in net, q # r PROVE RequestOf(q)'
    BY DEF Answer
  <2>2. IsRequest(q) /\ RequestOf(q)
    BY DEF IInv, Typed
  <2>3. CASE q.id \in Accepted' => q.id \in Accepted
    BY <1>7, <2>2, <2>3, RequestKept
  <2>4. CASE q.id \in Accepted' /\ q.id \notin Accepted
    <3>1. q.id = r.id /\ IsSend(job)
      BY <1>2, <2>4, AcceptedAfter DEF Accepts, Accepted
    <3>2. /\ q.by \in Callers /\ q.at \in DOMAIN program[q.by] /\ program[q.by][q.at].id = program[c][r.at].id
      BY <1>1, <1>2, <2>2, <3>1 DEF IsRequest, RequestOf, Started
    <3>3. q.by = c /\ q.at = r.at
      BY <1>2, <3>2, OneCallEach DEF IInv
    <3>4. q.method = r.method /\ q.sender = r.sender /\ q.token = r.token
      BY <1>1, <1>2, <2>2, <3>1, <3>3 DEF RequestOf
    <3>5. CASE job.how # "retry"
      <4>1. q.n = 1 /\ r.n = 1
        BY <1>1, <1>2, <2>2, <3>1, <3>3, <3>5 DEF RequestOf
      <4>2. q = r
        BY <1>1, <1>2, <2>2, <3>1, <3>3, <3>4, <4>1 DEF IsRequest
      <4> QED BY <2>1, <4>2
    <3>6. CASE job.how = "retry"
      <4>1. /\ program'[q.by][q.at] = job /\ Started(q.by, q.at)' /\ Passed(job)'
            /\ CallAuth(job)' = CallAuth(job)
            /\ SenderOn(job, RpcIn(job.method))' = SenderOn(job, RpcIn(job.method))
        BY <1>1, <1>2, <1>7, <3>3, SameCalls DEF Grows
      <4>2. Cleared(q.method)'
        BY <1>2, <3>4 DEF Cleared, RpcIn
      <4>3. /\ q.id = job.id /\ q.token = CallAuth(job).token /\ q.sender = SenderOn(job, RpcIn(job.method))
            /\ q.method \in {"initialize", job.method} /\ (IsSend(job) => q.method = job.method)
        BY <1>1, <2>2, <3>3 DEF RequestOf
      <4> QED BY <3>6, <4>1, <4>2, <4>3 DEF RequestOf
    <3> QED BY <3>5, <3>6
  <2> QED BY <2>3, <2>4
<1>11. \A i \in DOMAIN log' : i \in DOMAIN log \/ EntryOf(log[i])'
  <2>1. SUFFICES ASSUME NEW i \in DOMAIN log', i \notin DOMAIN log PROVE EntryOf(log[i])'
    OBVIOUS
  <2>2. PICK e : e = [id |-> r.id, sender |-> r.sender, token |-> r.token]
    OBVIOUS
  <2>3. log'[i] = e /\ IsSend(job)
    BY <1>2, <2>1, <2>2, AcceptedAfter
  <2>4. e.id = job.id /\ e.token = CallAuth(job).token /\ e.sender = SenderOn(job, RpcIn(job.method))
    BY <1>2, <2>2
  <2>5. EntryOf(e)
    BY <1>1, <1>2, <2>3, <2>4 DEF EntryOf
  <2>6. EntryOf(e)'
    BY <1>7, <2>5, EntryKept
  <2> QED BY <2>3, <2>6
<1>12. OneEntryEach'
  <2>1. SUFFICES ASSUME NEW i \in DOMAIN log', NEW j \in DOMAIN log', log'[i].id = log'[j].id PROVE i = j
    BY DEF OneEntryEach
  <2>2. \A k \in DOMAIN log' : k \notin DOMAIN log => k = Len(log) + 1 /\ log'[k].id = r.id /\ ~Known(r.id)
    <3>1. SUFFICES ASSUME NEW k \in DOMAIN log', k \notin DOMAIN log
                   PROVE  k = Len(log) + 1 /\ log'[k].id = r.id /\ ~Known(r.id)
      OBVIOUS
    <3>2. /\ k = Len(log) + 1 /\ ~Known(r.id)
          /\ log'[k] = [id |-> r.id, sender |-> r.sender, token |-> r.token]
      BY <1>2, <3>1, AcceptedAfter
    <3> QED BY <3>2
  <2>3. \A k \in DOMAIN log : log'[k] = log[k]
    BY <1>2, AcceptedAfter
  <2>4. CASE i \in DOMAIN log /\ j \in DOMAIN log
    BY <2>1, <2>3, <2>4 DEF IInv, OneEntryEach
  <2>5. CASE i \in DOMAIN log /\ j \notin DOMAIN log
    BY <2>1, <2>2, <2>3, <2>5 DEF Known
  <2>6. CASE i \notin DOMAIN log /\ j \in DOMAIN log
    BY <2>1, <2>2, <2>3, <2>6 DEF Known
  <2>7. CASE i \notin DOMAIN log /\ j \notin DOMAIN log
    BY <2>2, <2>7
  <2> QED BY <2>4, <2>5, <2>6, <2>7
<1>13. OwnInv'
  <2>1. \A d \in Callers : pc'[d].at = pc[d].at
    BY <1>4, <1>6
  <2> QED BY <2>1, OwnAfterServe
<1>14. \A m \in served' : m \in served \/ Cleared(m)'
  <2>1. Cleared(r.method)'
    BY <1>2 DEF Cleared, RpcIn
  <2>2. \A m \in served' : m \in served \/ m = r.method
    BY DEF Answer
  <2> QED BY <2>1, <2>2
<1> QED
  BY <1>4, <1>7, <1>8, <1>9, <1>10, <1>11, <1>12, <1>13, <1>14, CallerStep

LEMMA ServeSendStep ==
    ASSUME IInv, NEW r \in net, NEW job, job = program[r.by][r.at], ServeSend(r, job),
           UNCHANGED <<config, program, advertises, server_capabilities, own, outcome, heard>>
    PROVE  IInv'
<1>1. PICK n : n = Len(log')
  OBVIOUS
<1>2. /\ IsSend(job) /\ r.method = job.method /\ r.id = job.id /\ Sequence(log)
      /\ job.how # "retry" => r.id \notin Accepted
      /\ r.method # "initialize"
  <2>1. RequestOf(r) /\ Sequence(log)
    BY DEF IInv, Typed
  <2> QED BY <2>1 DEF RequestOf, ServeSend, IsSend
<1>3. /\ session \in {"open", "suspended", "ended"} /\ faults \in 0..MaxFaults
  BY DEF IInv, Typed
<1>4. ASSUME log' = log PROVE Before(n)' = Accepted
  <2>1. DOMAIN log = 1..n
    BY <1>1, <1>2, <1>4, SequenceDomain
  <2> QED BY <1>4, <2>1 DEF Before, Accepted
\* A refusal, or a transient one, of what is not known.
<1>5. ASSUME ~Known(r.id), log' = log, session' = session, faults' \in 0..MaxFaults,
             NEW code, NEW reply \in Refusals(code), Answer(r, reply)
      PROVE  IInv'
  <2>1. job.id \notin Before(n)'
    BY <1>2, <1>4, <1>5, KnownAccepted
  <2>2. IsReply(reply) /\ (IsAck(reply) \/ IsStatus(reply))
    BY <1>5, ReplyForms DEF Refusals
  <2>3. reply.form = "ack" => ~reply.ok /\ ~reply.duplicate
    <3>1. CASE reply = Ack(FALSE, FALSE, code)
      BY <3>1 DEF Ack
    <3>2. CASE reply # Ack(FALSE, FALSE, code)
      <4>1. \E x, y : reply = Status(x, y)
        BY <1>5, <3>2 DEF Refusals
      <4> QED BY <4>1 DEF Status
    <3> QED BY <3>1, <3>2
  <2>4. TrueReply(job, reply, n)'
    BY <2>1, <2>2, <2>3 DEF TrueReply
  <2>5. Accepts(r)
    BY <1>5 DEF Accepts
  <2> QED BY <1>1, <1>2, <1>3, <1>5, <2>2, <2>4, <2>5, ServedStep
<1>6. ASSUME Known(r.id), UNCHANGED <<log, session, faults>>, NEW ok \in BOOLEAN, Answer(r, Ack(ok, TRUE, ""))
      PROVE  IInv'
  <2>1. PICK reply : reply = Ack(ok, TRUE, "")
    OBVIOUS
  <2>2. reply.form = "ack" /\ reply.duplicate = TRUE /\ IsAck(reply) /\ IsReply(reply)
    BY <2>1, ReplyForms DEF Ack
  <2>6. job.id \in Accepted
    BY <1>2, <1>6, KnownAccepted
  <2>7. job.id \in Before(n)'
    BY <1>4, <1>6, <2>6
  <2>8. job.how = "retry"
    BY <1>2, <2>6
  <2>3. job.id \in Before(n)' /\ job.how = "retry"
    BY <2>7, <2>8
  <2>4. TrueReply(job, reply, n)'
    BY <2>2, <2>3 DEF TrueReply
  <2>5. Accepts(r)
    BY <1>6 DEF Accepts
  <2> QED BY <1>1, <1>2, <1>3, <1>6, <2>1, <2>2, <2>4, <2>5, ServedStep
<1>7. ASSUME ~Known(r.id), log' = Append(log, [id |-> r.id, sender |-> r.sender, token |-> r.token]),
             session' = (IF job.ends THEN "ended" ELSE session), Answer(r, Ack(TRUE, FALSE, "")), UNCHANGED faults
      PROVE  IInv'
  <2>1. PICK reply : reply = Ack(TRUE, FALSE, "")
    OBVIOUS
  <2>2. /\ reply.form = "ack" /\ reply.ok = TRUE /\ reply.duplicate = FALSE
        /\ IsAck(reply) /\ IsReply(reply)
    BY <2>1, ReplyForms DEF Ack
  <2>3. Accepts(r)
    BY <1>2, <1>7 DEF Accepts
  <2>4. PICK e : e = [id |-> r.id, sender |-> r.sender, token |-> r.token]
    OBVIOUS
  <2>5. log'[Len(log) + 1] = e /\ e.id = job.id /\ n = Len(log) + 1 /\ Len(log) \in Nat
    BY <1>1, <1>2, <1>7, <2>4, AppendSequence, SequenceDomain
  <2>6. log'[n].id = job.id /\ n \in 1..n
    BY <2>5
  <2>7. job.id \in Before(n)'
    BY <2>6 DEF Before
  <2>8. TrueReply(job, reply, n)'
    BY <2>2, <2>7 DEF TrueReply
  <2>9. session' \in {"open", "suspended", "ended"}
    BY <1>3, <1>7
  <2> QED BY <1>1, <1>2, <1>3, <1>7, <2>1, <2>2, <2>3, <2>8, <2>9, ServedStep
<1>8. faults' = faults \/ Fault => faults' \in 0..MaxFaults
  BY <1>3, CallsAssumption DEF Fault
<1> QED BY <1>5, <1>6, <1>7, <1>8 DEF ServeSend

LEMMA ServeOtherStep ==
    ASSUME IInv, NEW r \in net, NEW job, job = program[r.by][r.at], ServeOther(r, job),
           UNCHANGED <<config, program, advertises, server_capabilities, own, outcome, heard>>
    PROVE  IInv'
<1> DEFINE rpc == RpcOf(config.flavour, r.method)
<1>1. ~IsSend(job)
  <2>1. RequestOf(r)
    BY DEF IInv
  <2> QED BY <2>1 DEF RequestOf, ServeOther
<1>2. /\ session \in {"open", "suspended", "ended"} /\ faults' \in 0..MaxFaults /\ log' = log
      /\ advertises \in CapabilitySets
  BY DEF IInv, Typed, ServeOther
<1>3. r.method = "initialize" =>
        rpc.gate = "none" /\ rpc.answer = "reply" /\ rpc.errors = "raw"
  BY RpcFacts, SomeMethods DEF Read, Rpc
<1>4. session' \in {"open", "suspended", "ended"}
  <2>1. session' = session \/ session' = SessionAfter(r.method)
    BY DEF ServeOther
  <2>2. SessionAfter(r.method) \in {"open", "suspended", "ended"}
    BY <1>2 DEF SessionAfter
  <2> QED BY <1>2, <2>1, <2>2
<1>5. ASSUME NEW reply, IsReply(reply), Answer(r, reply),
             r.method = "initialize" /\ reply.form = "value" => "capabilities" \in DOMAIN reply
      PROVE  IInv'
  <2>1. PICK n : n = Len(log')
    OBVIOUS
  <2>2. Accepts(r)
    BY <1>2 DEF Accepts
  <2> QED BY <1>1, <1>2, <1>4, <1>5, <2>1, <2>2, ServedStep
<1>6. CASE r.method = "initialize" /\ Answer(r, [form |-> "value", capabilities |-> advertises])
  <2>1. PICK reply : reply = [form |-> "value", capabilities |-> advertises]
    OBVIOUS
  <2>2. IsReply(reply) /\ "capabilities" \in DOMAIN reply
    BY <1>2, <2>1, ReplyForms
  <2> QED BY <1>5, <1>6, <2>1, <2>2
<1>7. CASE /\ rpc.answer = "ack"
           /\ Answer(r, IF session' # session THEN Ack(TRUE, FALSE, "") ELSE Ack(FALSE, FALSE, "SESSION_NOT_OPEN"))
  <2>1. PICK reply : reply = IF session' # session THEN Ack(TRUE, FALSE, "") ELSE Ack(FALSE, FALSE, "SESSION_NOT_OPEN")
    OBVIOUS
  <2>2. IsReply(reply) /\ r.method # "initialize"
    BY <1>3, <1>7, <2>1, ReplyForms
  <2> QED BY <1>5, <1>7, <2>1, <2>2
<1>8. CASE rpc.gate # "none" /\ Answer(r, IF rpc.gate \in advertises THEN Value ELSE Status("UNIMPLEMENTED", ""))
  <2>1. PICK reply : reply = IF rpc.gate \in advertises THEN Value ELSE Status("UNIMPLEMENTED", "")
    OBVIOUS
  <2>2. IsReply(reply) /\ r.method # "initialize"
    BY <1>3, <1>8, <2>1, ReplyForms
  <2> QED BY <1>5, <1>8, <2>1, <2>2
<1>9. CASE rpc.errors = "registry" /\ \E reply \in {Value, Status("FAILED_PRECONDITION", "")} : Answer(r, reply)
  BY <1>3, <1>5, <1>9, ReplyForms
<1>10. CASE /\ r.method = "list_sessions"
            /\ \E more \in {m \in BOOLEAN : m => r.n < MaxPages} : Answer(r, [form |-> "value", more |-> more])
  BY <1>5, <1>10, ReplyForms
<1>11. CASE rpc.answer = "stream" /\ \E reply \in {Value, Status("RESOURCE_EXHAUSTED", "")} : Answer(r, reply)
  BY <1>3, <1>5, <1>11, ReplyForms
<1>12. CASE /\ r.method \notin {"initialize", "list_sessions"}
            /\ \E reply \in {Value, Status("NOT_FOUND", "")} : Answer(r, reply)
  BY <1>5, <1>12, ReplyForms
<1> QED BY <1>6, <1>7, <1>8, <1>9, <1>10, <1>11, <1>12 DEF ServeOther

LEMMA ServeStep == ASSUME IInv, NEW r \in net, Serve(r) PROVE IInv'
BY ServeSendStep, ServeOtherStep DEF Serve, Fixed

-----------------------------------------------------------------------------
LEMMA InitIInv == ASSUME Init PROVE IInv
<1>1. \A c \in Callers : pc[c] = Idle(1) /\ outcome[c] = <<>>
  BY DEF Init
<1>2. IsPosition(Idle(1)) /\ Idle(1).at = 1 /\ Idle(1).status = "idle"
  BY DEF Idle, IsPosition
<1>3. Sequence(<<>>) /\ Len(<<>>) = 0 /\ DOMAIN <<>> = {}
  BY EmptySequence
<1>4. Typed
  BY <1>1, <1>2, <1>3, CallsAssumption DEF Init, Typed
<1>5. \A c \in Callers : CallerAt(c)
  BY <1>1, <1>2, <1>3 DEF CallerAt
<1>6. OwnInv /\ OneEntryEach
  BY <1>3 DEF Init, OwnInv, OneEntryEach, OneOwnEach, OwnOrder, LogOrder
<1> QED BY <1>1, <1>3, <1>4, <1>5, <1>6 DEF Init, IInv

LEMMA StutterIInv == ASSUME IInv, UNCHANGED vars PROVE IInv'
<1>1. /\ UNCHANGED <<config, program, pc, net, log, session, server_capabilities, own, outcome, served, heard>>
      /\ advertises' \in CapabilitySets /\ faults' \in 0..MaxFaults
  BY DEF vars, IInv, Typed
<1> QED BY <1>1, QuietStep

LEMMA NextIInv == ASSUME IInv, [Next]_vars PROVE IInv'
<1>1. CASE \E c \in Callers : Step(c)
  BY <1>1, BeginStep, GateStep, ReturnStep, ResendStep DEF Step
<1>2. CASE \E c \in Callers : Network(c)
  BY <1>2, NetworkStep
<1>3. CASE \E r \in net : Serve(r)
  BY <1>3, ServeStep
<1>4. CASE Upgrade
  BY <1>4, UpgradeStep
<1>5. CASE UNCHANGED vars
  BY <1>5, StutterIInv
<1> QED BY <1>1, <1>2, <1>3, <1>4, <1>5 DEF Next

\* Whatever callers interleave, IInv holds: each caller stands where its request or
\* reply is, and what was answered, applied or cached rests on what was accepted or heard.
THEOREM Invariance == Spec => []IInv
BY InitIInv, NextIInv, PTL DEF Spec

-----------------------------------------------------------------------------
\* A finished call has one outcome, a caller is at the call after them, and a session
\* and a projection hold each envelope once (MacpClient's helpers, retry_send).
THEOREM TypeCorrect == Spec => []TypeOK
<1>1. IInv => TypeOK
  BY DEF IInv, Typed, CallerAt, OneEntryEach, OwnInv, OneOwnEach, TypeOK
<1> QED BY <1>1, Invariance, PTL

\* A send that returns was accepted before its answer was given, and one that raises
\* MacpAckError was not: duplicate acks, lost answers and retries included.
THEOREM OutcomesAreTrue == Spec => []OutcomeIsTrue
<1>1. IInv => OutcomeIsTrue
  BY DEF IInv, EndingOf, Before, OutcomeIsTrue, Finished
<1> QED BY <1>1, Invariance, PTL

\* The session's projection holds only accepted envelopes, every one whose helper has
\* returned, and those of one caller in the order of accepted history.
THEOREM OwnViewHolds == Spec => []OwnView
<1>1. ASSUME IInv PROVE OwnView
  <2>1. ToSet(own) = {own[i] : i \in DOMAIN own}
    BY DEF ToSet
  <2>2. ToSet(own) \subseteq Accepted
    BY <1>1, <2>1 DEF IInv, OwnInv, OwnOf
  <2>3. ASSUME NEW c \in Callers, NEW k \in Finished(c), program[c][k].how = "session", IsSend(program[c][k]),
               outcome[c][k].end = Returned
        PROVE  program[c][k].id \in ToSet(own)
    BY <1>1, <2>1, <2>3 DEF IInv, EndingOf, IsHelper, Finished
  <2> DEFINE At(s, x) == CHOOSE i \in DOMAIN s : s[i] = x
             ids == [i \in DOMAIN log |-> log[i].id]
  <2>4. ASSUME NEW c \in Callers, NEW k \in Finished(c), NEW l \in Finished(c), k < l,
               {program[c][k].id, program[c][l].id} \subseteq ToSet(own)
        PROVE  /\ At(own, program[c][k].id) < At(own, program[c][l].id)
               /\ At(ids, program[c][k].id) < At(ids, program[c][l].id)
    <3>0. PICK a, b : a = program[c][k].id /\ b = program[c][l].id
      OBVIOUS
    <3>1. k \in DOMAIN program[c] /\ l \in DOMAIN program[c]
      BY <1>1 DEF IInv, EndingOf, Finished
    <3>2. \A x \in {a, b} : At(own, x) \in DOMAIN own /\ own[At(own, x)] = x
      BY <2>1, <2>4, <3>0
    <3>3. At(own, a) < At(own, b)
      <4> HIDE DEF At
      <4> QED BY <1>1, <2>4, <3>0, <3>1, <3>2 DEF IInv, OwnInv, OwnOrder
    <3>4. \A x \in {a, b} : \E i \in DOMAIN ids : ids[i] = x
      BY <2>2, <2>4, <3>0 DEF Accepted
    <3>5. \A x \in {a, b} : At(ids, x) \in DOMAIN log /\ log[At(ids, x)].id = x
      BY <3>4
    <3>6. \E x \in DOMAIN own : own[x] = program[c][k].id
      BY <2>4, <3>0, <3>2
    <3>7. LogOrder
      BY <1>1 DEF IInv, OwnInv
    <3>8. At(ids, a) < At(ids, b)
      <4> HIDE DEF At, ids
      <4> QED BY <2>4, <3>0, <3>1, <3>5, <3>6, <3>7 DEF LogOrder
    <3> QED BY <3>0, <3>3, <3>8
  <2> QED BY <2>2, <2>3, <2>4 DEF OwnView
<1> QED BY <1>1, Invariance, PTL

\* retry_send never sends again what was answered for good.
THEOREM FinalAnswersEnd == Spec => []FinalAnswerEnds
<1>1. ASSUME IInv PROVE FinalAnswerEnds
  <2>1. SUFFICES ASSUME NEW c \in Callers, pc[c].status = "backoff", NEW reply, reply = pc[c].reply
                 PROVE  /\ reply.form = "ack" =>
                            ~reply.ok /\ ~reply.duplicate /\ reply.code \in {"RATE_LIMITED", "INTERNAL_ERROR"}
                        /\ reply.form = "status" => reply.macp_code \in {"", "RATE_LIMITED", "INTERNAL_ERROR"}
    BY DEF FinalAnswerEnds
  <2>2. PICK job : job = JobOf(c)
    OBVIOUS
  <2>3. PICK rpc : rpc = RpcIn(job.method)
    OBVIOUS
  <2>4. /\ pc[c].at \in DOMAIN program[c] /\ job.how = "retry" /\ Retryable(OfReply(rpc, reply))
        /\ IsSend(job) => TrueReply(job, reply, pc[c].asof)
    BY <1>1, <2>1, <2>2, <2>3 DEF IInv, CallerAt, JobOf
  <2>5. IsSend(job) /\ rpc.answer = "send_ack" /\ rpc.errors = "send"
    BY <1>1, <2>2, <2>3, <2>4, SendCall DEF IInv
  <2>6. IsAck(reply) \/ IsStatus(reply)
    BY <2>4, <2>5 DEF TrueReply
  <2>7. CASE IsAck(reply)
    <3>1. reply.form = "ack" /\ reply.ok \in BOOLEAN /\ reply.duplicate \in BOOLEAN
      BY <2>7 DEF IsAck
    <3>2. OfReply(rpc, reply) = IF reply.duplicate \/ reply.ok THEN Returned ELSE Raised("MacpAckError", reply.code)
      BY <2>5, <2>7, SendResult
    <3>3. ~Retryable(Returned)
      BY DEF Retryable, Returned, Raised
    <3>4. \A code : Retryable(Raised("MacpAckError", code)) => code \in {"RATE_LIMITED", "INTERNAL_ERROR"}
      BY DEF Retryable, Raised
    <3> QED BY <2>4, <3>1, <3>2, <3>3, <3>4
  <2>8. CASE IsStatus(reply)
    <3>1. PICK status, code : status = reply.status /\ code = reply.macp_code
      OBVIOUS
    <3>2. OfReply(rpc, reply) = SendErrorFromRpc(status, code) /\ reply.form = "status"
      BY <2>5, <2>8, <3>1, SendResult DEF IsStatus
    <3>3. code # "" => /\ SendErrorFromRpc(status, code).kind = "MacpAckError"
                       /\ SendErrorFromRpc(status, code).code = code
      BY SendErrorKinds
    <3>4. Retryable(SendErrorFromRpc(status, code))
      BY <2>4, <3>2
    <3>5. code \in {"", "RATE_LIMITED", "INTERNAL_ERROR"}
      BY <3>3, <3>4 DEF Retryable
    <3> QED BY <3>1, <3>2, <3>5
  <2> QED BY <2>6, <2>7, <2>8
<1> QED BY <1>1, Invariance, PTL

\* A gated RPC reaches a runtime only if an Initialize answer told this client of its
\* capability (_require_capability).
THEOREM GatedOnlyIfAdvertised == Spec => []GatedOnlyAdvertised
<1>1. IInv => GatedOnlyAdvertised
  BY DEF IInv, Cleared, RpcIn, GatedOnlyAdvertised
<1> QED BY <1>1, Invariance, PTL

\* What the SDK built and the runtime accepted carries the identity that its
\* credentials are pinned to (_sender_for, _resolve_sender).
THEOREM SendersAreIdentities == Spec => []SenderIsIdentity
<1>1. ASSUME IInv PROVE SenderIsIdentity
  <2>1. SUFFICES ASSUME NEW i \in DOMAIN log, NEW c \in Callers, NEW k \in DOMAIN program[c],
                        NEW job, job = program[c][k], NEW auth, auth = CallAuth(job), job.id = log[i].id,
                        Builds(job, RpcOf(config.flavour, job.method))
                 PROVE  /\ log[i].token = auth.token
                        /\ auth.expected_sender # "" => log[i].sender = auth.expected_sender
    BY DEF SenderIsIdentity
  <2>2. EntryOf(log[i]) /\ Typed
    BY <1>1 DEF IInv
  <2>3. PICK d \in Callers : \E l \in DOMAIN program[d] :
            /\ Passed(program[d][l]) /\ log[i].id = program[d][l].id
            /\ log[i].token = CallAuth(program[d][l]).token
            /\ log[i].sender = SenderOn(program[d][l], RpcIn(program[d][l].method))
    BY <2>2 DEF EntryOf
  <2>4. PICK l \in DOMAIN program[d] :
            /\ Passed(program[d][l]) /\ log[i].id = program[d][l].id
            /\ log[i].token = CallAuth(program[d][l]).token
            /\ log[i].sender = SenderOn(program[d][l], RpcIn(program[d][l].method))
    BY <2>3
  <2>5. program[c][k].id = program[d][l].id
    BY <2>1, <2>4
  <2>6. d = c /\ l = k
    BY <2>2, <2>5, OneCallEach
  <2>7. /\ Passed(job) /\ log[i].token = auth.token
        /\ log[i].sender = SenderOn(job, RpcIn(job.method))
    BY <2>1, <2>4, <2>6
  <2>8. SenderAuth(job) = auth
    BY <2>1 DEF SenderAuth, CallAuth, Selected
  <2>9. ~Mismatch(auth, job.sender)
    BY <2>1, <2>7, <2>8, RefusalKinds DEF Passed, RpcIn
  <2>10. log[i].sender = ResolveSender(auth, job.sender)
    BY <2>1, <2>7, <2>8 DEF SenderOn, RpcIn
  <2> QED BY <2>7, <2>9, <2>10 DEF Mismatch
<1> QED BY <1>1, Invariance, PTL
=============================================================================
