------------------------- MODULE ModeSessionsProofs -------------------------
(***************************************************************************)
(* Theorems about a session of any mode and the projection that follows    *)
(* it, for any envelopes, calls, rosters and policies.                     *)
(*                                                                         *)
(* The argument.  A call of apply_envelope changes nothing, or appends one *)
(* envelope of the session's mode that parsed and gives the view its       *)
(* effect (Enters).  The transcript and the gate are then plain; what the  *)
(* view holds follows from the transcript, mode by mode: in Decision,      *)
(* Quorum and Handoff each message about something known adds one to what  *)
(* is counted or one to the anomalies, so the two sums agree; in Task the  *)
(* slot and the assignees change together; in Proposal the newest accept   *)
(* of a sender is the one its entry names; in multi-round nothing moves    *)
(* after convergence.  What a handler does is stated first (the Effect     *)
(* lemmas), then what it keeps (the Keeps lemmas).                         *)
(***************************************************************************)
EXTENDS ModeSessions, FiniteSetTheorems, SequenceTheorems, TLAPS

Sequence(s) == s \in Seq({s[i] : i \in DOMAIN s})

\* A projection: its three parts, and the ids of exactly its transcript.
Shaped(p) ==
    /\ p = [transcript |-> p.transcript, seen |-> p.seen, view |-> p.view]
    /\ Sequence(p.transcript)
    /\ p.seen = {p.transcript[i].id : i \in {j \in DOMAIN p.transcript : p.transcript[j].id # NoId}}

\* What apply_envelope makes of p when it applies e, with the view w.
Entered(p, e, w) ==
    [transcript |-> Append(p.transcript, e), seen |-> p.seen \cup ({e.id} \ {NoId}), view |-> w]

\* u is t and one more entry.
Grown(t, e, u) ==
    /\ Len(t) \in Nat /\ DOMAIN t = 1..Len(t)
    /\ Len(u) = Len(t) + 1 /\ DOMAIN u = 1..Len(t) + 1
    /\ u[Len(t) + 1] = e /\ \A i \in 1..Len(t) : u[i] = t[i]

\* What a session's projection has applied: envelopes it may meet, of its mode and parsed.
Parsed(e) ==
    /\ mode = "decision" => ~Decision!Raises(e)
    /\ mode = "quorum" => ~Quorum!Raises(e)
    /\ mode = "task" => ~Task!Raises(e)
    /\ mode = "handoff" => ~Handoff!Raises(e)
    /\ mode = "proposal" => ~Proposal!Raises(e)
    /\ mode = "multi_round" => ~MultiRound!Raises(e)
Fits(e) == e \in Met(mode) /\ e.mode = mode /\ Parsed(e)

FeedInv ==
    /\ mode \in Modes /\ obedient \in BOOLEAN /\ policy \in Policies \cup {Unbound}
    /\ Shaped(proj) /\ Len(proj.transcript) <= Bound(mode)
    /\ \A i \in DOMAIN proj.transcript : Fits(proj.transcript[i])

-----------------------------------------------------------------------------
\* Sequences that keep what they hold.
LEMMA AppendSequence ==
    ASSUME NEW s, Sequence(s), NEW x
    PROVE  Sequence(Append(s, x)) /\ Grown(s, x, Append(s, x))
<1> DEFINE S == {s[i] : i \in DOMAIN s} \cup {x}
           t == Append(s, x)
<1>1. s \in Seq(S)
  <2>1. s \in Seq({s[i] : i \in DOMAIN s})
    BY DEF Sequence
  <2>2. DOMAIN s = 1..Len(s) /\ Len(s) \in Nat /\ s = [i \in 1..Len(s) |-> s[i]]
    BY <2>1
  <2>3. \A i \in 1..Len(s) : s[i] \in S
    BY <2>2
  <2> HIDE DEF S
  <2> QED BY <2>2, <2>3, IsASeq
<1>2. x \in S
  OBVIOUS
<1>3. /\ t \in Seq(S) /\ Len(t) = Len(s) + 1 /\ DOMAIN t = 1..Len(t) /\ t[Len(s) + 1] = x
      /\ \A i \in 1..Len(s) : t[i] = s[i]
      /\ Len(s) \in Nat /\ DOMAIN s = 1..Len(s)
  <2> HIDE DEF S
  <2> QED BY <1>1, <1>2
<1>4. t \in Seq({t[i] : i \in DOMAIN t})
  <2>1. t = [i \in 1..Len(t) |-> t[i]] /\ Len(t) \in Nat /\ DOMAIN t = 1..Len(t)
    <3> HIDE DEF S, t
    <3> QED BY <1>3
  <2>2. \A i \in 1..Len(t) : t[i] \in {t[j] : j \in DOMAIN t}
    BY <2>1
  <2> HIDE DEF t
  <2> QED BY <2>1, <2>2, IsASeq
<1> QED BY <1>3, <1>4 DEF Sequence, Grown

LEMMA ShorterAgain ==
    ASSUME NEW s, Sequence(s), NEW x
    PROVE  SubSeq(Append(s, x), 1, Len(Append(s, x)) - 1) = s
<1> PICK S : S = {s[i] : i \in DOMAIN s} \cup {x}
  OBVIOUS
<1>1. s \in Seq(S)
  <2>1. s \in Seq({s[i] : i \in DOMAIN s})
    BY DEF Sequence
  <2>2. DOMAIN s = 1..Len(s) /\ Len(s) \in Nat /\ s = [i \in 1..Len(s) |-> s[i]]
    BY <2>1
  <2>3. \A i \in 1..Len(s) : s[i] \in S
    BY <2>2
  <2> QED BY <2>2, <2>3, IsASeq
<1>2. x \in S
  OBVIOUS
<1> QED BY <1>1, <1>2

LEMMA MemberSequence ==
    ASSUME NEW s, Sequence(s), NEW S, \A i \in DOMAIN s : s[i] \in S
    PROVE  s \in Seq(S)
<1>1. s \in Seq({s[i] : i \in DOMAIN s})
  BY DEF Sequence
<1>2. DOMAIN s = 1..Len(s) /\ Len(s) \in Nat /\ s = [i \in 1..Len(s) |-> s[i]]
  BY <1>1
<1> QED BY <1>2, IsASeq

\* Undoing the entry of an envelope whose id was new leaves no trace.
LEMMA Undone ==
    ASSUME NEW p, Shaped(p), NEW e, e.id = NoId \/ e.id \notin p.seen
    PROVE  [transcript |-> SubSeq(Append(p.transcript, e), 1, Len(Append(p.transcript, e)) - 1),
            seen |-> (p.seen \cup ({e.id} \ {NoId})) \ {e.id},
            view |-> p.view] = p
<1>1. SubSeq(Append(p.transcript, e), 1, Len(Append(p.transcript, e)) - 1) = p.transcript
  BY ShorterAgain DEF Shaped
<1>2. NoId \notin p.seen
  BY DEF Shaped
<1>3. (p.seen \cup ({e.id} \ {NoId})) \ {e.id} = p.seen
  BY <1>2
<1> QED BY <1>1, <1>3 DEF Shaped

LEMMA EnteredShaped ==
    ASSUME NEW p, Shaped(p), NEW e, NEW w, NEW q, q = Entered(p, e, w)
    PROVE  /\ Shaped(q) /\ q.view = w /\ q.transcript = Append(p.transcript, e)
           /\ Grown(p.transcript, e, q.transcript) /\ q # p
<1>1. /\ q = [transcript |-> q.transcript, seen |-> q.seen, view |-> q.view]
      /\ q.transcript = Append(p.transcript, e) /\ q.view = w
      /\ q.seen = p.seen \cup ({e.id} \ {NoId})
  BY DEF Entered
<1>2. Sequence(q.transcript) /\ Grown(p.transcript, e, q.transcript)
  BY <1>1, AppendSequence DEF Shaped
<1>3. q.seen = {q.transcript[i].id : i \in {j \in DOMAIN q.transcript : q.transcript[j].id # NoId}}
  BY <1>1, <1>2 DEF Shaped, Grown
<1>4. q # p
  BY <1>2 DEF Grown
<1> QED BY <1>1, <1>2, <1>3, <1>4 DEF Shaped

-----------------------------------------------------------------------------
\* apply_envelope, in each mode: nothing, or the entry with its effect.
LEMMA DecisionApplies ==
    ASSUME NEW p, Shaped(p), NEW e, NEW q, q = Decision!ApplyEnvelope(p, e)
    PROVE  \/ q = p
           \/ e.mode = "decision" /\ ~Decision!Raises(e) /\ q = Entered(p, e, Decision!Effect(p.view, e))
<1>1. CASE Decision!Ignored(p, e)
  BY <1>1 DEF Decision!ApplyEnvelope, Decision!Apply, Decision!ApplyFails
<1>2. CASE ~Decision!Ignored(p, e)
  <2>1. e.mode = "decision" /\ (e.id = NoId \/ e.id \notin p.seen)
    BY <1>2 DEF Decision!Ignored, Decision!Redelivered, Decision!DecisionMode
  <2>2. CASE Decision!Raises(e)
    <3>1. q = Decision!Rollback(Decision!Enter(p, e), e)
      BY <1>2, <2>2 DEF Decision!ApplyEnvelope, Decision!ApplyFails
    <3>2. q = [transcript |-> SubSeq(Append(p.transcript, e), 1, Len(Append(p.transcript, e)) - 1),
               seen |-> (p.seen \cup ({e.id} \ {NoId})) \ {e.id}, view |-> p.view]
      BY <3>1 DEF Decision!Rollback, Decision!Enter
    <3> QED BY <2>1, <3>2, Undone
  <2>3. CASE ~Decision!Raises(e)
    <3>1. q = Decision!WithEffect(Decision!Enter(p, e), e)
      BY <1>2, <2>3 DEF Decision!ApplyEnvelope, Decision!Apply
    <3> QED BY <2>1, <2>3, <3>1 DEF Entered, Decision!WithEffect, Decision!Enter
  <2> QED BY <2>2, <2>3
<1> QED BY <1>1, <1>2

LEMMA QuorumApplies ==
    ASSUME NEW p, Shaped(p), NEW e, NEW q, q = Quorum!ApplyEnvelope(p, e)
    PROVE  \/ q = p
           \/ e.mode = "quorum" /\ ~Quorum!Raises(e) /\ q = Entered(p, e, Quorum!Effect(p.view, e))
<1>1. CASE Quorum!Ignored(p, e)
  BY <1>1 DEF Quorum!ApplyEnvelope, Quorum!Apply, Quorum!ApplyFails
<1>2. CASE ~Quorum!Ignored(p, e)
  <2>1. e.mode = "quorum" /\ (e.id = NoId \/ e.id \notin p.seen)
    BY <1>2 DEF Quorum!Ignored, Quorum!Redelivered, Quorum!QuorumMode
  <2>2. CASE Quorum!Raises(e)
    <3>1. q = Quorum!Rollback(Quorum!Enter(p, e), e)
      BY <1>2, <2>2 DEF Quorum!ApplyEnvelope, Quorum!ApplyFails
    <3>2. q = [transcript |-> SubSeq(Append(p.transcript, e), 1, Len(Append(p.transcript, e)) - 1),
               seen |-> (p.seen \cup ({e.id} \ {NoId})) \ {e.id}, view |-> p.view]
      BY <3>1 DEF Quorum!Rollback, Quorum!Enter
    <3> QED BY <2>1, <3>2, Undone
  <2>3. CASE ~Quorum!Raises(e)
    <3>1. q = Quorum!WithEffect(Quorum!Enter(p, e), e)
      BY <1>2, <2>3 DEF Quorum!ApplyEnvelope, Quorum!Apply
    <3> QED BY <2>1, <2>3, <3>1 DEF Entered, Quorum!WithEffect, Quorum!Enter
  <2> QED BY <2>2, <2>3
<1> QED BY <1>1, <1>2

LEMMA TaskApplies ==
    ASSUME NEW p, Shaped(p), NEW e, NEW q, q = Task!ApplyEnvelope(p, e)
    PROVE  \/ q = p
           \/ e.mode = "task" /\ ~Task!Raises(e) /\ q = Entered(p, e, Task!Effect(p.view, e))
<1>1. CASE Task!Ignored(p, e)
  BY <1>1 DEF Task!ApplyEnvelope, Task!Apply, Task!ApplyFails
<1>2. CASE ~Task!Ignored(p, e)
  <2>1. e.mode = "task" /\ (e.id = NoId \/ e.id \notin p.seen)
    BY <1>2 DEF Task!Ignored, Task!Redelivered, Task!TaskMode
  <2>2. CASE Task!Raises(e)
    <3>1. q = Task!Rollback(Task!Enter(p, e), e)
      BY <1>2, <2>2 DEF Task!ApplyEnvelope, Task!ApplyFails
    <3>2. q = [transcript |-> SubSeq(Append(p.transcript, e), 1, Len(Append(p.transcript, e)) - 1),
               seen |-> (p.seen \cup ({e.id} \ {NoId})) \ {e.id}, view |-> p.view]
      BY <3>1 DEF Task!Rollback, Task!Enter
    <3> QED BY <2>1, <3>2, Undone
  <2>3. CASE ~Task!Raises(e)
    <3>1. q = Task!WithEffect(Task!Enter(p, e), e)
      BY <1>2, <2>3 DEF Task!ApplyEnvelope, Task!Apply
    <3> QED BY <2>1, <2>3, <3>1 DEF Entered, Task!WithEffect, Task!Enter
  <2> QED BY <2>2, <2>3
<1> QED BY <1>1, <1>2

LEMMA HandoffApplies ==
    ASSUME NEW p, Shaped(p), NEW e, NEW q, q = Handoff!ApplyEnvelope(p, e)
    PROVE  \/ q = p
           \/ e.mode = "handoff" /\ ~Handoff!Raises(e) /\ q = Entered(p, e, Handoff!Effect(p.view, e))
<1>1. CASE Handoff!Ignored(p, e)
  BY <1>1 DEF Handoff!ApplyEnvelope, Handoff!Apply, Handoff!ApplyFails
<1>2. CASE ~Handoff!Ignored(p, e)
  <2>1. e.mode = "handoff" /\ (e.id = NoId \/ e.id \notin p.seen)
    BY <1>2 DEF Handoff!Ignored, Handoff!Redelivered, Handoff!HandoffMode
  <2>2. CASE Handoff!Raises(e)
    <3>1. q = Handoff!Rollback(Handoff!Enter(p, e), e)
      BY <1>2, <2>2 DEF Handoff!ApplyEnvelope, Handoff!ApplyFails
    <3>2. q = [transcript |-> SubSeq(Append(p.transcript, e), 1, Len(Append(p.transcript, e)) - 1),
               seen |-> (p.seen \cup ({e.id} \ {NoId})) \ {e.id}, view |-> p.view]
      BY <3>1 DEF Handoff!Rollback, Handoff!Enter
    <3> QED BY <2>1, <3>2, Undone
  <2>3. CASE ~Handoff!Raises(e)
    <3>1. q = Handoff!WithEffect(Handoff!Enter(p, e), e)
      BY <1>2, <2>3 DEF Handoff!ApplyEnvelope, Handoff!Apply
    <3> QED BY <2>1, <2>3, <3>1 DEF Entered, Handoff!WithEffect, Handoff!Enter
  <2> QED BY <2>2, <2>3
<1> QED BY <1>1, <1>2

LEMMA ProposalApplies ==
    ASSUME NEW p, Shaped(p), NEW e, NEW q, q = Proposal!ApplyEnvelope(p, e)
    PROVE  \/ q = p
           \/ e.mode = "proposal" /\ ~Proposal!Raises(e) /\ q = Entered(p, e, Proposal!Effect(p.view, e))
<1>1. CASE Proposal!Ignored(p, e)
  BY <1>1 DEF Proposal!ApplyEnvelope, Proposal!Apply, Proposal!ApplyFails
<1>2. CASE ~Proposal!Ignored(p, e)
  <2>1. e.mode = "proposal" /\ (e.id = NoId \/ e.id \notin p.seen)
    BY <1>2 DEF Proposal!Ignored, Proposal!Redelivered, Proposal!ProposalMode
  <2>2. CASE Proposal!Raises(e)
    <3>1. q = Proposal!Rollback(Proposal!Enter(p, e), e)
      BY <1>2, <2>2 DEF Proposal!ApplyEnvelope, Proposal!ApplyFails
    <3>2. q = [transcript |-> SubSeq(Append(p.transcript, e), 1, Len(Append(p.transcript, e)) - 1),
               seen |-> (p.seen \cup ({e.id} \ {NoId})) \ {e.id}, view |-> p.view]
      BY <3>1 DEF Proposal!Rollback, Proposal!Enter
    <3> QED BY <2>1, <3>2, Undone
  <2>3. CASE ~Proposal!Raises(e)
    <3>1. q = Proposal!WithEffect(Proposal!Enter(p, e), e)
      BY <1>2, <2>3 DEF Proposal!ApplyEnvelope, Proposal!Apply
    <3> QED BY <2>1, <2>3, <3>1 DEF Entered, Proposal!WithEffect, Proposal!Enter
  <2> QED BY <2>2, <2>3
<1> QED BY <1>1, <1>2

LEMMA MultiRoundApplies ==
    ASSUME NEW p, Shaped(p), NEW e, NEW q, q = MultiRound!ApplyEnvelope(p, e)
    PROVE  \/ q = p
           \/ e.mode = "multi_round" /\ ~MultiRound!Raises(e) /\ q = Entered(p, e, MultiRound!Effect(p.view, e))
<1>1. CASE MultiRound!Ignored(p, e)
  BY <1>1 DEF MultiRound!ApplyEnvelope, MultiRound!Apply, MultiRound!ApplyFails
<1>2. CASE ~MultiRound!Ignored(p, e)
  <2>1. e.mode = "multi_round" /\ (e.id = NoId \/ e.id \notin p.seen)
    BY <1>2 DEF MultiRound!Ignored, MultiRound!Redelivered, MultiRound!MultiRoundMode
  <2>2. CASE MultiRound!Raises(e)
    <3>1. q = MultiRound!Rollback(MultiRound!Enter(p, e), e)
      BY <1>2, <2>2 DEF MultiRound!ApplyEnvelope, MultiRound!ApplyFails
    <3>2. q = [transcript |-> SubSeq(Append(p.transcript, e), 1, Len(Append(p.transcript, e)) - 1),
               seen |-> (p.seen \cup ({e.id} \ {NoId})) \ {e.id}, view |-> p.view]
      BY <3>1 DEF MultiRound!Rollback, MultiRound!Enter
    <3> QED BY <2>1, <3>2, Undone
  <2>3. CASE ~MultiRound!Raises(e)
    <3>1. q = MultiRound!WithEffect(MultiRound!Enter(p, e), e)
      BY <1>2, <2>3 DEF MultiRound!ApplyEnvelope, MultiRound!Apply
    <3> QED BY <2>1, <2>3, <3>1 DEF Entered, MultiRound!WithEffect, MultiRound!Enter
  <2> QED BY <2>2, <2>3
<1> QED BY <1>1, <1>2
-----------------------------------------------------------------------------
\* Decision.  The proposals known are the transcript's, and its votes on proposals seen
\* by then are as many as the votes counted and the anomalies.
VotesIn(t) ==
    {i \in DOMAIN t : t[i].type = "Vote" /\ \E j \in 1..i - 1 : t[j].type = "Proposal" /\ t[j].subject = t[i].subject}

DecisionInv(t, v) ==
    /\ DOMAIN v = DOMAIN Decision!DecisionInit
    /\ DOMAIN v.proposals = {t[i].subject : i \in {j \in DOMAIN t : t[j].type = "Proposal"}}
    /\ \A k \in DOMAIN v.votes : k[1] \in DOMAIN v.proposals
    /\ IsFiniteSet(DOMAIN v.votes) /\ Sequence(v.anomalies) /\ IsFiniteSet(VotesIn(t))
    /\ Cardinality(VotesIn(t)) = Cardinality(DOMAIN v.votes) + Len(v.anomalies)

LEMMA OneMore ==
    ASSUME NEW S, IsFiniteSet(S), NEW x, x \notin S
    PROVE  /\ IsFiniteSet(S \cup {x}) /\ Cardinality(S) \in Nat
           /\ Cardinality(S \cup {x}) = Cardinality(S) + 1
BY FS_AddElement, FS_CardinalityType

\* The trace of a discarded message.
Discarded(kind, e) == [kind |-> kind, id |-> e.id, sender |-> e.sender, subject |-> e.subject]

\* The instances' Cardinality is the one the library's facts are about.
LEMMA OneCardinality ==
    ASSUME NEW S
    PROVE  /\ Decision!Cardinality(S) = Cardinality(S) /\ Quorum!Cardinality(S) = Cardinality(S)
           /\ Handoff!Cardinality(S) = Cardinality(S) /\ Proposal!Cardinality(S) = Cardinality(S)
BY Zenon DEF Cardinality, Decision!Cardinality, Quorum!Cardinality, Handoff!Cardinality, Proposal!Cardinality

\* What setting the phase leaves alone.
LEMMA DecisionPhase ==
    ASSUME NEW v, DOMAIN v = DOMAIN Decision!DecisionInit, NEW phase, NEW w, w = Decision!SetPhase(v, phase)
    PROVE  /\ DOMAIN w = DOMAIN v /\ w.proposals = v.proposals /\ w.votes = v.votes /\ w.anomalies = v.anomalies
           /\ v.phase = "Committed" => w.phase = "Committed"
BY DEF Decision!SetPhase, Decision!DecisionInit

\* What each message does to the proposals, the votes and the anomalies.
LEMMA DecisionEffect ==
    ASSUME NEW v, DOMAIN v = DOMAIN Decision!DecisionInit, NEW e, NEW w, w = Decision!Effect(v, e),
           NEW k, k = <<e.subject, e.sender>>
    PROVE  /\ DOMAIN w = DOMAIN v
           /\ v.phase = "Committed" => w.phase = "Committed"
           /\ e.type = "Proposal" =>
                DOMAIN w.proposals = DOMAIN v.proposals \cup {e.subject} /\ w.votes = v.votes /\ w.anomalies = v.anomalies
           /\ e.type # "Proposal" => w.proposals = v.proposals
           /\ e.type # "Vote" => w.votes = v.votes /\ w.anomalies = v.anomalies
           /\ e.type = "Vote" =>
                \/ e.subject \notin DOMAIN v.proposals /\ w = v
                \/ /\ e.subject \in DOMAIN v.proposals /\ k \in DOMAIN v.votes
                   /\ w.votes = v.votes /\ w.anomalies = Append(v.anomalies, Discarded("duplicate_vote", e))
                \/ /\ e.subject \in DOMAIN v.proposals /\ k \notin DOMAIN v.votes
                   /\ w.votes = Decision!Put(v.votes, k, e.value) /\ w.anomalies = v.anomalies
<1>1. CASE e.type = "Commitment"
  <2>1. w = [v EXCEPT !.commitment = e.subject, !.phase = "Committed"]
    BY <1>1 DEF Decision!Effect
  <2> QED BY <1>1, <2>1 DEF Decision!DecisionInit
<1>2. CASE e.type = "Proposal"
  <2>1. w = Decision!OnProposal(v, e)
    BY <1>2 DEF Decision!Effect, Decision!DecisionStep
  <2>2. PICK x : x = [option |-> e.value, sender |-> e.sender]
    OBVIOUS
  <2>3. PICK u : u = [v EXCEPT !.proposals = Decision!Put(@, e.subject, x)]
    OBVIOUS
  <2>4. w = u \/ w = Decision!SetPhase(u, "Evaluation")
    BY <2>1, <2>2, <2>3 DEF Decision!OnProposal
  <2>5. /\ DOMAIN u = DOMAIN v /\ u.proposals = Decision!Put(v.proposals, e.subject, x) /\ u.votes = v.votes
        /\ u.anomalies = v.anomalies /\ u.phase = v.phase
    BY <2>3 DEF Decision!DecisionInit
  <2>6. DOMAIN u.proposals = DOMAIN v.proposals \cup {e.subject}
    BY <2>5 DEF Decision!Put
  <2> QED BY <1>2, <2>4, <2>5, <2>6, DecisionPhase
<1>3. CASE e.type = "Evaluation"
  <2>1. w = Decision!OnEvaluation(v, e)
    BY <1>3 DEF Decision!Effect, Decision!DecisionStep
  <2>2. PICK u : u = [v EXCEPT !.evaluations = Append(@, [subject |-> e.subject, value |-> e.value, sender |-> e.sender])]
    OBVIOUS
  <2>3. w = Decision!SetPhase(u, "Evaluation")
    BY <2>1, <2>2 DEF Decision!OnEvaluation
  <2>4. DOMAIN u = DOMAIN v /\ u.proposals = v.proposals /\ u.votes = v.votes /\ u.anomalies = v.anomalies /\ u.phase = v.phase
    BY <2>2 DEF Decision!DecisionInit
  <2> QED BY <1>3, <2>3, <2>4, DecisionPhase
<1>4. CASE e.type = "Objection"
  <2>1. w = Decision!OnObjection(v, e)
    BY <1>4 DEF Decision!Effect, Decision!DecisionStep
  <2>2. PICK x : w = [v EXCEPT !.objections = Append(@, x)]
    BY <2>1 DEF Decision!OnObjection
  <2> QED BY <1>4, <2>2 DEF Decision!DecisionInit
<1>5. CASE e.type = "Vote"
  <2>1. w = Decision!OnVote(v, e)
    BY <1>5 DEF Decision!Effect, Decision!DecisionStep
  <2>2. CASE e.subject \notin DOMAIN v.proposals
    <3>1. w = v
      BY <2>1, <2>2 DEF Decision!OnVote
    <3> QED BY <1>5, <2>2, <3>1
  <2>3. CASE e.subject \in DOMAIN v.proposals /\ k \in DOMAIN v.votes
    <3>1. w = Decision!RecordAnomaly(v, "duplicate_vote", e)
      BY <2>1, <2>3 DEF Decision!OnVote
    <3>2. w = [v EXCEPT !.anomalies = Append(@, Discarded("duplicate_vote", e))]
      BY <3>1 DEF Decision!RecordAnomaly, Discarded
    <3>3. DOMAIN w = DOMAIN v /\ w.proposals = v.proposals /\ w.votes = v.votes /\ w.phase = v.phase
          /\ w.anomalies = Append(v.anomalies, Discarded("duplicate_vote", e))
      BY <3>2 DEF Decision!DecisionInit
    <3> QED BY <1>5, <2>3, <3>3
  <2>4. CASE e.subject \in DOMAIN v.proposals /\ k \notin DOMAIN v.votes
    <3>1. PICK u : u = [v EXCEPT !.votes = Decision!Put(@, k, e.value)]
      OBVIOUS
    <3>2. w = Decision!SetPhase(u, "Voting")
      BY <2>1, <2>4, <3>1 DEF Decision!OnVote
    <3>3. /\ DOMAIN u = DOMAIN v /\ u.proposals = v.proposals /\ u.votes = Decision!Put(v.votes, k, e.value)
          /\ u.anomalies = v.anomalies /\ u.phase = v.phase
      BY <3>1 DEF Decision!DecisionInit
    <3> QED BY <1>5, <2>4, <3>2, <3>3, DecisionPhase
  <2> QED BY <2>2, <2>3, <2>4
<1>6. CASE e.type \notin {"Commitment", "Proposal", "Evaluation", "Objection", "Vote"}
  <2>1. Decision!Effect(v, e) = Decision!DecisionStep(v, e)
    BY <1>6 DEF Decision!Effect
  <2>2. Decision!DecisionStep(v, e) = v
    BY <1>6, Zenon DEF Decision!DecisionStep
  <2> QED BY <1>6, <2>1, <2>2
<1> QED BY <1>1, <1>2, <1>3, <1>4, <1>5, <1>6

LEMMA DecisionKeeps ==
    ASSUME NEW t, NEW v, DecisionInv(t, v), NEW e, NEW u, Grown(t, e, u), NEW w, w = Decision!Effect(v, e)
    PROVE  /\ DecisionInv(u, w)
           /\ \A k \in DOMAIN v.votes : k \in DOMAIN w.votes /\ w.votes[k] = v.votes[k]
           /\ v.phase = "Committed" => w.phase = "Committed"
<1> PICK k : k = <<e.subject, e.sender>>
  OBVIOUS
<1> PICK n : n = Len(t) + 1
  OBVIOUS
<1>1. /\ DOMAIN v = DOMAIN Decision!DecisionInit
      /\ DOMAIN v.proposals = {t[i].subject : i \in {j \in DOMAIN t : t[j].type = "Proposal"}}
      /\ \A x \in DOMAIN v.votes : x[1] \in DOMAIN v.proposals
      /\ IsFiniteSet(DOMAIN v.votes) /\ Sequence(v.anomalies) /\ IsFiniteSet(VotesIn(t))
      /\ Cardinality(VotesIn(t)) = Cardinality(DOMAIN v.votes) + Len(v.anomalies)
  BY DEF DecisionInv
<1>2. DOMAIN v = DOMAIN Decision!DecisionInit
  BY <1>1
<1>3. /\ DOMAIN t = 1..Len(t) /\ Len(t) \in Nat /\ DOMAIN u = DOMAIN t \cup {n} /\ n \notin DOMAIN t
      /\ u[n] = e /\ (\A i \in DOMAIN t : u[i] = t[i]) /\ \A i \in DOMAIN t : 1..i - 1 \subseteq DOMAIN t
      /\ 1..n - 1 = DOMAIN t
  BY DEF Grown
<1>4. Len(v.anomalies) \in Nat /\ Cardinality(DOMAIN v.votes) \in Nat
  BY <1>1, FS_CardinalityType DEF Sequence
<1>5. Cardinality(VotesIn(t)) = Cardinality(DOMAIN v.votes) + Len(v.anomalies)
  BY <1>1
<1>6. DOMAIN w = DOMAIN v /\ (v.phase = "Committed" => w.phase = "Committed")
  BY <1>1, DecisionEffect
<1>7. VotesIn(u) = VotesIn(t) \cup (IF e.type = "Vote" /\ e.subject \in DOMAIN v.proposals THEN {n} ELSE {})
  <2>1. ASSUME NEW i \in DOMAIN t PROVE i \in VotesIn(u) <=> i \in VotesIn(t)
    BY <1>3 DEF VotesIn
  <2>2. n \in VotesIn(u) <=> e.type = "Vote" /\ e.subject \in DOMAIN v.proposals
    BY <1>1, <1>3 DEF VotesIn
  <2>3. VotesIn(u) \subseteq DOMAIN t \cup {n} /\ VotesIn(t) \subseteq DOMAIN t
    BY <1>3 DEF VotesIn
  <2> QED BY <1>3, <2>1, <2>2, <2>3
<1>8. n \notin VotesIn(t)
  BY <1>3 DEF VotesIn
<1>9. DOMAIN w.proposals = {u[i].subject : i \in {j \in DOMAIN u : u[j].type = "Proposal"}}
      /\ DOMAIN v.proposals \subseteq DOMAIN w.proposals
  <2>1. CASE e.type = "Proposal"
    <3>1. DOMAIN w.proposals = DOMAIN v.proposals \cup {e.subject}
      BY <1>1, <2>1, DecisionEffect
    <3> QED BY <1>1, <1>3, <2>1, <3>1
  <2>2. CASE e.type # "Proposal"
    <3>1. DOMAIN w.proposals = DOMAIN v.proposals
      BY <1>1, <2>2, DecisionEffect
    <3> QED BY <1>1, <1>3, <2>2, <3>1
  <2> QED BY <2>1, <2>2
<1>10. /\ \A x \in DOMAIN w.votes : x[1] \in DOMAIN w.proposals
      /\ IsFiniteSet(DOMAIN w.votes) /\ Sequence(w.anomalies) /\ IsFiniteSet(VotesIn(u))
      /\ Cardinality(VotesIn(u)) = Cardinality(DOMAIN w.votes) + Len(w.anomalies)
      /\ \A x \in DOMAIN v.votes : x \in DOMAIN w.votes /\ w.votes[x] = v.votes[x]
  <2>1. CASE e.type # "Vote" \/ e.subject \notin DOMAIN v.proposals
    <3>1. VotesIn(u) = VotesIn(t) /\ w.votes = v.votes /\ w.anomalies = v.anomalies
      BY <1>1, <1>7, <2>1, DecisionEffect
    <3> QED BY <1>1, <1>9, <3>1
  <2>2. CASE e.type = "Vote" /\ e.subject \in DOMAIN v.proposals
    <3>1. IsFiniteSet(VotesIn(u)) /\ Cardinality(VotesIn(u)) = Cardinality(VotesIn(t)) + 1
      BY <1>1, <1>7, <1>8, <2>2, OneMore
    <3>2. CASE k \in DOMAIN v.votes
      <4>1. w.votes = v.votes /\ w.anomalies = Append(v.anomalies, Discarded("duplicate_vote", e))
        BY <1>2, <2>2, <3>2, DecisionEffect
      <4>2. Sequence(w.anomalies) /\ Len(w.anomalies) = Len(v.anomalies) + 1
        BY <1>1, <4>1, AppendSequence DEF Grown
      <4>3. Cardinality(VotesIn(u)) = Cardinality(DOMAIN w.votes) + Len(w.anomalies)
        BY <1>1, <1>4, <3>1, <4>1, <4>2
      <4> QED BY <1>1, <1>9, <3>1, <4>1, <4>2, <4>3
    <3>3. CASE k \notin DOMAIN v.votes
      <4>1. w.votes = Decision!Put(v.votes, k, e.value) /\ w.anomalies = v.anomalies
        BY <1>1, <2>2, <3>3, DecisionEffect
      <4>2. DOMAIN w.votes = DOMAIN v.votes \cup {k} /\ \A x \in DOMAIN v.votes : w.votes[x] = v.votes[x]
        BY <3>3, <4>1 DEF Decision!Put
      <4>3. IsFiniteSet(DOMAIN w.votes) /\ Cardinality(DOMAIN w.votes) = Cardinality(DOMAIN v.votes) + 1
        BY <1>1, <3>3, <4>2, OneMore
      <4>4. k[1] = e.subject
        OBVIOUS
      <4>5. Cardinality(VotesIn(u)) = Cardinality(DOMAIN w.votes) + Len(w.anomalies)
        <5>1. w.anomalies = v.anomalies
          BY <4>1
        <5> QED BY <1>4, <1>5, <3>1, <4>3, <5>1
      <4>6. \A x \in DOMAIN w.votes : x[1] \in DOMAIN w.proposals
        BY <1>1, <1>9, <2>2, <4>2, <4>4
      <4> QED BY <1>1, <3>1, <4>1, <4>2, <4>3, <4>5, <4>6
    <3> QED BY <3>2, <3>3
  <2> QED BY <2>1, <2>2
<1> QED BY <1>1, <1>6, <1>9, <1>10 DEF DecisionInv

-----------------------------------------------------------------------------
\* Quorum.  The ballots on a request seen by then are as many as the senders that voted
\* on it and the anomalies about it.
Answering(t, r) ==
    {i \in DOMAIN t : /\ t[i].type \in DOMAIN Quorum!Choice /\ t[i].subject = r
                      /\ \E j \in DOMAIN t : t[j].type = "ApprovalRequest" /\ t[j].subject = r /\ j < i}
Dropped(v, r) == {i \in DOMAIN v.anomalies : v.anomalies[i].subject = r}

Balanced(t, v, r) ==
    /\ IsFiniteSet(Answering(t, r)) /\ IsFiniteSet(Quorum!VotedSenders(v, r)) /\ IsFiniteSet(Dropped(v, r))
    /\ Cardinality(Answering(t, r)) = Cardinality(Quorum!VotedSenders(v, r)) + Cardinality(Dropped(v, r))

QuorumInv(t, v) ==
    /\ DOMAIN v = DOMAIN Quorum!QuorumInit
    /\ DOMAIN v.requests = {t[i].subject : i \in {j \in DOMAIN t : t[j].type = "ApprovalRequest"}}
    /\ \A k \in DOMAIN v.ballots : k = <<k[1], k[2]>> /\ k[1] \in DOMAIN v.requests
    /\ Sequence(v.anomalies) /\ \A i \in DOMAIN v.anomalies : v.anomalies[i].subject \in DOMAIN v.requests
    /\ \A r \in DOMAIN v.requests : Balanced(t, v, r)

LEMMA BallotTypes == DOMAIN Quorum!Choice = {"Approve", "Reject", "Abstain"}
BY Zenon DEF Quorum!Choice

LEMMA QuorumPhase ==
    ASSUME NEW v, DOMAIN v = DOMAIN Quorum!QuorumInit, NEW phase, NEW w, w = Quorum!SetPhase(v, phase)
    PROVE  DOMAIN w = DOMAIN v /\ w.requests = v.requests /\ w.ballots = v.ballots /\ w.anomalies = v.anomalies
BY DEF Quorum!SetPhase, Quorum!QuorumInit

\* What each message does to the requests, the ballots and the anomalies.
LEMMA QuorumEffect ==
    ASSUME NEW v, DOMAIN v = DOMAIN Quorum!QuorumInit, NEW e, NEW w, w = Quorum!Effect(v, e),
           NEW k, k = <<e.subject, e.sender>>
    PROVE  /\ DOMAIN w = DOMAIN v
           /\ e.type = "ApprovalRequest" => w.requests = Quorum!Put(v.requests, e.subject, e.value)
           /\ e.type # "ApprovalRequest" => w.requests = v.requests
           /\ e.type \notin DOMAIN Quorum!Choice => w.ballots = v.ballots /\ w.anomalies = v.anomalies
           /\ e.type \in DOMAIN Quorum!Choice =>
                \/ e.subject \notin DOMAIN v.requests /\ w = v
                \/ /\ e.subject \in DOMAIN v.requests /\ k \in DOMAIN v.ballots
                   /\ w.ballots = v.ballots /\ w.anomalies = Append(v.anomalies, Discarded("duplicate_ballot", e))
                \/ /\ e.subject \in DOMAIN v.requests /\ k \notin DOMAIN v.ballots
                   /\ w.ballots = Quorum!Put(v.ballots, k, Quorum!Choice[e.type]) /\ w.anomalies = v.anomalies
<1>1. CASE e.type = "Commitment"
  <2>1. w = [v EXCEPT !.commitment = e.subject, !.phase = "Committed"]
    BY <1>1 DEF Quorum!Effect
  <2> QED BY <1>1, <2>1, BallotTypes DEF Quorum!QuorumInit
<1>2. CASE e.type = "ApprovalRequest"
  <2>1. w = Quorum!OnRequest(v, e)
    BY <1>2, BallotTypes DEF Quorum!Effect, Quorum!QuorumStep
  <2>2. PICK u : u = [v EXCEPT !.requests = Quorum!Put(@, e.subject, e.value)]
    OBVIOUS
  <2>3. w = Quorum!SetPhase(u, "Voting")
    BY <2>1, <2>2 DEF Quorum!OnRequest
  <2>4. /\ DOMAIN u = DOMAIN v /\ u.requests = Quorum!Put(v.requests, e.subject, e.value)
        /\ u.ballots = v.ballots /\ u.anomalies = v.anomalies
    BY <2>2 DEF Quorum!QuorumInit
  <2> QED BY <1>2, <2>3, <2>4, QuorumPhase, BallotTypes
<1>3. CASE e.type \in DOMAIN Quorum!Choice
  <2>1. w = Quorum!SetBallot(v, e)
    BY <1>3, BallotTypes DEF Quorum!Effect, Quorum!QuorumStep
  <2>2. CASE e.subject \notin DOMAIN v.requests
    <3>1. w = v
      BY <2>1, <2>2 DEF Quorum!SetBallot
    <3> QED BY <1>3, <2>2, <3>1, BallotTypes
  <2>3. CASE e.subject \in DOMAIN v.requests /\ k \in DOMAIN v.ballots
    <3>1. w = Quorum!RecordAnomaly(v, "duplicate_ballot", e)
      BY <2>1, <2>3 DEF Quorum!SetBallot
    <3>2. w = [v EXCEPT !.anomalies = Append(@, Discarded("duplicate_ballot", e))]
      BY <3>1 DEF Quorum!RecordAnomaly, Discarded
    <3>3. DOMAIN w = DOMAIN v /\ w.requests = v.requests /\ w.ballots = v.ballots
          /\ w.anomalies = Append(v.anomalies, Discarded("duplicate_ballot", e))
      BY <3>2 DEF Quorum!QuorumInit
    <3> QED BY <1>3, <2>3, <3>3, BallotTypes
  <2>4. CASE e.subject \in DOMAIN v.requests /\ k \notin DOMAIN v.ballots
    <3>1. w = [v EXCEPT !.ballots = Quorum!Put(@, k, Quorum!Choice[e.type])]
      BY <2>1, <2>4 DEF Quorum!SetBallot
    <3>2. DOMAIN w = DOMAIN v /\ w.requests = v.requests /\ w.anomalies = v.anomalies
          /\ w.ballots = Quorum!Put(v.ballots, k, Quorum!Choice[e.type])
      BY <3>1 DEF Quorum!QuorumInit
    <3> QED BY <1>3, <2>4, <3>2, BallotTypes
  <2> QED BY <2>2, <2>3, <2>4
<1>4. CASE e.type \notin {"Commitment", "ApprovalRequest"} \cup DOMAIN Quorum!Choice
  <2>1. Quorum!Effect(v, e) = Quorum!QuorumStep(v, e)
    BY <1>4 DEF Quorum!Effect
  <2>2. Quorum!QuorumStep(v, e) = v
    BY <1>4, Zenon DEF Quorum!QuorumStep
  <2> QED BY <1>4, <2>1, <2>2
<1> QED BY <1>1, <1>2, <1>3, <1>4

LEMMA QuorumKeeps ==
    ASSUME NEW t, NEW v, QuorumInv(t, v), NEW e, NEW u, Grown(t, e, u), NEW w, w = Quorum!Effect(v, e)
    PROVE  /\ QuorumInv(u, w)
           /\ \A k \in DOMAIN v.ballots : k \in DOMAIN w.ballots /\ w.ballots[k] = v.ballots[k]
<1> PICK k : k = <<e.subject, e.sender>>
  OBVIOUS
<1> PICK n : n = Len(t) + 1
  OBVIOUS
<1>1. DOMAIN v = DOMAIN Quorum!QuorumInit
  BY DEF QuorumInv
<1>2. /\ DOMAIN v.requests = {t[i].subject : i \in {j \in DOMAIN t : t[j].type = "ApprovalRequest"}}
      /\ \A x \in DOMAIN v.ballots : x = <<x[1], x[2]>> /\ x[1] \in DOMAIN v.requests
      /\ Sequence(v.anomalies) /\ \A i \in DOMAIN v.anomalies : v.anomalies[i].subject \in DOMAIN v.requests
      /\ \A r \in DOMAIN v.requests : Balanced(t, v, r)
  BY DEF QuorumInv
<1>3. /\ DOMAIN t = 1..Len(t) /\ Len(t) \in Nat /\ DOMAIN u = DOMAIN t \cup {n} /\ n \notin DOMAIN t
      /\ u[n] = e /\ (\A i \in DOMAIN t : u[i] = t[i]) /\ \A i \in DOMAIN t : i < n
  BY DEF Grown
<1>4. DOMAIN w = DOMAIN v
  BY <1>1, QuorumEffect
<1>5. ASSUME NEW r
      PROVE  /\ n \notin Answering(t, r)
             /\ Answering(u, r) = Answering(t, r)
                    \cup (IF e.type \in DOMAIN Quorum!Choice /\ e.subject = r /\ r \in DOMAIN v.requests
                          THEN {n} ELSE {})
  <2>1. ASSUME NEW i \in DOMAIN t PROVE i \in Answering(u, r) <=> i \in Answering(t, r)
    BY <1>3 DEF Answering
  <2>2. n \in Answering(u, r) <=> e.type \in DOMAIN Quorum!Choice /\ e.subject = r /\ r \in DOMAIN v.requests
    BY <1>2, <1>3, BallotTypes DEF Answering
  <2>3. Answering(u, r) \subseteq DOMAIN t \cup {n} /\ Answering(t, r) \subseteq DOMAIN t
    BY <1>3 DEF Answering
  <2> QED BY <1>3, <2>1, <2>2, <2>3
<1>6. CASE e.type = "ApprovalRequest"
  <2>1. w.requests = Quorum!Put(v.requests, e.subject, e.value) /\ w.ballots = v.ballots /\ w.anomalies = v.anomalies
    BY <1>1, <1>6, QuorumEffect, BallotTypes
  <2>2. DOMAIN w.requests = DOMAIN v.requests \cup {e.subject}
    BY <2>1 DEF Quorum!Put
  <2>3. DOMAIN w.requests = {u[i].subject : i \in {j \in DOMAIN u : u[j].type = "ApprovalRequest"}}
    BY <1>2, <1>3, <1>6, <2>2
  <2>4. ASSUME NEW r \in DOMAIN w.requests PROVE Balanced(u, w, r)
    <3>1. Answering(u, r) = Answering(t, r)
      BY <1>5, <1>6, BallotTypes
    <3>2. Quorum!VotedSenders(w, r) = Quorum!VotedSenders(v, r) /\ Dropped(w, r) = Dropped(v, r)
      BY <2>1 DEF Quorum!VotedSenders, Dropped
    <3>3. CASE r \in DOMAIN v.requests
      BY <1>2, <3>1, <3>2, <3>3 DEF Balanced
    <3>4. CASE r \notin DOMAIN v.requests
      <4>1. Answering(t, r) = {}
        BY <1>2, <3>4 DEF Answering
      <4>2. Quorum!VotedSenders(v, r) = {} /\ Dropped(v, r) = {}
        BY <1>2, <3>4 DEF Quorum!VotedSenders, Dropped
      <4> QED BY <3>1, <3>2, <4>1, <4>2, FS_EmptySet DEF Balanced
    <3> QED BY <3>3, <3>4
  <2> QED BY <1>1, <1>2, <1>4, <2>1, <2>2, <2>3, <2>4 DEF QuorumInv
<1>7. CASE e.type # "ApprovalRequest"
  <2>1. w.requests = v.requests
    BY <1>1, <1>7, QuorumEffect
  <2>2. DOMAIN w.requests = {u[i].subject : i \in {j \in DOMAIN u : u[j].type = "ApprovalRequest"}}
    BY <1>2, <1>3, <1>7, <2>1
  <2>3. CASE e.type \notin DOMAIN Quorum!Choice \/ e.subject \notin DOMAIN v.requests
    <3>1. w.ballots = v.ballots /\ w.anomalies = v.anomalies
      BY <1>1, <2>3, QuorumEffect
    <3>2. ASSUME NEW r \in DOMAIN v.requests PROVE Balanced(u, w, r)
      <4>1. Answering(u, r) = Answering(t, r)
        BY <1>5, <2>3
      <4>2. Quorum!VotedSenders(w, r) = Quorum!VotedSenders(v, r) /\ Dropped(w, r) = Dropped(v, r)
        BY <3>1 DEF Quorum!VotedSenders, Dropped
      <4> QED BY <1>2, <4>1, <4>2 DEF Balanced
    <3> QED BY <1>1, <1>2, <1>4, <2>1, <2>2, <3>1, <3>2 DEF QuorumInv
  <2>4. CASE e.type \in DOMAIN Quorum!Choice /\ e.subject \in DOMAIN v.requests
    <3>0. ASSUME NEW r \in DOMAIN v.requests
          PROVE  /\ Answering(u, r) = Answering(t, r) \cup (IF r = e.subject THEN {n} ELSE {})
                 /\ n \notin Answering(t, r)
                 /\ IsFiniteSet(Answering(t, r)) /\ IsFiniteSet(Quorum!VotedSenders(v, r)) /\ IsFiniteSet(Dropped(v, r))
                 /\ Cardinality(Answering(t, r)) \in Nat /\ Cardinality(Quorum!VotedSenders(v, r)) \in Nat
                 /\ Cardinality(Dropped(v, r)) \in Nat
                 /\ Cardinality(Answering(t, r)) = Cardinality(Quorum!VotedSenders(v, r)) + Cardinality(Dropped(v, r))
      <4>1. Balanced(t, v, r)
        BY <1>2
      <4> QED BY <1>5, <2>4, <4>1, FS_CardinalityType DEF Balanced
    <3>1. CASE k \in DOMAIN v.ballots
      <4>1. w.ballots = v.ballots /\ w.anomalies = Append(v.anomalies, Discarded("duplicate_ballot", e))
        BY <1>1, <2>4, <3>1, QuorumEffect
      <4>2. Sequence(w.anomalies) /\ Grown(v.anomalies, Discarded("duplicate_ballot", e), w.anomalies)
        BY <1>2, <4>1, AppendSequence
      <4>3. Discarded("duplicate_ballot", e).subject = e.subject
        BY DEF Discarded
      <4>4. \A i \in DOMAIN w.anomalies : w.anomalies[i].subject \in DOMAIN w.requests
        <5>1. \A i \in DOMAIN v.anomalies : w.anomalies[i].subject \in DOMAIN w.requests
          BY <1>2, <2>1, <4>2 DEF Grown
        <5>2. w.anomalies[Len(v.anomalies) + 1].subject \in DOMAIN w.requests
          BY <2>1, <2>4, <4>2, <4>3 DEF Grown
        <5> QED BY <4>2, <5>1, <5>2 DEF Grown
      <4>5. ASSUME NEW r \in DOMAIN v.requests PROVE Balanced(u, w, r)
        <5>1. Quorum!VotedSenders(w, r) = Quorum!VotedSenders(v, r)
          BY <4>1 DEF Quorum!VotedSenders
        <5>2. PICK m : m = Len(v.anomalies) + 1
          OBVIOUS
        <5>3. /\ m \notin Dropped(v, r)
              /\ Dropped(w, r) = Dropped(v, r) \cup (IF r = e.subject THEN {m} ELSE {})
          BY <4>2, <4>3, <5>2 DEF Dropped, Grown
        <5>4. CASE r = e.subject
          <6>1. IsFiniteSet(Answering(u, r)) /\ Cardinality(Answering(u, r)) = Cardinality(Answering(t, r)) + 1
            BY <3>0, <5>4, OneMore
          <6>2. IsFiniteSet(Dropped(w, r)) /\ Cardinality(Dropped(w, r)) = Cardinality(Dropped(v, r)) + 1
            BY <3>0, <5>3, <5>4, OneMore
          <6> QED BY <3>0, <5>1, <6>1, <6>2 DEF Balanced
        <5>5. CASE r # e.subject
          <6>1. Answering(u, r) = Answering(t, r) /\ Dropped(w, r) = Dropped(v, r)
            BY <3>0, <5>3, <5>5
          <6> QED BY <3>0, <5>1, <6>1 DEF Balanced
        <5> QED BY <5>4, <5>5
      <4> QED BY <1>1, <1>2, <1>4, <2>1, <2>2, <4>1, <4>2, <4>4, <4>5 DEF QuorumInv
    <3>2. CASE k \notin DOMAIN v.ballots
      <4>1. w.ballots = Quorum!Put(v.ballots, k, Quorum!Choice[e.type]) /\ w.anomalies = v.anomalies
        BY <1>1, <2>4, <3>2, QuorumEffect
      <4>2. DOMAIN w.ballots = DOMAIN v.ballots \cup {k} /\ \A x \in DOMAIN v.ballots : w.ballots[x] = v.ballots[x]
        BY <3>2, <4>1 DEF Quorum!Put
      <4>3. k = <<k[1], k[2]>> /\ k[1] = e.subject /\ k[2] = e.sender
        OBVIOUS
      <4>4. \A x \in DOMAIN w.ballots : x = <<x[1], x[2]>> /\ x[1] \in DOMAIN w.requests
        BY <1>2, <2>1, <2>4, <4>2, <4>3
      <4>5. ASSUME NEW r \in DOMAIN v.requests PROVE Balanced(u, w, r)
        <5>1. Dropped(w, r) = Dropped(v, r)
          BY <4>1 DEF Dropped
        <5>2. Quorum!VotedSenders(w, r) = Quorum!VotedSenders(v, r) \cup (IF r = e.subject THEN {e.sender} ELSE {})
          BY <4>2, <4>3 DEF Quorum!VotedSenders
        <5>3. CASE r = e.subject
          <6>1. e.sender \notin Quorum!VotedSenders(v, r)
            <7> SUFFICES ASSUME NEW x \in DOMAIN v.ballots, x[1] = r, x[2] = e.sender PROVE FALSE
              BY DEF Quorum!VotedSenders
            <7>1. x = <<x[1], x[2]>>
              BY <1>2
            <7>2. x = k
              BY <5>3, <7>1
            <7> QED BY <3>2, <7>2
          <6>2. /\ IsFiniteSet(Quorum!VotedSenders(w, r))
                /\ Cardinality(Quorum!VotedSenders(w, r)) = Cardinality(Quorum!VotedSenders(v, r)) + 1
            BY <3>0, <5>2, <5>3, <6>1, OneMore
          <6>3. IsFiniteSet(Answering(u, r)) /\ Cardinality(Answering(u, r)) = Cardinality(Answering(t, r)) + 1
            BY <3>0, <5>3, OneMore
          <6> QED BY <3>0, <5>1, <6>2, <6>3 DEF Balanced
        <5>4. CASE r # e.subject
          <6>1. Answering(u, r) = Answering(t, r) /\ Quorum!VotedSenders(w, r) = Quorum!VotedSenders(v, r)
            BY <3>0, <5>2, <5>4
          <6> QED BY <3>0, <5>1, <6>1 DEF Balanced
        <5> QED BY <5>3, <5>4
      <4> QED BY <1>1, <1>2, <1>4, <2>1, <2>2, <4>1, <4>2, <4>4, <4>5 DEF QuorumInv
    <3> QED BY <3>1, <3>2
  <2> QED BY <2>3, <2>4
<1> QED BY <1>6, <1>7

-----------------------------------------------------------------------------
\* Task.  The slot and the assignees of the tasks are two views of one fact.
TaskFields == {"requested", "status", "progress", "assignee"}

SlotInv(v) ==
    /\ DOMAIN v = DOMAIN Task!TaskInit
    /\ \A t \in DOMAIN v.tasks : DOMAIN v.tasks[t] = TaskFields
    /\ v.slot # Task!Free =>
            v.slot.task \in DOMAIN v.tasks /\ v.tasks[v.slot.task].assignee # Task!Unassigned
    /\ \A t \in DOMAIN v.tasks :
            v.tasks[t].assignee # Task!Unassigned => v.slot # Task!Free /\ v.slot.task = t

LEMMA TaskPhase ==
    ASSUME NEW v, DOMAIN v = DOMAIN Task!TaskInit, NEW phase, NEW w, w = Task!SetPhase(v, phase)
    PROVE  DOMAIN w = DOMAIN v /\ w.tasks = v.tasks /\ w.slot = v.slot
BY DEF Task!SetPhase, Task!TaskInit

\* A request starts its task over, and frees the slot if the task held it.
LEMMA TaskRequestEffect ==
    ASSUME NEW v, SlotInv(v), NEW e, e.type = "TaskRequest", NEW w, w = Task!Effect(v, e)
    PROVE  /\ DOMAIN w = DOMAIN v /\ DOMAIN w.tasks = DOMAIN v.tasks \cup {e.subject}
           /\ DOMAIN w.tasks[e.subject] = TaskFields /\ w.tasks[e.subject].assignee = Task!Unassigned
           /\ \A t \in DOMAIN v.tasks : t # e.subject => w.tasks[t] = v.tasks[t]
           /\ w.slot = IF v.slot.task = e.subject THEN Task!Free ELSE v.slot
<1>1. w = Task!OnTaskRequest(v, e)
  BY DEF Task!Effect, Task!TaskStep
<1>2. PICK x : x = Task!NewTask(e)
  OBVIOUS
<1>3. PICK u : u = [v EXCEPT !.tasks = Task!Put(@, e.subject, x), !.slot = IF @.task = e.subject THEN Task!Free ELSE @]
  OBVIOUS
<1>4. w = Task!SetPhase(u, "Requested")
  BY <1>1, <1>2, <1>3 DEF Task!OnTaskRequest
<1>5. /\ DOMAIN u = DOMAIN v /\ u.tasks = Task!Put(v.tasks, e.subject, x)
      /\ u.slot = IF v.slot.task = e.subject THEN Task!Free ELSE v.slot
  BY <1>3 DEF SlotInv, Task!TaskInit
<1>6. w.tasks = u.tasks /\ w.slot = u.slot /\ DOMAIN w = DOMAIN u
  BY <1>4, <1>5, TaskPhase DEF SlotInv
<1>7. /\ DOMAIN u.tasks = DOMAIN v.tasks \cup {e.subject} /\ u.tasks[e.subject] = x
      /\ \A t \in DOMAIN v.tasks : t # e.subject => u.tasks[t] = v.tasks[t]
  BY <1>5 DEF Task!Put
<1>8. DOMAIN x = TaskFields /\ x.assignee = Task!Unassigned
  BY <1>2 DEF Task!NewTask, TaskFields
<1> QED BY <1>5, <1>6, <1>7, <1>8

\* An accept of a known task takes the free slot, and is nothing to it otherwise.
LEMMA TaskAcceptEffect ==
    ASSUME NEW v, SlotInv(v), NEW e, e.type = "TaskAccept", NEW w, w = Task!Effect(v, e)
    PROVE  /\ DOMAIN w = DOMAIN v /\ DOMAIN w.tasks = DOMAIN v.tasks
           /\ \/ w.tasks = v.tasks /\ w.slot = v.slot
              \/ /\ v.slot = Task!Free /\ e.subject \in DOMAIN v.tasks
                 /\ w.slot = [sender |-> e.sender, task |-> e.subject]
                 /\ DOMAIN w.tasks[e.subject] = TaskFields /\ w.tasks[e.subject].assignee = Task!About(e)
                 /\ \A t \in DOMAIN v.tasks : t # e.subject => w.tasks[t] = v.tasks[t]
<1>1. w = Task!OnTaskAccept(v, e)
  BY DEF Task!Effect, Task!TaskStep
<1>2. CASE ~Task!Known(v, e)
  BY <1>1, <1>2 DEF Task!OnTaskAccept
<1>3. CASE Task!Known(v, e) /\ v.slot # Task!Free
  <2>1. w = [v EXCEPT !.anomalies = Append(@, Discarded("duplicate_task_accept", e))]
    BY <1>1, <1>3 DEF Task!OnTaskAccept, Task!RecordAnomaly, Discarded
  <2> QED BY <2>1 DEF SlotInv, Task!TaskInit
<1>4. CASE Task!Known(v, e) /\ v.slot = Task!Free
  <2>1. PICK a : a = Task!About(e)
    OBVIOUS
  <2>2. PICK x : x = [sender |-> e.sender, task |-> e.subject]
    OBVIOUS
  <2>3. PICK u : u = [v EXCEPT !.slot = x, !.tasks[e.subject].assignee = a, !.tasks[e.subject].status = "accepted"]
    OBVIOUS
  <2>4. w = Task!SetPhase(u, "InProgress")
    BY <1>1, <1>4, <2>1, <2>2, <2>3 DEF Task!OnTaskAccept
  <2>5. e.subject \in DOMAIN v.tasks /\ DOMAIN v.tasks[e.subject] = TaskFields /\ DOMAIN v = DOMAIN Task!TaskInit
    BY <1>4 DEF Task!Known, SlotInv
  <2>6. /\ DOMAIN u = DOMAIN v /\ u.slot = x /\ DOMAIN u.tasks = DOMAIN v.tasks
        /\ DOMAIN u.tasks[e.subject] = TaskFields /\ u.tasks[e.subject].assignee = a
        /\ \A t \in DOMAIN v.tasks : t # e.subject => u.tasks[t] = v.tasks[t]
    BY <2>3, <2>5 DEF Task!TaskInit, TaskFields
  <2>7. w.tasks = u.tasks /\ w.slot = u.slot /\ DOMAIN w = DOMAIN u
    BY <2>4, <2>5, <2>6, TaskPhase
  <2> QED BY <1>4, <2>1, <2>2, <2>5, <2>6, <2>7
<1> QED BY <1>2, <1>3, <1>4

\* A reject of the slot's holder frees the slot and the task that held it; of anyone
\* else it changes neither the slot nor an assignee.
LEMMA TaskRejectEffect ==
    ASSUME NEW v, SlotInv(v), NEW e, e.type = "TaskReject", NEW w, w = Task!Effect(v, e)
    PROVE  /\ DOMAIN w = DOMAIN v /\ DOMAIN w.tasks = DOMAIN v.tasks
           /\ \A t \in DOMAIN w.tasks : DOMAIN w.tasks[t] = TaskFields
           /\ \/ w.slot = v.slot /\ \A t \in DOMAIN v.tasks : w.tasks[t].assignee = v.tasks[t].assignee
              \/ /\ v.slot # Task!Free /\ v.slot.sender = e.sender /\ w.slot = Task!Free
                 /\ w.tasks[v.slot.task].assignee = Task!Unassigned
                 /\ \A t \in DOMAIN v.tasks : t # v.slot.task => w.tasks[t].assignee = v.tasks[t].assignee
<1>1. w = Task!OnTaskReject(v, e)
  BY DEF Task!Effect, Task!TaskStep
<1>2. PICK held : held = (v.slot # Task!Free /\ v.slot.sender = e.sender)
  OBVIOUS
<1>3. PICK marked : marked = IF held /\ Task!Known(v, e) THEN [v.tasks EXCEPT ![e.subject].status = "rejected"] ELSE v.tasks
  OBVIOUS
<1>4. PICK x : x = Task!Rejection(v, e, held)
  OBVIOUS
<1>5. PICK y : y = IF held THEN [marked EXCEPT ![v.slot.task].assignee = Task!Unassigned] ELSE marked
  OBVIOUS
<1>6. w = [v EXCEPT !.rejections = Append(@, x), !.slot = IF held THEN Task!Free ELSE @, !.tasks = y]
  BY <1>1, <1>2, <1>3, <1>4, <1>5 DEF Task!OnTaskReject
<1>7. DOMAIN w = DOMAIN v /\ w.slot = (IF held THEN Task!Free ELSE v.slot) /\ w.tasks = y
  BY <1>6 DEF SlotInv, Task!TaskInit
<1>8. /\ DOMAIN marked = DOMAIN v.tasks
      /\ \A t \in DOMAIN v.tasks : DOMAIN marked[t] = TaskFields /\ marked[t].assignee = v.tasks[t].assignee
  BY <1>3 DEF SlotInv, TaskFields, Task!Known
<1>9. CASE held
  <2>1. v.slot.task \in DOMAIN v.tasks /\ v.slot # Task!Free /\ v.slot.sender = e.sender
    BY <1>2, <1>9 DEF SlotInv
  <2>2. y = [marked EXCEPT ![v.slot.task].assignee = Task!Unassigned]
    BY <1>5, <1>9
  <2>3. /\ DOMAIN y = DOMAIN v.tasks /\ y[v.slot.task].assignee = Task!Unassigned
        /\ \A t \in DOMAIN v.tasks : DOMAIN y[t] = TaskFields
        /\ \A t \in DOMAIN v.tasks : t # v.slot.task => y[t].assignee = v.tasks[t].assignee
    BY <1>8, <2>1, <2>2 DEF TaskFields
  <2> QED BY <1>7, <1>9, <2>1, <2>3
<1>10. CASE ~held
  BY <1>5, <1>7, <1>8, <1>10
<1> QED BY <1>9, <1>10

\* Nothing else changes the slot or an assignee.
LEMMA TaskOtherEffect ==
    ASSUME NEW v, SlotInv(v), NEW e, e.type \notin {"TaskRequest", "TaskAccept", "TaskReject"},
           NEW w, w = Task!Effect(v, e)
    PROVE  /\ DOMAIN w = DOMAIN v /\ DOMAIN w.tasks = DOMAIN v.tasks /\ w.slot = v.slot
           /\ \A t \in DOMAIN v.tasks : DOMAIN w.tasks[t] = TaskFields /\ w.tasks[t].assignee = v.tasks[t].assignee
<1>1. DOMAIN v = DOMAIN Task!TaskInit /\ \A t \in DOMAIN v.tasks : DOMAIN v.tasks[t] = TaskFields
  BY DEF SlotInv
<1>2. CASE e.type = "Commitment"
  <2>1. w = [v EXCEPT !.commitment = e.subject, !.phase = "Committed"]
    BY <1>2 DEF Task!Effect
  <2> QED BY <1>1, <2>1 DEF Task!TaskInit
<1>3. CASE e.type = "TaskUpdate"
  <2>1. w = Task!OnTaskUpdate(v, e)
    BY <1>3 DEF Task!Effect, Task!TaskStep
  <2>2. PICK x : x = [task |-> e.subject, progress |-> e.value]
    OBVIOUS
  <2>3. PICK u : u = [v EXCEPT !.updates = Append(@, x)]
    OBVIOUS
  <2>4. DOMAIN u = DOMAIN v /\ u.tasks = v.tasks /\ u.slot = v.slot
    BY <1>1, <2>3 DEF Task!TaskInit
  <2>5. CASE ~Task!Known(v, e)
    <3>1. w = u
      BY <2>1, <2>2, <2>3, <2>5 DEF Task!OnTaskUpdate
    <3> QED BY <1>1, <2>4, <3>1
  <2>6. CASE Task!Known(v, e)
    <3>1. w = [u EXCEPT !.tasks[e.subject].status = "in_progress", !.tasks[e.subject].progress = e.value]
      BY <2>1, <2>2, <2>3, <2>6 DEF Task!OnTaskUpdate
    <3> QED BY <1>1, <2>4, <2>6, <3>1 DEF Task!TaskInit, TaskFields, Task!Known
  <2> QED BY <2>5, <2>6
<1>4. CASE e.type = "TaskComplete"
  <2>1. w = Task!OnTaskComplete(v, e)
    BY <1>4 DEF Task!Effect, Task!TaskStep
  <2>2. PICK x : x = [task |-> e.subject, assignee |-> Task!About(e)]
    OBVIOUS
  <2>3. PICK u : u = [v EXCEPT !.completions = Append(@, x)]
    OBVIOUS
  <2>4. DOMAIN u = DOMAIN v /\ u.tasks = v.tasks /\ u.slot = v.slot
    BY <1>1, <2>3 DEF Task!TaskInit
  <2>5. CASE ~Task!Known(v, e)
    <3>1. w = u
      BY <2>1, <2>2, <2>3, <2>5 DEF Task!OnTaskComplete
    <3> QED BY <1>1, <2>4, <3>1
  <2>6. CASE Task!Known(v, e)
    <3>1. PICK y : y = [u EXCEPT !.tasks[e.subject].status = "completed", !.tasks[e.subject].progress = 100]
      OBVIOUS
    <3>2. w = Task!SetPhase(y, "Completed")
      BY <2>1, <2>2, <2>3, <2>6, <3>1 DEF Task!OnTaskComplete
    <3>3. /\ DOMAIN y = DOMAIN v /\ DOMAIN y.tasks = DOMAIN v.tasks /\ y.slot = v.slot
          /\ \A t \in DOMAIN v.tasks : DOMAIN y.tasks[t] = TaskFields /\ y.tasks[t].assignee = v.tasks[t].assignee
      BY <1>1, <2>4, <2>6, <3>1 DEF Task!TaskInit, TaskFields, Task!Known
    <3> QED BY <1>1, <3>2, <3>3, TaskPhase
  <2> QED BY <2>5, <2>6
<1>5. CASE e.type = "TaskFail"
  <2>1. w = Task!OnTaskFail(v, e)
    BY <1>5 DEF Task!Effect, Task!TaskStep
  <2>2. PICK x : x = [task |-> e.subject, assignee |-> Task!About(e), retryable |-> e.flag]
    OBVIOUS
  <2>3. PICK u : u = [v EXCEPT !.failures = Append(@, x)]
    OBVIOUS
  <2>4. DOMAIN u = DOMAIN v /\ u.tasks = v.tasks /\ u.slot = v.slot
    BY <1>1, <2>3 DEF Task!TaskInit
  <2>5. CASE ~Task!Known(v, e)
    <3>1. w = u
      BY <2>1, <2>2, <2>3, <2>5 DEF Task!OnTaskFail
    <3> QED BY <1>1, <2>4, <3>1
  <2>6. CASE Task!Known(v, e)
    <3>1. PICK y : y = [u EXCEPT !.tasks[e.subject].status = "failed"]
      OBVIOUS
    <3>2. w = Task!SetPhase(y, "Failed")
      BY <2>1, <2>2, <2>3, <2>6, <3>1 DEF Task!OnTaskFail
    <3>3. /\ DOMAIN y = DOMAIN v /\ DOMAIN y.tasks = DOMAIN v.tasks /\ y.slot = v.slot
          /\ \A t \in DOMAIN v.tasks : DOMAIN y.tasks[t] = TaskFields /\ y.tasks[t].assignee = v.tasks[t].assignee
      BY <1>1, <2>4, <2>6, <3>1 DEF Task!TaskInit, TaskFields, Task!Known
    <3> QED BY <1>1, <3>2, <3>3, TaskPhase
  <2> QED BY <2>5, <2>6
<1>6. CASE e.type \notin {"Commitment", "TaskUpdate", "TaskComplete", "TaskFail"}
  <2>1. Task!Effect(v, e) = Task!TaskStep(v, e)
    BY <1>6 DEF Task!Effect
  <2>2. Task!TaskStep(v, e) = v
    BY <1>6, Zenon DEF Task!TaskStep
  <2> QED BY <1>1, <2>1, <2>2
<1> QED BY <1>2, <1>3, <1>4, <1>5, <1>6

LEMMA TaskKeeps ==
    ASSUME NEW v, SlotInv(v), NEW e, e.type = "TaskAccept" => Task!Unassigned \notin {e.sender, e.value},
           NEW w, w = Task!Effect(v, e)
    PROVE  /\ SlotInv(w)
           /\ v.slot # Task!Free /\ w.slot # v.slot =>
                /\ w.slot = Task!Free
                /\ \/ e.type = "TaskReject" /\ e.sender = v.slot.sender
                   \/ e.type = "TaskRequest" /\ e.subject = v.slot.task
<1>1. CASE e.type = "TaskRequest"
  BY <1>1, TaskRequestEffect DEF SlotInv
<1>2. CASE e.type = "TaskAccept"
  <2>1. Task!About(e) # Task!Unassigned
    BY <1>2 DEF Task!About
  <2>2. [sender |-> e.sender, task |-> e.subject] # Task!Free
    BY <1>2 DEF Task!Free
  <2>3. PICK x : x = [sender |-> e.sender, task |-> e.subject]
    OBVIOUS
  <2>4. x.task = e.subject
    BY <2>3
  <2> QED BY <1>2, <2>1, <2>2, <2>3, <2>4, TaskAcceptEffect DEF SlotInv
<1>3. CASE e.type = "TaskReject"
  BY <1>3, TaskRejectEffect DEF SlotInv
<1>4. CASE e.type \notin {"TaskRequest", "TaskAccept", "TaskReject"}
  BY <1>4, TaskOtherEffect DEF SlotInv
<1> QED BY <1>1, <1>2, <1>3, <1>4

-----------------------------------------------------------------------------
\* Handoff.  The answers to offers seen by then are at least as many as the handoffs
\* settled and the anomalies, and exactly as many while no offer was made twice.
OffersIn(t) == {i \in DOMAIN t : t[i].type = "HandoffOffer"}
AnswersIn(t) ==
    {i \in DOMAIN t : /\ t[i].type \in {"HandoffAccept", "HandoffDecline"}
                      /\ \E j \in 1..i - 1 : t[j].type = "HandoffOffer" /\ t[j].subject = t[i].subject}
SettledIn(v) == {h \in DOMAIN v.handoffs : ~Handoff!IsPending(v, h)}

HandoffRecord(r) ==
    r = [target |-> r.target, status |-> r.status, context |-> r.context,
         acceptedBy |-> r.acceptedBy, declinedBy |-> r.declinedBy, implicit |-> r.implicit]

HandoffInv(t, v) ==
    /\ DOMAIN v = DOMAIN Handoff!HandoffInit
    /\ \A h \in DOMAIN v.handoffs : HandoffRecord(v.handoffs[h])
    /\ DOMAIN v.handoffs = {t[i].subject : i \in OffersIn(t)}
    /\ Sequence(v.anomalies)
    /\ IsFiniteSet(OffersIn(t)) /\ IsFiniteSet(AnswersIn(t)) /\ IsFiniteSet(DOMAIN v.handoffs)
    /\ Cardinality(DOMAIN v.handoffs) <= Cardinality(OffersIn(t))
    /\ Cardinality(AnswersIn(t)) >= Cardinality(SettledIn(v)) + Len(v.anomalies)
    /\ Cardinality(DOMAIN v.handoffs) = Cardinality(OffersIn(t)) =>
            Cardinality(AnswersIn(t)) = Cardinality(SettledIn(v)) + Len(v.anomalies)

LEMMA HandoffPhase ==
    ASSUME NEW v, DOMAIN v = DOMAIN Handoff!HandoffInit, NEW phase, NEW w, w = Handoff!SetPhase(v, phase)
    PROVE  DOMAIN w = DOMAIN v /\ w.handoffs = v.handoffs /\ w.anomalies = v.anomalies
BY DEF Handoff!SetPhase, Handoff!HandoffInit

\* Writing a field of a handoff.
LEMMA StatusWritten ==
    ASSUME NEW r, HandoffRecord(r), NEW x, NEW s, s = [r EXCEPT !.status = x]
    PROVE  HandoffRecord(s) /\ s.status = x
BY DEF HandoffRecord

LEMMA FieldWritten ==
    ASSUME NEW r, HandoffRecord(r), NEW x, NEW s,
           \/ s = [r EXCEPT !.context = x] \/ s = [r EXCEPT !.acceptedBy = x]
           \/ s = [r EXCEPT !.declinedBy = x] \/ s = [r EXCEPT !.implicit = x]
    PROVE  HandoffRecord(s) /\ s.status = r.status
BY DEF HandoffRecord

\* h settles with this step: nothing else about a handoff changes, and no anomaly is left.
Settles(v, w, h) ==
    /\ h \in DOMAIN v.handoffs /\ Handoff!IsPending(v, h) /\ ~Handoff!IsPending(w, h)
    /\ DOMAIN w.handoffs = DOMAIN v.handoffs /\ w.anomalies = v.anomalies
    /\ HandoffRecord(w.handoffs[h])
    /\ \A g \in DOMAIN v.handoffs : g # h => w.handoffs[g] = v.handoffs[g]

\* What each message does to the handoffs and the anomalies.
LEMMA OfferEffect ==
    ASSUME NEW v, DOMAIN v = DOMAIN Handoff!HandoffInit, NEW e, e.type = "HandoffOffer",
           NEW w, w = Handoff!Effect(v, e)
    PROVE  /\ DOMAIN w = DOMAIN v /\ w.anomalies = v.anomalies
           /\ DOMAIN w.handoffs = DOMAIN v.handoffs \cup {e.subject}
           /\ HandoffRecord(w.handoffs[e.subject]) /\ Handoff!IsPending(w, e.subject)
           /\ \A h \in DOMAIN v.handoffs : h # e.subject => w.handoffs[h] = v.handoffs[h]
<1>1. w = Handoff!OnOffer(v, e)
  BY DEF Handoff!Effect, Handoff!HandoffStep
<1>2. PICK x : x = Handoff!Offer(e)
  OBVIOUS
<1>3. PICK u : u = [v EXCEPT !.handoffs = Handoff!Put(@, e.subject, x)]
  OBVIOUS
<1>4. w = Handoff!SetPhase(u, "OfferPending")
  BY <1>1, <1>2, <1>3 DEF Handoff!OnOffer
<1>5. DOMAIN u = DOMAIN v /\ u.handoffs = Handoff!Put(v.handoffs, e.subject, x) /\ u.anomalies = v.anomalies
  BY <1>3 DEF Handoff!HandoffInit
<1>6. DOMAIN w = DOMAIN v /\ w.handoffs = u.handoffs /\ w.anomalies = v.anomalies
  BY <1>4, <1>5, HandoffPhase
<1>7. /\ DOMAIN w.handoffs = DOMAIN v.handoffs \cup {e.subject} /\ w.handoffs[e.subject] = x
      /\ \A h \in DOMAIN v.handoffs : h # e.subject => w.handoffs[h] = v.handoffs[h]
  BY <1>5, <1>6 DEF Handoff!Put
<1>8. HandoffRecord(x) /\ x.status = "offered"
  BY <1>2 DEF Handoff!Offer, HandoffRecord
<1> QED BY <1>6, <1>7, <1>8 DEF Handoff!IsPending, Handoff!Pending

LEMMA ContextEffect ==
    ASSUME NEW v, DOMAIN v = DOMAIN Handoff!HandoffInit, \A h \in DOMAIN v.handoffs : HandoffRecord(v.handoffs[h]),
           NEW e, e.type = "HandoffContext", NEW w, w = Handoff!Effect(v, e)
    PROVE  /\ DOMAIN w = DOMAIN v /\ w.anomalies = v.anomalies /\ DOMAIN w.handoffs = DOMAIN v.handoffs
           /\ \A h \in DOMAIN v.handoffs :
                /\ HandoffRecord(w.handoffs[h])
                /\ Handoff!IsPending(w, h) <=> Handoff!IsPending(v, h)
                /\ ~Handoff!IsPending(v, h) =>
                        [w.handoffs[h] EXCEPT !.context = v.handoffs[h].context] = v.handoffs[h]
<1>1. w = Handoff!OnContext(v, e)
  BY DEF Handoff!Effect, Handoff!HandoffStep
<1>2. CASE ~Handoff!Known(v, e)
  <2>1. w = v
    BY <1>1, <1>2 DEF Handoff!OnContext
  <2>2. \A h \in DOMAIN v.handoffs : [v.handoffs[h] EXCEPT !.context = v.handoffs[h].context] = v.handoffs[h]
    BY DEF HandoffRecord
  <2> QED BY <2>1, <2>2
<1>3. CASE Handoff!Known(v, e)
  <2>1. PICK u : u = [v EXCEPT !.handoffs[e.subject].status = IF @ = "offered" THEN "context_sent" ELSE @,
                               !.handoffs[e.subject].context = e.value]
    OBVIOUS
  <2>2. w = u \/ w = Handoff!SetPhase(u, "ContextSharing")
    BY <1>1, <1>3, <2>1 DEF Handoff!OnContext
  <2>3. e.subject \in DOMAIN v.handoffs
    BY <1>3 DEF Handoff!Known
  <2>4. PICK x : x = [v.handoffs[e.subject] EXCEPT
                        !.status = IF v.handoffs[e.subject].status = "offered" THEN "context_sent"
                                   ELSE v.handoffs[e.subject].status]
    OBVIOUS
  <2>5. PICK y : y = [x EXCEPT !.context = e.value]
    OBVIOUS
  <2>6. /\ DOMAIN u = DOMAIN v /\ u.anomalies = v.anomalies /\ DOMAIN u.handoffs = DOMAIN v.handoffs
        /\ u.handoffs[e.subject] = y
        /\ \A h \in DOMAIN v.handoffs : h # e.subject => u.handoffs[h] = v.handoffs[h]
    BY <2>1, <2>3, <2>4, <2>5 DEF Handoff!HandoffInit, HandoffRecord
  <2>7. DOMAIN w = DOMAIN v /\ w.anomalies = v.anomalies /\ w.handoffs = u.handoffs
    BY <2>2, <2>6, HandoffPhase
  <2>8. /\ HandoffRecord(y)
        /\ y.status = IF v.handoffs[e.subject].status = "offered" THEN "context_sent" ELSE v.handoffs[e.subject].status
    <3>1. HandoffRecord(v.handoffs[e.subject])
      BY <2>3
    <3>2. /\ HandoffRecord(x)
          /\ x.status = IF v.handoffs[e.subject].status = "offered" THEN "context_sent" ELSE v.handoffs[e.subject].status
      BY <2>4, <3>1, StatusWritten
    <3> QED BY <2>5, <3>2, FieldWritten
  <2>9. v.handoffs[e.subject].status # "offered" => [y EXCEPT !.context = v.handoffs[e.subject].context] = v.handoffs[e.subject]
    BY <2>3, <2>4, <2>5 DEF HandoffRecord
  <2>10. \A h \in DOMAIN v.handoffs : [v.handoffs[h] EXCEPT !.context = v.handoffs[h].context] = v.handoffs[h]
    BY DEF HandoffRecord
  <2>11. ASSUME NEW h \in DOMAIN v.handoffs
         PROVE  /\ HandoffRecord(w.handoffs[h])
                /\ Handoff!IsPending(w, h) <=> Handoff!IsPending(v, h)
                /\ ~Handoff!IsPending(v, h) =>
                        [w.handoffs[h] EXCEPT !.context = v.handoffs[h].context] = v.handoffs[h]
    <3>1. CASE h = e.subject
      BY <2>6, <2>7, <2>8, <2>9, <3>1 DEF Handoff!IsPending, Handoff!Pending
    <3>2. CASE h # e.subject
      BY <2>6, <2>7, <2>10, <3>2 DEF Handoff!IsPending
    <3> QED BY <3>1, <3>2
  <2> QED BY <2>6, <2>7, <2>11
<1> QED BY <1>2, <1>3

LEMMA AnswerEffect ==
    ASSUME NEW v, DOMAIN v = DOMAIN Handoff!HandoffInit, \A h \in DOMAIN v.handoffs : HandoffRecord(v.handoffs[h]),
           NEW e, e.type \in {"HandoffAccept", "HandoffDecline"}, NEW w, w = Handoff!Effect(v, e)
    PROVE  /\ DOMAIN w = DOMAIN v
           /\ \/ e.subject \notin DOMAIN v.handoffs /\ w = v
              \/ /\ e.subject \in DOMAIN v.handoffs /\ w.handoffs = v.handoffs
                 /\ w.anomalies = Append(v.anomalies, Discarded("settled_handoff", e))
              \/ Settles(v, w, e.subject)
<1>1. w = IF e.type = "HandoffAccept" THEN Handoff!OnAccept(v, e) ELSE Handoff!OnDecline(v, e)
  BY DEF Handoff!Effect, Handoff!HandoffStep
<1>2. CASE ~Handoff!Known(v, e)
  <2>1. w = v
    BY <1>1, <1>2 DEF Handoff!OnAccept, Handoff!OnDecline
  <2> QED BY <1>2, <2>1 DEF Handoff!Known
<1>3. CASE Handoff!Known(v, e) /\ ~Handoff!IsPending(v, e.subject)
  <2>1. w = [v EXCEPT !.anomalies = Append(@, Discarded("settled_handoff", e))]
    BY <1>1, <1>3 DEF Handoff!OnAccept, Handoff!OnDecline, Handoff!RecordAnomaly, Discarded
  <2>2. DOMAIN w = DOMAIN v /\ w.handoffs = v.handoffs /\ w.anomalies = Append(v.anomalies, Discarded("settled_handoff", e))
    BY <2>1 DEF Handoff!HandoffInit
  <2> QED BY <1>3, <2>2 DEF Handoff!Known
<1>4. CASE Handoff!Known(v, e) /\ Handoff!IsPending(v, e.subject)
  <2>1. e.subject \in DOMAIN v.handoffs
    BY <1>4 DEF Handoff!Known
  <2>2. PICK u, phase :
            /\ w = Handoff!SetPhase(u, phase)
            /\ \/ u = [v EXCEPT !.handoffs[e.subject].status = "accepted",
                                !.handoffs[e.subject].acceptedBy = e.value,
                                !.handoffs[e.subject].implicit = e.flag]
               \/ u = [v EXCEPT !.handoffs[e.subject].status = "declined",
                                !.handoffs[e.subject].declinedBy = e.value]
    BY <1>1, <1>4 DEF Handoff!OnAccept, Handoff!OnDecline
  <2>3. /\ DOMAIN u = DOMAIN v /\ u.anomalies = v.anomalies /\ DOMAIN u.handoffs = DOMAIN v.handoffs
        /\ \A g \in DOMAIN v.handoffs : g # e.subject => u.handoffs[g] = v.handoffs[g]
        /\ HandoffRecord(u.handoffs[e.subject]) /\ u.handoffs[e.subject].status \in {"accepted", "declined"}
    <3>0. HandoffRecord(v.handoffs[e.subject])
      BY <2>1
    <3>1. CASE u = [v EXCEPT !.handoffs[e.subject].status = "accepted",
                                !.handoffs[e.subject].acceptedBy = e.value,
                                !.handoffs[e.subject].implicit = e.flag]
      <4>1. PICK x : x = [v.handoffs[e.subject] EXCEPT !.status = "accepted"]
        OBVIOUS
      <4>2. PICK y : y = [x EXCEPT !.acceptedBy = e.value]
        OBVIOUS
      <4>3. PICK z : z = [y EXCEPT !.implicit = e.flag]
        OBVIOUS
      <4>4. HandoffRecord(z) /\ z.status = "accepted"
        <5>1. HandoffRecord(x) /\ x.status = "accepted"
          BY <3>0, <4>1, StatusWritten
        <5>2. HandoffRecord(y) /\ y.status = "accepted"
          BY <4>2, <5>1, FieldWritten
        <5> QED BY <4>3, <5>2, FieldWritten
      <4>5. /\ DOMAIN u = DOMAIN v /\ u.anomalies = v.anomalies /\ DOMAIN u.handoffs = DOMAIN v.handoffs
            /\ u.handoffs[e.subject] = z
            /\ \A g \in DOMAIN v.handoffs : g # e.subject => u.handoffs[g] = v.handoffs[g]
        BY <2>1, <3>1, <4>1, <4>2, <4>3 DEF Handoff!HandoffInit
      <4> QED BY <4>4, <4>5
    <3>2. CASE u = [v EXCEPT !.handoffs[e.subject].status = "declined",
                                !.handoffs[e.subject].declinedBy = e.value]
      <4>1. PICK x : x = [v.handoffs[e.subject] EXCEPT !.status = "declined"]
        OBVIOUS
      <4>2. PICK z : z = [x EXCEPT !.declinedBy = e.value]
        OBVIOUS
      <4>3. HandoffRecord(z) /\ z.status = "declined"
        <5>1. HandoffRecord(x) /\ x.status = "declined"
          BY <3>0, <4>1, StatusWritten
        <5> QED BY <4>2, <5>1, FieldWritten
      <4>4. /\ DOMAIN u = DOMAIN v /\ u.anomalies = v.anomalies /\ DOMAIN u.handoffs = DOMAIN v.handoffs
            /\ u.handoffs[e.subject] = z
            /\ \A g \in DOMAIN v.handoffs : g # e.subject => u.handoffs[g] = v.handoffs[g]
        BY <2>1, <3>2, <4>1, <4>2 DEF Handoff!HandoffInit
      <4> QED BY <4>3, <4>4
    <3> QED BY <2>2, <3>1, <3>2
  <2>4. DOMAIN w = DOMAIN v /\ w.anomalies = u.anomalies /\ w.handoffs = u.handoffs
    BY <2>2, <2>3, HandoffPhase
  <2> QED BY <1>4, <2>1, <2>3, <2>4 DEF Settles, Handoff!IsPending, Handoff!Pending
<1> QED BY <1>2, <1>3, <1>4

LEMMA HandoffOtherEffect ==
    ASSUME NEW v, DOMAIN v = DOMAIN Handoff!HandoffInit, NEW e, NEW w, w = Handoff!Effect(v, e),
           e.type \notin {"HandoffOffer", "HandoffContext", "HandoffAccept", "HandoffDecline"}
    PROVE  DOMAIN w = DOMAIN v /\ w.handoffs = v.handoffs /\ w.anomalies = v.anomalies
<1>1. CASE e.type = "Commitment"
  <2>1. w = [v EXCEPT !.commitment = e.subject, !.phase = "Committed"]
    BY <1>1 DEF Handoff!Effect
  <2> QED BY <2>1 DEF Handoff!HandoffInit
<1>2. CASE e.type # "Commitment"
  <2>1. Handoff!Effect(v, e) = Handoff!HandoffStep(v, e)
    BY <1>2 DEF Handoff!Effect
  <2>2. Handoff!HandoffStep(v, e) = v
    BY Zenon DEF Handoff!HandoffStep
  <2> QED BY <2>1, <2>2
<1> QED BY <1>1, <1>2

\* The outcome of a handoff stays as it was, but for its context.
SameOutcome(v, w, h) ==
    h \in DOMAIN w.handoffs /\ [w.handoffs[h] EXCEPT !.context = v.handoffs[h].context] = v.handoffs[h]

LEMMA HandoffKeeps ==
    ASSUME NEW t, NEW v, HandoffInv(t, v), NEW e, NEW u, Grown(t, e, u), NEW w, w = Handoff!Effect(v, e)
    PROVE  /\ HandoffInv(u, w)
           /\ \A h \in DOMAIN v.handoffs :
                ~Handoff!IsPending(v, h) /\ ~(e.type = "HandoffOffer" /\ e.subject = h) => SameOutcome(v, w, h)
<1> PICK n : n = Len(t) + 1
  OBVIOUS
<1> PICK s : s = e.subject
  OBVIOUS
<1>1. DOMAIN v = DOMAIN Handoff!HandoffInit /\ \A h \in DOMAIN v.handoffs : HandoffRecord(v.handoffs[h])
  BY DEF HandoffInv
<1>2. DOMAIN v.handoffs = {t[i].subject : i \in OffersIn(t)}
  BY DEF HandoffInv
<1>3. /\ Sequence(v.anomalies)
      /\ IsFiniteSet(OffersIn(t)) /\ IsFiniteSet(AnswersIn(t)) /\ IsFiniteSet(DOMAIN v.handoffs)
  BY DEF HandoffInv
<1>4. /\ Cardinality(DOMAIN v.handoffs) <= Cardinality(OffersIn(t))
      /\ Cardinality(AnswersIn(t)) >= Cardinality(SettledIn(v)) + Len(v.anomalies)
      /\ Cardinality(DOMAIN v.handoffs) = Cardinality(OffersIn(t)) =>
            Cardinality(AnswersIn(t)) = Cardinality(SettledIn(v)) + Len(v.anomalies)
  BY DEF HandoffInv
<1>5. /\ IsFiniteSet(SettledIn(v)) /\ Cardinality(SettledIn(v)) \in Nat /\ Len(v.anomalies) \in Nat
      /\ Cardinality(DOMAIN v.handoffs) \in Nat /\ Cardinality(OffersIn(t)) \in Nat
      /\ Cardinality(AnswersIn(t)) \in Nat
  <2>1. SettledIn(v) \subseteq DOMAIN v.handoffs
    BY DEF SettledIn
  <2>2. IsFiniteSet(SettledIn(v))
    BY <1>3, <2>1, FS_Subset
  <2>3. Len(v.anomalies) \in Nat
    BY <1>3 DEF Sequence
  <2> QED BY <1>3, <2>2, <2>3, FS_CardinalityType
<1>6. /\ DOMAIN t = 1..Len(t) /\ Len(t) \in Nat /\ DOMAIN u = DOMAIN t \cup {n} /\ n \notin DOMAIN t
      /\ u[n] = e /\ (\A i \in DOMAIN t : u[i] = t[i]) /\ \A i \in DOMAIN t : 1..i - 1 \subseteq DOMAIN t
      /\ 1..n - 1 = DOMAIN t
  BY DEF Grown
<1>7. n \notin OffersIn(t) /\ OffersIn(u) = OffersIn(t) \cup (IF e.type = "HandoffOffer" THEN {n} ELSE {})
  BY <1>6 DEF OffersIn
<1>8. /\ n \notin AnswersIn(t)
      /\ AnswersIn(u) = AnswersIn(t) \cup
            (IF e.type \in {"HandoffAccept", "HandoffDecline"} /\ s \in DOMAIN v.handoffs THEN {n} ELSE {})
  <2>1. ASSUME NEW i \in DOMAIN t PROVE i \in AnswersIn(u) <=> i \in AnswersIn(t)
    BY <1>6 DEF AnswersIn
  <2>2. n \in AnswersIn(u) <=> e.type \in {"HandoffAccept", "HandoffDecline"} /\ s \in DOMAIN v.handoffs
    BY <1>2, <1>6 DEF AnswersIn, OffersIn
  <2>3. AnswersIn(u) \subseteq DOMAIN t \cup {n} /\ AnswersIn(t) \subseteq DOMAIN t
    BY <1>6 DEF AnswersIn
  <2> QED BY <1>6, <2>1, <2>2, <2>3
<1>9. {u[i].subject : i \in OffersIn(u)} = DOMAIN v.handoffs \cup (IF e.type = "HandoffOffer" THEN {s} ELSE {})
  <2>1. OffersIn(t) \subseteq DOMAIN t
    BY DEF OffersIn
  <2> QED BY <1>2, <1>6, <1>7, <2>1
<1>10. \A h \in DOMAIN v.handoffs : w.handoffs[h] = v.handoffs[h] /\ h \in DOMAIN w.handoffs => SameOutcome(v, w, h)
  <2> SUFFICES ASSUME NEW h \in DOMAIN v.handoffs, w.handoffs[h] = v.handoffs[h], h \in DOMAIN w.handoffs
               PROVE  SameOutcome(v, w, h)
    OBVIOUS
  <2>1. HandoffRecord(v.handoffs[h])
    BY <1>1
  <2>2. [v.handoffs[h] EXCEPT !.context = v.handoffs[h].context] = v.handoffs[h]
    BY <2>1 DEF HandoffRecord
  <2> QED BY <2>2 DEF SameOutcome
<1>11. CASE e.type = "HandoffOffer"
  <2>1. /\ DOMAIN w = DOMAIN v /\ w.anomalies = v.anomalies
        /\ DOMAIN w.handoffs = DOMAIN v.handoffs \cup {s}
        /\ HandoffRecord(w.handoffs[s]) /\ Handoff!IsPending(w, s)
        /\ \A h \in DOMAIN v.handoffs : h # s => w.handoffs[h] = v.handoffs[h]
    BY <1>1, <1>11, OfferEffect
  <2>2. IsFiniteSet(OffersIn(u)) /\ Cardinality(OffersIn(u)) = Cardinality(OffersIn(t)) + 1
    BY <1>3, <1>7, <1>11, OneMore
  <2>3. AnswersIn(u) = AnswersIn(t)
    BY <1>8, <1>11
  <2>4. SettledIn(w) = SettledIn(v) \ {s}
    BY <2>1 DEF SettledIn, Handoff!IsPending
  <2>5. \A h \in DOMAIN w.handoffs : HandoffRecord(w.handoffs[h])
    BY <1>1, <2>1
  <2>6. DOMAIN w.handoffs = {u[i].subject : i \in OffersIn(u)}
    BY <1>9, <1>11, <2>1
  <2>7. \A h \in DOMAIN v.handoffs : h # s => SameOutcome(v, w, h)
    BY <1>10, <2>1
  <2>8. CASE s \notin DOMAIN v.handoffs
    <3>1. IsFiniteSet(DOMAIN w.handoffs) /\ Cardinality(DOMAIN w.handoffs) = Cardinality(DOMAIN v.handoffs) + 1
      BY <1>3, <2>1, <2>8, OneMore
    <3>2. SettledIn(w) = SettledIn(v)
      BY <2>4, <2>8 DEF SettledIn
    <3>3. w.anomalies = v.anomalies /\ DOMAIN w = DOMAIN v
      BY <2>1
    <3>4. /\ Cardinality(DOMAIN w.handoffs) <= Cardinality(OffersIn(u))
          /\ Cardinality(AnswersIn(u)) >= Cardinality(SettledIn(w)) + Len(w.anomalies)
          /\ Cardinality(DOMAIN w.handoffs) = Cardinality(OffersIn(u)) =>
                Cardinality(AnswersIn(u)) = Cardinality(SettledIn(w)) + Len(w.anomalies)
      BY <1>4, <1>5, <2>2, <2>3, <3>1, <3>2, <3>3
    <3>5. HandoffInv(u, w)
      BY <1>1, <1>3, <2>2, <2>3, <2>5, <2>6, <3>1, <3>3, <3>4 DEF HandoffInv
    <3> QED BY <1>11, <2>7, <3>5
  <2>9. CASE s \in DOMAIN v.handoffs
    <3>1. DOMAIN w.handoffs = DOMAIN v.handoffs
      BY <2>1, <2>9
    <3>2. Cardinality(SettledIn(w)) <= Cardinality(SettledIn(v)) /\ Cardinality(SettledIn(w)) \in Nat
      <4>1. SettledIn(w) \subseteq SettledIn(v)
        BY <2>4
      <4>2. IsFiniteSet(SettledIn(w)) /\ Cardinality(SettledIn(w)) <= Cardinality(SettledIn(v))
        BY <1>5, <4>1, FS_Subset
      <4> QED BY <4>2, FS_CardinalityType
    <3>3. w.anomalies = v.anomalies /\ DOMAIN w = DOMAIN v
      BY <2>1
    <3>4. /\ Cardinality(DOMAIN w.handoffs) < Cardinality(OffersIn(u))
          /\ Cardinality(AnswersIn(u)) >= Cardinality(SettledIn(w)) + Len(w.anomalies)
      BY <1>4, <1>5, <2>2, <2>3, <3>1, <3>2, <3>3
    <3>5. Cardinality(DOMAIN w.handoffs) # Cardinality(OffersIn(u)) /\ Cardinality(DOMAIN w.handoffs) <= Cardinality(OffersIn(u))
      BY <1>5, <2>2, <3>1, <3>4
    <3>6. HandoffInv(u, w)
      BY <1>1, <1>3, <2>2, <2>3, <2>5, <2>6, <3>1, <3>3, <3>4, <3>5 DEF HandoffInv
    <3> QED BY <1>11, <2>7, <3>6
  <2> QED BY <2>8, <2>9
<1>12. CASE e.type \in {"HandoffAccept", "HandoffDecline"}
  <2>1. OffersIn(u) = OffersIn(t) /\ DOMAIN w = DOMAIN v
    BY <1>1, <1>7, <1>12, AnswerEffect
  <2>2. {u[i].subject : i \in OffersIn(u)} = DOMAIN v.handoffs
    BY <1>9, <1>12
  <2>3. CASE s \notin DOMAIN v.handoffs /\ w = v
    <3>1. AnswersIn(u) = AnswersIn(t)
      BY <1>8, <2>3
    <3> QED BY <1>1, <1>3, <1>4, <1>10, <2>1, <2>2, <2>3, <3>1 DEF HandoffInv
  <2>4. CASE /\ s \in DOMAIN v.handoffs /\ w.handoffs = v.handoffs
             /\ w.anomalies = Append(v.anomalies, Discarded("settled_handoff", e))
    <3>1. IsFiniteSet(AnswersIn(u)) /\ Cardinality(AnswersIn(u)) = Cardinality(AnswersIn(t)) + 1
      BY <1>3, <1>8, <1>12, <2>4, OneMore
    <3>2. Sequence(w.anomalies) /\ Len(w.anomalies) = Len(v.anomalies) + 1
      BY <1>3, <2>4, AppendSequence DEF Grown
    <3>3. SettledIn(w) = SettledIn(v) /\ w.handoffs = v.handoffs
      BY <2>4 DEF SettledIn, Handoff!IsPending
    <3>4. /\ Cardinality(AnswersIn(u)) >= Cardinality(SettledIn(w)) + Len(w.anomalies)
          /\ Cardinality(DOMAIN w.handoffs) = Cardinality(OffersIn(u)) =>
                Cardinality(AnswersIn(u)) = Cardinality(SettledIn(w)) + Len(w.anomalies)
      BY <1>4, <1>5, <2>1, <3>1, <3>2, <3>3
    <3> QED BY <1>1, <1>3, <1>4, <1>10, <2>1, <2>2, <3>1, <3>2, <3>3, <3>4 DEF HandoffInv
  <2>5. CASE Settles(v, w, s)
    <3>1. /\ s \in DOMAIN v.handoffs /\ Handoff!IsPending(v, s) /\ ~Handoff!IsPending(w, s)
          /\ DOMAIN w.handoffs = DOMAIN v.handoffs /\ w.anomalies = v.anomalies
          /\ HandoffRecord(w.handoffs[s])
          /\ \A g \in DOMAIN v.handoffs : g # s => w.handoffs[g] = v.handoffs[g]
      BY <2>5 DEF Settles
    <3>2. IsFiniteSet(AnswersIn(u)) /\ Cardinality(AnswersIn(u)) = Cardinality(AnswersIn(t)) + 1
      BY <1>3, <1>8, <1>12, <3>1, OneMore
    <3>3. s \notin SettledIn(v) /\ SettledIn(w) = SettledIn(v) \cup {s}
      BY <3>1 DEF SettledIn, Handoff!IsPending
    <3>4. Cardinality(SettledIn(w)) = Cardinality(SettledIn(v)) + 1
      BY <1>5, <3>3, OneMore
    <3>5. Len(w.anomalies) = Len(v.anomalies) /\ DOMAIN w.handoffs = DOMAIN v.handoffs
      BY <3>1
    <3>6. /\ Cardinality(AnswersIn(u)) >= Cardinality(SettledIn(w)) + Len(w.anomalies)
          /\ Cardinality(DOMAIN w.handoffs) = Cardinality(OffersIn(u)) =>
                Cardinality(AnswersIn(u)) = Cardinality(SettledIn(w)) + Len(w.anomalies)
      BY <1>4, <1>5, <2>1, <3>2, <3>4, <3>5
    <3>7. \A h \in DOMAIN w.handoffs : HandoffRecord(w.handoffs[h])
      BY <1>1, <3>1
    <3>8. \A h \in DOMAIN v.handoffs : ~Handoff!IsPending(v, h) => SameOutcome(v, w, h)
      BY <1>10, <3>1
    <3> QED BY <1>1, <1>3, <1>4, <2>1, <2>2, <3>1, <3>2, <3>6, <3>7, <3>8 DEF HandoffInv
  <2> QED BY <1>1, <1>12, <2>3, <2>4, <2>5, AnswerEffect
<1>13. CASE e.type \notin {"HandoffOffer", "HandoffAccept", "HandoffDecline"}
  <2>1. OffersIn(u) = OffersIn(t) /\ AnswersIn(u) = AnswersIn(t)
    BY <1>7, <1>8, <1>13
  <2>2. {u[i].subject : i \in OffersIn(u)} = DOMAIN v.handoffs
    BY <1>9, <1>13
  <2>3. /\ DOMAIN w = DOMAIN v /\ w.anomalies = v.anomalies /\ DOMAIN w.handoffs = DOMAIN v.handoffs
        /\ \A h \in DOMAIN v.handoffs :
                HandoffRecord(w.handoffs[h]) /\ (Handoff!IsPending(w, h) <=> Handoff!IsPending(v, h))
        /\ \A h \in DOMAIN v.handoffs : ~Handoff!IsPending(v, h) => SameOutcome(v, w, h)
    <3>1. CASE e.type = "HandoffContext"
      BY <1>1, <3>1, ContextEffect DEF SameOutcome
    <3>2. CASE e.type # "HandoffContext"
      <4>1. DOMAIN w = DOMAIN v /\ w.handoffs = v.handoffs /\ w.anomalies = v.anomalies
        BY <1>1, <1>13, <3>2, HandoffOtherEffect
      <4> QED BY <1>1, <1>10, <4>1 DEF Handoff!IsPending
    <3> QED BY <3>1, <3>2
  <2>4. SettledIn(w) = SettledIn(v)
    BY <2>3 DEF SettledIn
  <2> QED BY <1>1, <1>3, <1>4, <2>1, <2>2, <2>3, <2>4 DEF HandoffInv
<1> QED BY <1>11, <1>12, <1>13

-----------------------------------------------------------------------------
\* Proposal.  Everyone who accepted something is on record with the last one, and the
\* phase tells whether a proposal seen by then was rejected for good.
Opens(e) == e.type \in {"Proposal", "CounterProposal"}
AcceptsBy(t, s) == {i \in DOMAIN t : t[i].type = "Accept" /\ t[i].sender = s}
LastAccepts(t, s, p) ==
    \E i \in AcceptsBy(t, s) : (\A j \in AcceptsBy(t, s) : j <= i) /\ t[i].subject = p
Ended(t) ==
    \E i, j \in DOMAIN t : j < i /\ t[i].type = "Reject" /\ t[i].flag /\ Opens(t[j]) /\ t[j].subject = t[i].subject

ProposalInv(t, v) ==
    /\ DOMAIN v = DOMAIN Proposal!ProposalInit
    /\ DOMAIN v.proposals = {t[i].subject : i \in {j \in DOMAIN t : Opens(t[j])}}
    /\ DOMAIN v.latest = {t[i].sender : i \in {j \in DOMAIN t : t[j].type = "Accept"}}
    /\ IsFiniteSet(Proposal!Accepting(v))
    /\ \A s \in DOMAIN v.latest : LastAccepts(t, s, v.latest[s])
    /\ v.phase # "Committed" => (v.phase = "TerminalRejected" <=> Ended(t))

\* What setting the phase does.
LEMMA ProposalPhase ==
    ASSUME NEW v, DOMAIN v = DOMAIN Proposal!ProposalInit, NEW phase, NEW w, w = Proposal!SetPhase(v, phase)
    PROVE  /\ DOMAIN w = DOMAIN v /\ w.proposals = v.proposals /\ w.latest = v.latest
           /\ w.phase = IF v.phase = "Committed" THEN v.phase ELSE phase
BY DEF Proposal!SetPhase, Proposal!ProposalInit

\* What each message does to the proposals, the last accepts and the phase.
ProposalMoves(v, e, w) ==
    /\ DOMAIN w = DOMAIN v
    /\ Opens(e) => DOMAIN w.proposals = DOMAIN v.proposals \cup {e.subject}
    /\ ~Opens(e) => DOMAIN w.proposals = DOMAIN v.proposals
    /\ e.type = "Accept" => w.latest = Proposal!Put(v.latest, e.sender, e.subject)
    /\ e.type # "Accept" => w.latest = v.latest
    /\ e.type \notin {"Commitment", "Reject"} => w.phase = v.phase
    /\ e.type = "Commitment" => w.phase = "Committed"
    /\ e.type = "Reject" =>
         w.phase = IF e.flag /\ e.subject \in DOMAIN v.proposals /\ v.phase # "Committed"
                   THEN "TerminalRejected" ELSE v.phase

LEMMA ProposalEffect ==
    ASSUME NEW v, DOMAIN v = DOMAIN Proposal!ProposalInit, NEW e, NEW w, w = Proposal!Effect(v, e)
    PROVE  ProposalMoves(v, e, w)
<1>1. CASE e.type = "Commitment"
  <2>1. w = [v EXCEPT !.commitment = e.subject, !.phase = "Committed"]
    BY <1>1 DEF Proposal!Effect
  <2> QED BY <1>1, <2>1 DEF ProposalMoves, Proposal!ProposalInit, Opens
<1>2. CASE Opens(e)
  <2>1. PICK x : w = Proposal!OnPropose(v, e, x)
    BY <1>2 DEF Proposal!Effect, Proposal!ProposalStep, Opens
  <2>2. PICK y : y = [sender |-> e.sender, supersedes |-> x, status |-> "open"]
    OBVIOUS
  <2>3. w = [v EXCEPT !.proposals = Proposal!Put(@, e.subject, y)]
    BY <2>1, <2>2 DEF Proposal!OnPropose
  <2>4. /\ DOMAIN w = DOMAIN v /\ w.proposals = Proposal!Put(v.proposals, e.subject, y)
        /\ w.latest = v.latest /\ w.phase = v.phase
    BY <2>3 DEF Proposal!ProposalInit
  <2>5. DOMAIN w.proposals = DOMAIN v.proposals \cup {e.subject}
    BY <2>4 DEF Proposal!Put
  <2> QED BY <1>2, <2>4, <2>5 DEF ProposalMoves, Opens
<1>3. CASE e.type = "Accept"
  <2>1. w = Proposal!OnAccept(v, e)
    BY <1>3 DEF Proposal!Effect, Proposal!ProposalStep
  <2>2. PICK x : x = [proposal |-> e.subject, sender |-> e.sender]
    OBVIOUS
  <2>3. w = [v EXCEPT !.accepts = Append(@, x), !.latest = Proposal!Put(@, e.sender, e.subject)]
    BY <2>1, <2>2 DEF Proposal!OnAccept
  <2> QED BY <1>3, <2>3 DEF ProposalMoves, Proposal!ProposalInit, Opens
<1>4. CASE e.type = "Reject"
  <2>1. w = Proposal!OnReject(v, e)
    BY <1>4 DEF Proposal!Effect, Proposal!ProposalStep
  <2>2. PICK x : x = [proposal |-> e.subject, sender |-> e.sender, terminal |-> e.flag]
    OBVIOUS
  <2>3. PICK u : u = [v EXCEPT !.rejections = Append(@, x)]
    OBVIOUS
  <2>4. DOMAIN u = DOMAIN v /\ u.proposals = v.proposals /\ u.latest = v.latest /\ u.phase = v.phase
    BY <2>3 DEF Proposal!ProposalInit
  <2>5. CASE ~e.flag \/ ~Proposal!Known(v, e)
    <3>1. w = u
      BY <2>1, <2>2, <2>3, <2>5 DEF Proposal!OnReject
    <3> QED BY <1>4, <2>4, <2>5, <3>1 DEF ProposalMoves, Proposal!Known, Opens
  <2>6. CASE e.flag /\ Proposal!Known(v, e)
    <3>1. PICK y : y = [u EXCEPT !.proposals[e.subject].status = "rejected"]
      OBVIOUS
    <3>2. w = Proposal!SetPhase(y, "TerminalRejected")
      BY <2>1, <2>2, <2>3, <2>6, <3>1 DEF Proposal!OnReject
    <3>3. DOMAIN y = DOMAIN v /\ DOMAIN y.proposals = DOMAIN v.proposals /\ y.latest = v.latest /\ y.phase = v.phase
      BY <2>4, <2>6, <3>1 DEF Proposal!ProposalInit, Proposal!Known
    <3>4. /\ DOMAIN w = DOMAIN v /\ DOMAIN w.proposals = DOMAIN v.proposals /\ w.latest = v.latest
          /\ w.phase = IF v.phase = "Committed" THEN v.phase ELSE "TerminalRejected"
      BY <3>2, <3>3, ProposalPhase
    <3> QED BY <1>4, <2>6, <3>4 DEF ProposalMoves, Proposal!Known, Opens
  <2> QED BY <2>5, <2>6
<1>5. CASE e.type = "Withdraw"
  <2>1. w = Proposal!OnWithdraw(v, e)
    BY <1>5 DEF Proposal!Effect, Proposal!ProposalStep
  <2>2. CASE ~Proposal!Known(v, e)
    <3>1. w = v
      BY <2>1, <2>2 DEF Proposal!OnWithdraw
    <3> QED BY <1>5, <3>1 DEF ProposalMoves, Opens
  <2>3. CASE Proposal!Known(v, e)
    <3>1. w = [v EXCEPT !.proposals[e.subject].status = "withdrawn"]
      BY <2>1, <2>3 DEF Proposal!OnWithdraw
    <3>2. DOMAIN w = DOMAIN v /\ DOMAIN w.proposals = DOMAIN v.proposals /\ w.latest = v.latest /\ w.phase = v.phase
      BY <2>3, <3>1 DEF Proposal!ProposalInit, Proposal!Known
    <3> QED BY <1>5, <3>2 DEF ProposalMoves, Opens
  <2> QED BY <2>2, <2>3
<1>6. CASE e.type \notin {"Commitment", "Proposal", "CounterProposal", "Accept", "Reject", "Withdraw"}
  <2>1. Proposal!Effect(v, e) = Proposal!ProposalStep(v, e)
    BY <1>6 DEF Proposal!Effect
  <2>2. Proposal!ProposalStep(v, e) = v
    BY <1>6, Zenon DEF Proposal!ProposalStep
  <2> QED BY <1>6, <2>1, <2>2 DEF ProposalMoves, Opens
<1> QED BY <1>1, <1>2, <1>3, <1>4, <1>5, <1>6 DEF ProposalMoves, Opens

LEMMA ProposalKeeps ==
    ASSUME NEW t, NEW v, ProposalInv(t, v), NEW e, NEW u, Grown(t, e, u), NEW w, w = Proposal!Effect(v, e)
    PROVE  ProposalInv(u, w)
<1> PICK n : n = Len(t) + 1
  OBVIOUS
<1>1. DOMAIN v = DOMAIN Proposal!ProposalInit
  BY DEF ProposalInv
<1>2. /\ DOMAIN v.proposals = {t[i].subject : i \in {j \in DOMAIN t : Opens(t[j])}}
      /\ DOMAIN v.latest = {t[i].sender : i \in {j \in DOMAIN t : t[j].type = "Accept"}}
      /\ IsFiniteSet(Proposal!Accepting(v))
      /\ \A s \in DOMAIN v.latest : LastAccepts(t, s, v.latest[s])
      /\ v.phase # "Committed" => (v.phase = "TerminalRejected" <=> Ended(t))
  BY DEF ProposalInv
<1>3. /\ DOMAIN t = 1..Len(t) /\ Len(t) \in Nat /\ DOMAIN u = DOMAIN t \cup {n} /\ n \notin DOMAIN t
      /\ u[n] = e /\ (\A i \in DOMAIN t : u[i] = t[i]) /\ (\A i \in DOMAIN t : i < n /\ ~(n < i)) /\ ~(n < n)
      /\ n <= n /\ \A i \in DOMAIN t : i <= n
  BY DEF Grown
<1>4. ProposalMoves(v, e, w)
  BY <1>1, ProposalEffect
<1>5. DOMAIN w.proposals = {u[i].subject : i \in {j \in DOMAIN u : Opens(u[j])}}
  <2>1. DOMAIN w.proposals = DOMAIN v.proposals \cup (IF Opens(e) THEN {e.subject} ELSE {})
    BY <1>4 DEF ProposalMoves
  <2>2. {u[i].subject : i \in {j \in DOMAIN u : Opens(u[j])}} =
        {t[i].subject : i \in {j \in DOMAIN t : Opens(t[j])}} \cup (IF Opens(e) THEN {e.subject} ELSE {})
    BY <1>3
  <2> QED BY <1>2, <2>1, <2>2
<1>6. Ended(u) <=> Ended(t) \/ (e.type = "Reject" /\ e.flag /\ e.subject \in DOMAIN v.proposals)
  <2>1. ASSUME Ended(t) PROVE Ended(u)
    BY <1>3, <2>1 DEF Ended
  <2>2. ASSUME e.type = "Reject", e.flag, e.subject \in DOMAIN v.proposals PROVE Ended(u)
    <3>1. PICK j \in DOMAIN t : Opens(t[j]) /\ t[j].subject = e.subject
      BY <1>2, <2>2
    <3>2. j \in DOMAIN u /\ n \in DOMAIN u /\ j < n /\ u[j] = t[j] /\ u[n] = e
      BY <1>3
    <3> QED BY <2>2, <3>1, <3>2 DEF Ended
  <2>3. ASSUME Ended(u) PROVE Ended(t) \/ (e.type = "Reject" /\ e.flag /\ e.subject \in DOMAIN v.proposals)
    <3>1. PICK i \in DOMAIN u, j \in DOMAIN u :
            j < i /\ u[i].type = "Reject" /\ u[i].flag /\ Opens(u[j]) /\ u[j].subject = u[i].subject
      BY <2>3 DEF Ended
    <3>2. j \in DOMAIN t
      BY <1>3, <3>1
    <3>3. CASE i \in DOMAIN t
      BY <1>3, <3>1, <3>2, <3>3 DEF Ended
    <3>4. CASE i = n
      BY <1>2, <1>3, <3>1, <3>2, <3>4
    <3> QED BY <1>3, <3>3, <3>4
  <2> QED BY <2>1, <2>2, <2>3
<1>7. w.phase # "Committed" => (w.phase = "TerminalRejected" <=> Ended(u))
  BY <1>2, <1>4, <1>6 DEF ProposalMoves
<1>8. DOMAIN w = DOMAIN v
  BY <1>4 DEF ProposalMoves
<1>9. CASE e.type # "Accept"
  <2>1. w.latest = v.latest
    BY <1>4, <1>9 DEF ProposalMoves
  <2>2. Proposal!Accepting(w) = Proposal!Accepting(v)
    BY <2>1 DEF Proposal!Accepting
  <2>3. {u[i].sender : i \in {j \in DOMAIN u : u[j].type = "Accept"}} =
        {t[i].sender : i \in {j \in DOMAIN t : t[j].type = "Accept"}}
    BY <1>3, <1>9
  <2>4. ASSUME NEW s \in DOMAIN w.latest PROVE LastAccepts(u, s, w.latest[s])
    <3>1. AcceptsBy(u, s) = AcceptsBy(t, s)
      BY <1>3, <1>9 DEF AcceptsBy
    <3>2. \A i \in AcceptsBy(t, s) : u[i] = t[i]
      BY <1>3 DEF AcceptsBy
    <3> QED BY <1>2, <2>1, <3>1, <3>2 DEF LastAccepts
  <2> QED BY <1>1, <1>2, <1>5, <1>7, <1>8, <2>1, <2>2, <2>3, <2>4 DEF ProposalInv
<1>10. CASE e.type = "Accept"
  <2>1. w.latest = Proposal!Put(v.latest, e.sender, e.subject)
    BY <1>4, <1>10 DEF ProposalMoves
  <2>2. /\ DOMAIN w.latest = DOMAIN v.latest \cup {e.sender} /\ w.latest[e.sender] = e.subject
        /\ \A s \in DOMAIN v.latest : s # e.sender => w.latest[s] = v.latest[s]
    BY <2>1 DEF Proposal!Put
  <2>3. IsFiniteSet(Proposal!Accepting(w))
    <3>1. Proposal!Accepting(w) \subseteq Proposal!Accepting(v) \cup {e.subject}
      BY <2>2 DEF Proposal!Accepting
    <3>2. IsFiniteSet(Proposal!Accepting(v) \cup {e.subject})
      BY <1>2, FS_AddElement
    <3> QED BY <3>1, <3>2, FS_Subset
  <2>4. {u[i].sender : i \in {j \in DOMAIN u : u[j].type = "Accept"}} =
        {t[i].sender : i \in {j \in DOMAIN t : t[j].type = "Accept"}} \cup {e.sender}
    BY <1>3, <1>10
  <2>5. ASSUME NEW s \in DOMAIN w.latest PROVE LastAccepts(u, s, w.latest[s])
    <3>1. CASE s = e.sender
      <4>1. n \in AcceptsBy(u, s) /\ \A j \in AcceptsBy(u, s) : j <= n
        BY <1>3, <1>10, <3>1 DEF AcceptsBy
      <4> QED BY <1>3, <2>2, <3>1, <4>1 DEF LastAccepts
    <3>2. CASE s # e.sender
      <4>1. AcceptsBy(u, s) = AcceptsBy(t, s) /\ \A i \in AcceptsBy(t, s) : u[i] = t[i]
        BY <1>3, <3>2 DEF AcceptsBy
      <4>2. LastAccepts(t, s, v.latest[s]) /\ w.latest[s] = v.latest[s]
        BY <1>2, <2>2, <3>2
      <4> QED BY <4>1, <4>2 DEF LastAccepts
    <3> QED BY <3>1, <3>2
  <2> QED BY <1>1, <1>2, <1>5, <1>7, <1>8, <2>2, <2>3, <2>4, <2>5 DEF ProposalInv
<1> QED BY <1>9, <1>10

-----------------------------------------------------------------------------
\* Multi-round.  What is frozen once the projection reports convergence.
Frozen(v, w) ==
    /\ w.converged = v.converged /\ w.agreed = v.agreed
    /\ w.contributions = v.contributions /\ w.round = v.round

LEMMA MultiRoundPhase ==
    ASSUME NEW v, DOMAIN v = DOMAIN MultiRound!MultiRoundInit, NEW phase, NEW w, w = MultiRound!SetPhase(v, phase)
    PROVE  DOMAIN w = DOMAIN v /\ Frozen(v, w)
BY DEF MultiRound!SetPhase, MultiRound!MultiRoundInit, MultiRound!MultiRoundSeeded, Frozen

LEMMA MultiRoundKeeps ==
    ASSUME NEW v, DOMAIN v = DOMAIN MultiRound!MultiRoundInit, NEW e, NEW w, w = MultiRound!Effect(v, e)
    PROVE  DOMAIN w = DOMAIN v /\ (v.converged => Frozen(v, w))
<1>1. CASE e.type = "Commitment"
  <2>1. w = [v EXCEPT !.commitment = e.subject, !.phase = "Committed"]
    BY <1>1 DEF MultiRound!Effect
  <2> QED BY <2>1 DEF MultiRound!MultiRoundInit, MultiRound!MultiRoundSeeded, Frozen
<1>2. CASE e.type = "SessionStart"
  <2>1. w = MultiRound!OnSessionStart(v, e)
    BY <1>2 DEF MultiRound!Effect, MultiRound!MultiRoundStep
  <2>2. PICK u : u = [v EXCEPT !.participants = e.value,
                               !.initiator = IF e.sender = MultiRound!NoOne THEN @ ELSE e.sender]
    OBVIOUS
  <2>3. w = MultiRound!SetPhase(u, "Contributing")
    BY <2>1, <2>2 DEF MultiRound!OnSessionStart
  <2>4. DOMAIN u = DOMAIN v /\ Frozen(v, u)
    BY <2>2 DEF MultiRound!MultiRoundInit, MultiRound!MultiRoundSeeded, Frozen
  <2> QED BY <2>3, <2>4, MultiRoundPhase DEF Frozen
<1>3. CASE e.type = "Contribute"
  <2>1. w = MultiRound!OnContribute(v, e)
    BY <1>3 DEF MultiRound!Effect, MultiRound!MultiRoundStep
  <2>2. CASE v.converged
    <3>1. w = v
      BY <2>1, <2>2 DEF MultiRound!OnContribute
    <3> QED BY <3>1 DEF Frozen
  <2>3. CASE ~v.converged
    <3>1. PICK u : u = MultiRound!Contributed(v, e)
      OBVIOUS
    <3>2. w = v \/ w = MultiRound!CheckConvergence(u)
      BY <2>1, <3>1 DEF MultiRound!OnContribute
    <3>3. DOMAIN u = DOMAIN v
      BY <3>1 DEF MultiRound!Contributed
    <3>4. PICK y : y = (CHOOSE x \in MultiRound!Values(u) : TRUE)
      OBVIOUS
    <3>5. PICK z : z = [u EXCEPT !.converged = TRUE, !.agreed = y]
      OBVIOUS
    <3>6. w = v \/ w = u \/ w = MultiRound!SetPhase(z, "Converged")
      BY <3>2, <3>4, <3>5 DEF MultiRound!CheckConvergence
    <3>7. DOMAIN z = DOMAIN v
      BY <3>3, <3>5
    <3> QED BY <2>3, <3>3, <3>6, <3>7, MultiRoundPhase
  <2> QED BY <2>2, <2>3
<1>4. CASE e.type \notin {"Commitment", "SessionStart", "Contribute"}
  <2>1. MultiRound!Effect(v, e) = MultiRound!MultiRoundStep(v, e)
    BY <1>4 DEF MultiRound!Effect
  <2>2. MultiRound!MultiRoundStep(v, e) = v
    BY <1>4, Zenon DEF MultiRound!MultiRoundStep
  <2> QED BY <2>1, <2>2 DEF Frozen
<1> QED BY <1>1, <1>2, <1>3, <1>4

-----------------------------------------------------------------------------
\* The inductive invariant: the feed's part, and of each mode its own.
ViewInv ==
    /\ mode = "decision" => DecisionInv(proj.transcript, proj.view)
    /\ mode = "quorum" => QuorumInv(proj.transcript, proj.view)
    /\ mode = "task" => SlotInv(proj.view)
    /\ mode = "handoff" => HandoffInv(proj.transcript, proj.view)
    /\ mode = "proposal" => ProposalInv(proj.transcript, proj.view)
    /\ mode = "multi_round" => DOMAIN proj.view = DOMAIN MultiRound!MultiRoundInit

IInv == FeedInv /\ ViewInv

\* The effect of an envelope in the session's mode.
EffectIs(e, v, w) ==
    /\ mode = "decision" => w = Decision!Effect(v, e)
    /\ mode = "quorum" => w = Quorum!Effect(v, e)
    /\ mode = "task" => w = Task!Effect(v, e)
    /\ mode = "handoff" => w = Handoff!Effect(v, e)
    /\ mode = "proposal" => w = Proposal!Effect(v, e)
    /\ mode = "multi_round" => w = MultiRound!Effect(v, e)

\* The step applies e.
Enters(e) ==
    /\ Fits(e) /\ Len(proj.transcript) < Bound(mode)
    /\ proj' = Entered(proj, e, proj'.view) /\ EffectIs(e, proj.view, proj'.view)

\* A conforming runtime accepted e in an obedient session.
Conforms(e) ==
    obedient =>
        /\ mode = "decision" => Decision!Conforming(proj.transcript, e)
        /\ mode = "quorum" => Quorum!Conforming(proj.transcript, e)
        /\ mode = "task" => Task!Conforming(proj.transcript, e)
        /\ mode = "handoff" => Handoff!Conforming(proj.transcript, e)
        /\ mode = "proposal" => Proposal!Conforming(proj.transcript, e)
        /\ mode = "multi_round" => MultiRound!Conforming(proj.transcript, e)

LEMMA TakesConforming ==
    ASSUME NEW e, Takes(e)
    PROVE  Conforms(e)
BY DEF Takes, Conforms

LEMMA TakesCases ==
    ASSUME FeedInv, NEW e \in Met(mode), Takes(e)
    PROVE  UNCHANGED proj \/ Enters(e)
<1>1. Shaped(proj)
  BY DEF FeedInv
<1>2. CASE mode = "decision"
  <2>1. proj' = Decision!ApplyEnvelope(proj, e) /\ Len(proj.transcript) < Bound(mode)
    BY <1>2 DEF Takes, Decision!Receive
  <2>2. CASE e.mode = "decision" /\ ~Decision!Raises(e) /\ proj' = Entered(proj, e, Decision!Effect(proj.view, e))
    <3>1. proj'.view = Decision!Effect(proj.view, e)
      BY <2>2 DEF Entered
    <3> QED BY <1>2, <2>1, <2>2, <3>1 DEF Enters, Fits, Parsed, EffectIs
  <2> QED BY <1>1, <2>1, <2>2, DecisionApplies
<1>3. CASE mode = "quorum"
  <2>1. proj' = Quorum!ApplyEnvelope(proj, e) /\ Len(proj.transcript) < Bound(mode)
    BY <1>3 DEF Takes, Quorum!Receive
  <2>2. CASE e.mode = "quorum" /\ ~Quorum!Raises(e) /\ proj' = Entered(proj, e, Quorum!Effect(proj.view, e))
    <3>1. proj'.view = Quorum!Effect(proj.view, e)
      BY <2>2 DEF Entered
    <3> QED BY <1>3, <2>1, <2>2, <3>1 DEF Enters, Fits, Parsed, EffectIs
  <2> QED BY <1>1, <2>1, <2>2, QuorumApplies
<1>4. CASE mode = "task"
  <2>1. proj' = Task!ApplyEnvelope(proj, e) /\ Len(proj.transcript) < Bound(mode)
    BY <1>4 DEF Takes, Task!Receive
  <2>2. CASE e.mode = "task" /\ ~Task!Raises(e) /\ proj' = Entered(proj, e, Task!Effect(proj.view, e))
    <3>1. proj'.view = Task!Effect(proj.view, e)
      BY <2>2 DEF Entered
    <3> QED BY <1>4, <2>1, <2>2, <3>1 DEF Enters, Fits, Parsed, EffectIs
  <2> QED BY <1>1, <2>1, <2>2, TaskApplies
<1>5. CASE mode = "handoff"
  <2>1. proj' = Handoff!ApplyEnvelope(proj, e) /\ Len(proj.transcript) < Bound(mode)
    BY <1>5 DEF Takes, Handoff!Receive
  <2>2. CASE e.mode = "handoff" /\ ~Handoff!Raises(e) /\ proj' = Entered(proj, e, Handoff!Effect(proj.view, e))
    <3>1. proj'.view = Handoff!Effect(proj.view, e)
      BY <2>2 DEF Entered
    <3> QED BY <1>5, <2>1, <2>2, <3>1 DEF Enters, Fits, Parsed, EffectIs
  <2> QED BY <1>1, <2>1, <2>2, HandoffApplies
<1>6. CASE mode = "proposal"
  <2>1. proj' = Proposal!ApplyEnvelope(proj, e) /\ Len(proj.transcript) < Bound(mode)
    BY <1>6 DEF Takes, Proposal!Receive
  <2>2. CASE e.mode = "proposal" /\ ~Proposal!Raises(e) /\ proj' = Entered(proj, e, Proposal!Effect(proj.view, e))
    <3>1. proj'.view = Proposal!Effect(proj.view, e)
      BY <2>2 DEF Entered
    <3> QED BY <1>6, <2>1, <2>2, <3>1 DEF Enters, Fits, Parsed, EffectIs
  <2> QED BY <1>1, <2>1, <2>2, ProposalApplies
<1>7. CASE mode = "multi_round"
  <2>1. proj' = MultiRound!ApplyEnvelope(proj, e) /\ Len(proj.transcript) < Bound(mode)
    BY <1>7 DEF Takes, MultiRound!Receive
  <2>2. CASE e.mode = "multi_round" /\ ~MultiRound!Raises(e) /\ proj' = Entered(proj, e, MultiRound!Effect(proj.view, e))
    <3>1. proj'.view = MultiRound!Effect(proj.view, e)
      BY <2>2 DEF Entered
    <3> QED BY <1>7, <2>1, <2>2, <3>1 DEF Enters, Fits, Parsed, EffectIs
  <2> QED BY <1>1, <2>1, <2>2, MultiRoundApplies
<1> QED BY <1>2, <1>3, <1>4, <1>5, <1>6, <1>7 DEF FeedInv, Modes

LEMMA StepCases ==
    ASSUME FeedInv, Next
    PROVE  /\ UNCHANGED <<obedient, mode, roster, policy>>
           /\ UNCHANGED proj \/ \E e : Enters(e) /\ Conforms(e)
<1>1. CASE Message
  <2>1. PICK e \in IF obedient THEN Peers[mode] ELSE Anything[mode] : Takes(e)
    BY <1>1 DEF Message
  <2>2. e \in Met(mode)
    BY DEF Met
  <2> QED BY <1>1, <2>1, <2>2, TakesCases, TakesConforming DEF Message
<1>2. CASE \E flavour \in Flavours : \E c \in Calls[mode] : Call(flavour, c)
  <2>1. PICK flavour \in Flavours : \E c \in Calls[mode] : Call(flavour, c)
    BY <1>2
  <2>2. PICK c \in Calls[mode] : Call(flavour, c)
    BY <2>1
  <2>3. PICK e : e = Build(flavour, mode, c)
    OBVIOUS
  <2>4. c \in Callable(flavour, mode) /\ Takes(e) /\ UNCHANGED <<obedient, mode, roster, policy>>
    BY <2>2, <2>3 DEF Call
  <2>5. e \in Met(mode)
    BY <2>3, <2>4 DEF Met, Sent
  <2> QED BY <2>4, <2>5, TakesCases, TakesConforming
<1> QED BY <1>1, <1>2 DEF Next

LEMMA EmptyTranscript ==
    ASSUME NEW v, NEW p, p = [transcript |-> <<>>, seen |-> {}, view |-> v]
    PROVE  Shaped(p) /\ Len(p.transcript) = 0 /\ DOMAIN p.transcript = {} /\ p.view = v
<1>1. p.transcript = <<>> /\ p.seen = {} /\ p.view = v
  OBVIOUS
<1>2. Sequence(<<>>) /\ DOMAIN <<>> = {} /\ Len(<<>>) = 0
  BY DEF Sequence
<1> QED BY <1>1, <1>2 DEF Shaped

\* Every session starts with nothing applied and the view __init__ sets up.
LEMMA InitHolds ==
    ASSUME Init
    PROVE  IInv
<1>1. Sequence(<<>>) /\ DOMAIN <<>> = {} /\ Len(<<>>) = 0
  BY DEF Sequence
<1>2. \E v : /\ proj = [transcript |-> <<>>, seen |-> {}, view |-> v]
             /\ mode = "decision" => v = Decision!DecisionInit
             /\ mode = "quorum" => v = Quorum!QuorumInit
             /\ mode = "task" => v = Task!TaskInit
             /\ mode = "handoff" => v = Handoff!HandoffInit
             /\ mode = "proposal" => v = Proposal!ProposalInit
             /\ mode = "multi_round" => v = MultiRound!MultiRoundInit
  <2>1. CASE mode = "decision"
    BY <2>1 DEF Init, Decision!Init, Decision!Fresh
  <2>2. CASE mode = "quorum"
    BY <2>2 DEF Init, Quorum!Init, Quorum!Fresh
  <2>3. CASE mode = "task"
    BY <2>3 DEF Init, Task!Init, Task!Fresh
  <2>4. CASE mode = "handoff"
    BY <2>4 DEF Init, Handoff!Init, Handoff!Fresh
  <2>5. CASE mode = "proposal"
    BY <2>5 DEF Init, Proposal!Init, Proposal!Fresh
  <2>6. CASE mode = "multi_round"
    BY <2>6 DEF Init, MultiRound!Init, MultiRound!Fresh
  <2> QED BY <2>1, <2>2, <2>3, <2>4, <2>5, <2>6 DEF Init, Modes
<1>3. PICK v : /\ proj = [transcript |-> <<>>, seen |-> {}, view |-> v]
               /\ mode = "decision" => v = Decision!DecisionInit
               /\ mode = "quorum" => v = Quorum!QuorumInit
               /\ mode = "task" => v = Task!TaskInit
               /\ mode = "handoff" => v = Handoff!HandoffInit
               /\ mode = "proposal" => v = Proposal!ProposalInit
               /\ mode = "multi_round" => v = MultiRound!MultiRoundInit
  BY <1>2
<1>4. Shaped(proj) /\ proj.transcript = <<>> /\ DOMAIN proj.transcript = {} /\ Len(proj.transcript) = 0 /\ proj.view = v
  BY <1>3, EmptyTranscript
<1>5. mode \in Modes /\ Bound(mode) \in Nat
  BY ModeAssumption DEF Init, Bound
<1>6. FeedInv
  BY <1>4, <1>5 DEF FeedInv, Init
<1>7. mode = "decision" => DecisionInv(proj.transcript, proj.view)
  <2>1. VotesIn(<<>>) = {}
    BY <1>1 DEF VotesIn
  <2>2. /\ DOMAIN Decision!DecisionInit.proposals = {} /\ DOMAIN Decision!DecisionInit.votes = {}
        /\ Decision!DecisionInit.anomalies = <<>>
    BY <1>1 DEF Decision!DecisionInit
  <2>3. DecisionInv(<<>>, Decision!DecisionInit)
    BY <1>1, <2>1, <2>2, FS_EmptySet DEF DecisionInv
  <2> QED BY <1>3, <1>4, <2>3
<1>8. mode = "quorum" => QuorumInv(proj.transcript, proj.view)
  <2>1. /\ DOMAIN Quorum!QuorumInit.requests = {} /\ DOMAIN Quorum!QuorumInit.ballots = {}
        /\ Quorum!QuorumInit.anomalies = <<>>
    BY <1>1 DEF Quorum!QuorumInit
  <2>2. QuorumInv(<<>>, Quorum!QuorumInit)
    BY <1>1, <2>1 DEF QuorumInv
  <2> QED BY <1>3, <1>4, <2>2
<1>9. mode = "task" => SlotInv(proj.view)
  <2>1. DOMAIN Task!TaskInit.tasks = {} /\ Task!TaskInit.slot = Task!Free
    BY <1>1 DEF Task!TaskInit
  <2>2. SlotInv(Task!TaskInit)
    BY <2>1 DEF SlotInv
  <2> QED BY <1>3, <1>4, <2>2
<1>10. mode = "handoff" => HandoffInv(proj.transcript, proj.view)
  <2>1. OffersIn(<<>>) = {} /\ AnswersIn(<<>>) = {}
    BY <1>1 DEF OffersIn, AnswersIn
  <2>2. DOMAIN Handoff!HandoffInit.handoffs = {} /\ Handoff!HandoffInit.anomalies = <<>>
    BY <1>1 DEF Handoff!HandoffInit
  <2>3. SettledIn(Handoff!HandoffInit) = {}
    BY <2>2 DEF SettledIn
  <2>4. IsFiniteSet({}) /\ Cardinality({}) = 0
    BY FS_EmptySet
  <2>5. \A i \in OffersIn(<<>>) : FALSE
    BY <2>1
  <2>6. {<<>>[i].subject : i \in OffersIn(<<>>)} = {}
    BY <2>5
  <2>7. HandoffInv(<<>>, Handoff!HandoffInit)
    <3> PICK w : w = Handoff!HandoffInit
      OBVIOUS
    <3>1. /\ Cardinality(DOMAIN w.handoffs) = 0 /\ Cardinality(OffersIn(<<>>)) = 0
          /\ Cardinality(AnswersIn(<<>>)) = 0 /\ Cardinality(SettledIn(w)) = 0 /\ Len(w.anomalies) = 0
      BY <1>1, <2>1, <2>2, <2>3, <2>4
    <3>2. /\ IsFiniteSet(DOMAIN w.handoffs) /\ IsFiniteSet(OffersIn(<<>>)) /\ IsFiniteSet(AnswersIn(<<>>))
          /\ Sequence(w.anomalies)
      BY <1>1, <2>1, <2>2, <2>4
    <3>3. DOMAIN w.handoffs = {}
      BY <2>2
    <3>4. HandoffInv(<<>>, w)
      BY <2>6, <3>1, <3>2, <3>3 DEF HandoffInv
    <3> QED BY <3>4
  <2> QED BY <1>3, <1>4, <2>7
<1>11. mode = "proposal" => ProposalInv(proj.transcript, proj.view)
  <2>1. /\ DOMAIN Proposal!ProposalInit.proposals = {} /\ DOMAIN Proposal!ProposalInit.latest = {}
        /\ Proposal!ProposalInit.phase = "Negotiating"
    BY <1>1 DEF Proposal!ProposalInit
  <2>2. Proposal!Accepting(Proposal!ProposalInit) = {}
    BY <2>1 DEF Proposal!Accepting
  <2>3. ~Ended(<<>>)
    BY <1>1 DEF Ended
  <2>4. ProposalInv(<<>>, Proposal!ProposalInit)
    BY <1>1, <2>1, <2>2, <2>3, FS_EmptySet DEF ProposalInv
  <2> QED BY <1>3, <1>4, <2>4
<1>12. mode = "multi_round" => DOMAIN proj.view = DOMAIN MultiRound!MultiRoundInit
  BY <1>3, <1>4
<1> QED BY <1>6, <1>7, <1>8, <1>9, <1>10, <1>11, <1>12 DEF IInv, ViewInv

\* An envelope applied keeps the invariant, and the session as it was started.
LEMMA EntersKeeps ==
    ASSUME IInv, NEW e, Enters(e), UNCHANGED <<obedient, mode, roster, policy>>
    PROVE  IInv' /\ Grown(proj.transcript, e, proj'.transcript)
<1> PICK p : p = proj
  OBVIOUS
<1> PICK q : q = proj'
  OBVIOUS
<1>1. FeedInv /\ ViewInv /\ Shaped(p) /\ Len(p.transcript) < Bound(mode) /\ Fits(e)
  BY DEF IInv, FeedInv, Enters
<1>2. q = Entered(p, e, q.view) /\ EffectIs(e, p.view, q.view)
  BY DEF Enters
<1>3. Shaped(q) /\ Grown(p.transcript, e, q.transcript)
  BY <1>1, <1>2, EnteredShaped
<1>4. Len(q.transcript) <= Bound(mode)
  <2>1. Bound(mode) \in Nat
    BY <1>1, ModeAssumption DEF FeedInv, Bound
  <2> QED BY <1>1, <1>3, <2>1 DEF Grown
<1>5. \A i \in DOMAIN q.transcript : Fits(q.transcript[i])
  <2>1. \A i \in DOMAIN p.transcript : Fits(p.transcript[i])
    BY <1>1 DEF FeedInv
  <2> QED BY <1>1, <1>3, <2>1 DEF Grown
<1>6. \A x : Fits(x) => Fits(x)'
  BY DEF Fits, Parsed
<1>7. FeedInv'
  BY <1>1, <1>3, <1>4, <1>5, <1>6 DEF FeedInv
<1>8. ViewInv'
  <2>1. CASE mode = "decision"
    <3>1. DecisionInv(p.transcript, p.view) /\ q.view = Decision!Effect(p.view, e)
      BY <1>1, <1>2, <2>1 DEF ViewInv, EffectIs
    <3>2. DecisionInv(q.transcript, q.view)
      BY <1>3, <3>1, DecisionKeeps
    <3> QED BY <2>1, <3>2 DEF ViewInv
  <2>2. CASE mode = "quorum"
    <3>1. QuorumInv(p.transcript, p.view) /\ q.view = Quorum!Effect(p.view, e)
      BY <1>1, <1>2, <2>2 DEF ViewInv, EffectIs
    <3>2. QuorumInv(q.transcript, q.view)
      BY <1>3, <3>1, QuorumKeeps
    <3> QED BY <2>2, <3>2 DEF ViewInv
  <2>3. CASE mode = "task"
    <3>1. e \in Met("task")
      BY <1>1, <2>3 DEF Fits
    <3>2. e.type = "TaskAccept" => Task!Unassigned \notin {e.sender, e.value}
      BY <3>1, NamesAssumption
    <3>3. SlotInv(p.view) /\ q.view = Task!Effect(p.view, e)
      BY <1>1, <1>2, <2>3 DEF ViewInv, EffectIs
    <3>4. SlotInv(q.view)
      BY <3>2, <3>3, TaskKeeps
    <3> QED BY <2>3, <3>4 DEF ViewInv
  <2>4. CASE mode = "handoff"
    <3>1. HandoffInv(p.transcript, p.view) /\ q.view = Handoff!Effect(p.view, e)
      BY <1>1, <1>2, <2>4 DEF ViewInv, EffectIs
    <3>2. HandoffInv(q.transcript, q.view)
      BY <1>3, <3>1, HandoffKeeps
    <3> QED BY <2>4, <3>2 DEF ViewInv
  <2>5. CASE mode = "proposal"
    <3>1. ProposalInv(p.transcript, p.view) /\ q.view = Proposal!Effect(p.view, e)
      BY <1>1, <1>2, <2>5 DEF ViewInv, EffectIs
    <3>2. ProposalInv(q.transcript, q.view)
      BY <1>3, <3>1, ProposalKeeps
    <3> QED BY <2>5, <3>2 DEF ViewInv
  <2>6. CASE mode = "multi_round"
    <3>1. DOMAIN p.view = DOMAIN MultiRound!MultiRoundInit /\ q.view = MultiRound!Effect(p.view, e)
      BY <1>1, <1>2, <2>6 DEF ViewInv, EffectIs
    <3>2. DOMAIN q.view = DOMAIN MultiRound!MultiRoundInit
      BY <3>1, MultiRoundKeeps
    <3> QED BY <2>6, <3>2 DEF ViewInv
  <2> QED BY <1>1, <2>1, <2>2, <2>3, <2>4, <2>5, <2>6 DEF FeedInv, Modes
<1> QED BY <1>3, <1>7, <1>8 DEF IInv

LEMMA Stutters ==
    ASSUME IInv, UNCHANGED vars
    PROVE  IInv'
<1>1. FeedInv'
  BY DEF IInv, FeedInv, vars, Fits, Parsed
<1>2. ViewInv'
  BY DEF IInv, ViewInv, vars
<1> QED BY <1>1, <1>2 DEF IInv

\* A step applies one envelope to the projection of its session or leaves it alone.
LEMMA ActionCases ==
    ASSUME IInv, [Next]_vars
    PROVE  /\ UNCHANGED <<obedient, mode, roster, policy>>
           /\ UNCHANGED proj \/ \E e : Enters(e) /\ Conforms(e)
BY StepCases DEF IInv, vars

LEMMA EntersGrows ==
    ASSUME IInv, NEW e, Enters(e)
    PROVE  Grown(proj.transcript, e, proj'.transcript)
BY EnteredShaped DEF IInv, FeedInv, Enters

\* Whatever a session is fed, its projection is what its transcript says.
THEOREM Invariance == Spec => []IInv
<1>1. Init => IInv
  BY InitHolds
<1>2. IInv /\ [Next]_vars => IInv'
  <2> SUFFICES ASSUME IInv, [Next]_vars PROVE IInv'
    OBVIOUS
  <2>1. CASE UNCHANGED vars
    BY <2>1, Stutters
  <2>2. CASE Next
    <3>1. /\ UNCHANGED <<obedient, mode, roster, policy>>
          /\ UNCHANGED proj \/ \E e : Enters(e) /\ Conforms(e)
      BY <2>2, StepCases DEF IInv
    <3>2. CASE UNCHANGED proj
      BY <3>1, <3>2, Stutters DEF vars
    <3>3. CASE \E e : Enters(e)
      BY <3>1, <3>3, EntersKeeps
    <3> QED BY <3>1, <3>2, <3>3
  <2> QED BY <2>1, <2>2
<1> QED BY <1>1, <1>2, PTL DEF Spec

-----------------------------------------------------------------------------
\* A projection holds envelopes of its mode that parsed, and its gate exactly their ids
\* (BaseProjection.apply_envelope).
THEOREM TypeCorrect == Spec => []TypeOK
<1>1. IInv => TypeOK
  <2> SUFFICES ASSUME IInv PROVE TypeOK
    OBVIOUS
  <2>1. FeedInv /\ Shaped(proj) /\ \A i \in DOMAIN proj.transcript : Fits(proj.transcript[i])
    BY DEF IInv, FeedInv
  <2>2. Sequence(proj.transcript) /\ proj.seen = {proj.transcript[i].id : i \in {j \in DOMAIN proj.transcript : proj.transcript[j].id # NoId}}
    BY <2>1 DEF Shaped
  <2>3. ASSUME mode = "decision" PROVE Decision!TypeOK
    <3>1. proj.transcript \in Seq({e \in Met("decision") : e.mode = Decision!DecisionMode /\ ~Decision!Raises(e)})
      <4>1. \A i \in DOMAIN proj.transcript :
                proj.transcript[i] \in {e \in Met("decision") : e.mode = Decision!DecisionMode /\ ~Decision!Raises(e)}
        BY <2>1, <2>3 DEF Fits, Parsed, Decision!DecisionMode
      <4> QED BY <2>2, <4>1, MemberSequence
    <3>2. proj.seen = {proj.transcript[i].id : i \in Decision!Identified}
      BY <2>2 DEF Decision!Identified
    <3>3. Len(proj.transcript) <= Bound("decision")
      BY <2>1, <2>3 DEF FeedInv
    <3> QED BY <3>1, <3>2, <3>3 DEF Decision!TypeOK
  <2>4. ASSUME mode = "quorum" PROVE Quorum!TypeOK
    <3>1. proj.transcript \in Seq({e \in Met("quorum") : e.mode = Quorum!QuorumMode /\ ~Quorum!Raises(e)})
      <4>1. \A i \in DOMAIN proj.transcript :
                proj.transcript[i] \in {e \in Met("quorum") : e.mode = Quorum!QuorumMode /\ ~Quorum!Raises(e)}
        BY <2>1, <2>4 DEF Fits, Parsed, Quorum!QuorumMode
      <4> QED BY <2>2, <4>1, MemberSequence
    <3>2. proj.seen = {proj.transcript[i].id : i \in Quorum!Identified}
      BY <2>2 DEF Quorum!Identified
    <3>3. Len(proj.transcript) <= Bound("quorum")
      BY <2>1, <2>4 DEF FeedInv
    <3> QED BY <3>1, <3>2, <3>3 DEF Quorum!TypeOK
  <2>5. ASSUME mode = "task" PROVE Task!TypeOK
    <3>1. proj.transcript \in Seq({e \in Met("task") : e.mode = Task!TaskMode /\ ~Task!Raises(e)})
      <4>1. \A i \in DOMAIN proj.transcript :
                proj.transcript[i] \in {e \in Met("task") : e.mode = Task!TaskMode /\ ~Task!Raises(e)}
        BY <2>1, <2>5 DEF Fits, Parsed, Task!TaskMode
      <4> QED BY <2>2, <4>1, MemberSequence
    <3>2. proj.seen = {proj.transcript[i].id : i \in Task!Identified}
      BY <2>2 DEF Task!Identified
    <3>3. Len(proj.transcript) <= Bound("task")
      BY <2>1, <2>5 DEF FeedInv
    <3> QED BY <3>1, <3>2, <3>3 DEF Task!TypeOK
  <2>6. ASSUME mode = "handoff" PROVE Handoff!TypeOK
    <3>1. proj.transcript \in Seq({e \in Met("handoff") : e.mode = Handoff!HandoffMode /\ ~Handoff!Raises(e)})
      <4>1. \A i \in DOMAIN proj.transcript :
                proj.transcript[i] \in {e \in Met("handoff") : e.mode = Handoff!HandoffMode /\ ~Handoff!Raises(e)}
        BY <2>1, <2>6 DEF Fits, Parsed, Handoff!HandoffMode
      <4> QED BY <2>2, <4>1, MemberSequence
    <3>2. proj.seen = {proj.transcript[i].id : i \in Handoff!Identified}
      BY <2>2 DEF Handoff!Identified
    <3>3. Len(proj.transcript) <= Bound("handoff")
      BY <2>1, <2>6 DEF FeedInv
    <3> QED BY <3>1, <3>2, <3>3 DEF Handoff!TypeOK
  <2>7. ASSUME mode = "proposal" PROVE Proposal!TypeOK
    <3>1. proj.transcript \in Seq({e \in Met("proposal") : e.mode = Proposal!ProposalMode /\ ~Proposal!Raises(e)})
      <4>1. \A i \in DOMAIN proj.transcript :
                proj.transcript[i] \in {e \in Met("proposal") : e.mode = Proposal!ProposalMode /\ ~Proposal!Raises(e)}
        BY <2>1, <2>7 DEF Fits, Parsed, Proposal!ProposalMode
      <4> QED BY <2>2, <4>1, MemberSequence
    <3>2. proj.seen = {proj.transcript[i].id : i \in Proposal!Identified}
      BY <2>2 DEF Proposal!Identified
    <3>3. Len(proj.transcript) <= Bound("proposal")
      BY <2>1, <2>7 DEF FeedInv
    <3> QED BY <3>1, <3>2, <3>3 DEF Proposal!TypeOK
  <2>8. ASSUME mode = "multi_round" PROVE MultiRound!TypeOK
    <3>1. proj.transcript \in Seq({e \in Met("multi_round") : e.mode = MultiRound!MultiRoundMode /\ ~MultiRound!Raises(e)})
      <4>1. \A i \in DOMAIN proj.transcript :
                proj.transcript[i] \in {e \in Met("multi_round") : e.mode = MultiRound!MultiRoundMode /\ ~MultiRound!Raises(e)}
        BY <2>1, <2>8 DEF Fits, Parsed, MultiRound!MultiRoundMode
      <4> QED BY <2>2, <4>1, MemberSequence
    <3>2. proj.seen = {proj.transcript[i].id : i \in MultiRound!Identified}
      BY <2>2 DEF MultiRound!Identified
    <3>3. Len(proj.transcript) <= Bound("multi_round")
      BY <2>1, <2>8 DEF FeedInv
    <3> QED BY <3>1, <3>2, <3>3 DEF MultiRound!TypeOK
  <2> QED BY <2>1, <2>3, <2>4, <2>5, <2>6, <2>7, <2>8 DEF TypeOK, FeedInv
<1> QED BY <1>1, Invariance, PTL

\* No vote, ballot or answer about something the projection knew disappears silently
\* (the _apply handlers and their anomalies).
THEOREM NothingIsSilent == Spec => []NothingSilent
<1>1. IInv => NothingSilent
  <2> SUFFICES ASSUME IInv PROVE NothingSilent
    OBVIOUS
  <2> PICK t : t = proj.transcript
    OBVIOUS
  <2> PICK v : v = proj.view
    OBVIOUS
  <2>1. ASSUME mode = "decision" PROVE Decision!VotesAccounted
    <3>1. DecisionInv(t, v)
      BY <2>1 DEF IInv, ViewInv
    <3>2. {i \in DOMAIN proj.transcript :
            proj.transcript[i].type = "Vote" /\ Decision!Before(i, "Proposal", proj.transcript[i].subject)} = VotesIn(t)
      BY DEF VotesIn, Decision!Before
    <3>3. /\ Cardinality(VotesIn(t)) = Cardinality(DOMAIN v.votes) + Len(v.anomalies)
          /\ \A k \in DOMAIN v.votes : k[1] \in DOMAIN v.proposals
      BY <3>1 DEF DecisionInv
    <3> QED BY <3>2, <3>3, OneCardinality DEF Decision!VotesAccounted, Decision!view
  <2>2. ASSUME mode = "quorum" PROVE Quorum!BallotsAccounted
    <3>1. QuorumInv(t, v)
      BY <2>2 DEF IInv, ViewInv
    <3>2. ASSUME NEW r \in DOMAIN v.requests
          PROVE  Cardinality({i \in Quorum!BallotsOn(r) : \E j \in Quorum!Opening(r) : j < i})
                    = Cardinality(Quorum!VotedSenders(v, r)) + Cardinality({i \in DOMAIN v.anomalies : v.anomalies[i].subject = r})
      <4>1. {i \in Quorum!BallotsOn(r) : \E j \in Quorum!Opening(r) : j < i} = Answering(t, r)
        BY DEF Answering, Quorum!BallotsOn, Quorum!Opening
      <4>2. Balanced(t, v, r)
        BY <3>1 DEF QuorumInv
      <4> QED BY <4>1, <4>2 DEF Balanced, Dropped
    <3> QED BY <3>2, OneCardinality DEF Quorum!BallotsAccounted, Quorum!Requests, Quorum!view
  <2>3. ASSUME mode = "handoff" PROVE Handoff!AnswersAccounted
    <3>1. HandoffInv(t, v)
      BY <2>3 DEF IInv, ViewInv
    <3>2. Handoff!Offered(t) = DOMAIN v.handoffs
      BY <3>1 DEF HandoffInv, Handoff!Offered, OffersIn
    <3>3. /\ Handoff!Cardinality(AnswersIn(t)) >= Handoff!Cardinality(SettledIn(v)) + Len(v.anomalies)
          /\ Handoff!Cardinality(Handoff!Offered(t)) = Handoff!Cardinality(OffersIn(t)) =>
                Handoff!Cardinality(AnswersIn(t)) = Handoff!Cardinality(SettledIn(v)) + Len(v.anomalies)
      <4>1. /\ Cardinality(AnswersIn(t)) >= Cardinality(SettledIn(v)) + Len(v.anomalies)
            /\ Cardinality(DOMAIN v.handoffs) = Cardinality(OffersIn(t)) =>
                    Cardinality(AnswersIn(t)) = Cardinality(SettledIn(v)) + Len(v.anomalies)
        BY <3>1 DEF HandoffInv
      <4> QED BY <3>2, <4>1, OneCardinality
    <3> QED BY <3>3, Zenon DEF AnswersIn, SettledIn, OffersIn, Handoff!AnswersAccounted, Handoff!view
  <2> QED BY <2>1, <2>2, <2>3 DEF NothingSilent
<1> QED BY <1>1, Invariance, PTL

\* The phase is TerminalRejected exactly when a proposal seen by then was rejected for
\* good (ProposalProjection._apply_reject).
THEOREM TerminalIsAlwaysSeen == Spec => []TerminalIsSeen
<1>1. IInv => TerminalIsSeen
  <2> SUFFICES ASSUME IInv, mode = "proposal" PROVE Proposal!TerminalIsSeen
    BY DEF TerminalIsSeen
  <2>1. proj.view.phase # "Committed" => (proj.view.phase = "TerminalRejected" <=> Ended(proj.transcript))
    BY DEF IInv, ViewInv, ProposalInv
  <2> QED BY <2>1 DEF Ended, Opens, Proposal!TerminalIsSeen, Proposal!view
<1> QED BY <1>1, Invariance, PTL

\* accepted_proposal names what the last accept of everyone who accepted names
\* (ProposalProjection.accepted_proposal).
THEOREM AcceptedIsTheLatest == Spec => []AcceptedIsLatest
<1>1. IInv => AcceptedIsLatest
  <2> SUFFICES ASSUME IInv, mode = "proposal", NEW p
               PROVE  p \in Proposal!AcceptedProposal(proj.view) <=>
                        /\ \E s \in Proposal!Senders : Proposal!AcceptsOf(s) # {}
                        /\ \A s \in Proposal!Senders : \A i \in Proposal!AcceptsOf(s) :
                                (\A j \in Proposal!AcceptsOf(s) : j <= i) => proj.transcript[i].subject = p
    BY DEF AcceptedIsLatest, Proposal!AcceptedIsLatest, Proposal!view
  <2> PICK t : t = proj.transcript
    OBVIOUS
  <2> PICK v : v = proj.view
    OBVIOUS
  <2>1. ProposalInv(t, v)
    BY DEF IInv, ViewInv
  <2>2. \A s : Proposal!AcceptsOf(s) = AcceptsBy(t, s)
    BY DEF AcceptsBy, Proposal!AcceptsOf
  <2>3. \A i \in DOMAIN t : i \in Nat /\ t[i].sender \in Proposal!Senders
    <3>1. \A i \in DOMAIN t : t[i] \in Met("proposal")
      BY DEF IInv, FeedInv, Fits
    <3>2. DOMAIN t = 1..Len(t) /\ Len(t) \in Nat
      BY DEF IInv, FeedInv, Shaped, Sequence
    <3> QED BY <3>1, <3>2 DEF Proposal!Senders
  <2>4. /\ DOMAIN v.latest = {t[i].sender : i \in {j \in DOMAIN t : t[j].type = "Accept"}}
        /\ IsFiniteSet(Proposal!Accepting(v)) /\ \A s \in DOMAIN v.latest : LastAccepts(t, s, v.latest[s])
    BY <2>1 DEF ProposalInv
  <2>5. p \in Proposal!AcceptedProposal(v) <=> Proposal!Accepting(v) = {p}
    <3>1. Cardinality(Proposal!Accepting(v)) = 1 <=> \E x : Proposal!Accepting(v) = {x}
      BY <2>4, FS_Singleton
    <3>2. CASE Cardinality(Proposal!Accepting(v)) = 1
      <4>1. PICK x : Proposal!Accepting(v) = {x}
        BY <3>1, <3>2
      <4>2. Proposal!AcceptedProposal(v) = {x}
        BY <3>2, <4>1, OneCardinality DEF Proposal!AcceptedProposal
      <4> QED BY <4>1, <4>2
    <3>3. CASE Cardinality(Proposal!Accepting(v)) # 1
      <4>1. Proposal!AcceptedProposal(v) = {}
        BY <3>3, OneCardinality DEF Proposal!AcceptedProposal
      <4> QED BY <3>1, <3>3, <4>1
    <3> QED BY <3>2, <3>3
  <2>6. \A s : s \in DOMAIN v.latest <=> AcceptsBy(t, s) # {}
    BY <2>4 DEF AcceptsBy
  <2>7. \A s : s \in DOMAIN v.latest => s \in Proposal!Senders
    BY <2>3, <2>4
  <2>8. ASSUME NEW s \in DOMAIN v.latest, NEW i \in AcceptsBy(t, s), \A j \in AcceptsBy(t, s) : j <= i
        PROVE  t[i].subject = v.latest[s]
    <3>1. PICK k \in AcceptsBy(t, s) : (\A j \in AcceptsBy(t, s) : j <= k) /\ t[k].subject = v.latest[s]
      BY <2>4 DEF LastAccepts
    <3>2. i <= k /\ k <= i /\ i \in Nat /\ k \in Nat
      BY <2>3, <2>8, <3>1 DEF AcceptsBy
    <3>3. i = k
      BY <3>2
    <3> QED BY <3>1, <3>3
  <2>9. Proposal!Accepting(v) = {p} <=>
            DOMAIN v.latest # {} /\ \A s \in DOMAIN v.latest : v.latest[s] = p
    BY DEF Proposal!Accepting
  <2>10. (\A s \in DOMAIN v.latest : v.latest[s] = p) <=>
         \A s \in Proposal!Senders : \A i \in AcceptsBy(t, s) :
                (\A j \in AcceptsBy(t, s) : j <= i) => t[i].subject = p
    <3>1. ASSUME \A s \in DOMAIN v.latest : v.latest[s] = p, NEW s \in Proposal!Senders,
                 NEW i \in AcceptsBy(t, s), \A j \in AcceptsBy(t, s) : j <= i
          PROVE  t[i].subject = p
      <4>1. s \in DOMAIN v.latest
        BY <2>6
      <4> QED BY <2>8, <3>1, <4>1
    <3>2. ASSUME \A s \in Proposal!Senders : \A i \in AcceptsBy(t, s) :
                    (\A j \in AcceptsBy(t, s) : j <= i) => t[i].subject = p,
                 NEW s \in DOMAIN v.latest
          PROVE  v.latest[s] = p
      <4>1. PICK k \in AcceptsBy(t, s) : (\A j \in AcceptsBy(t, s) : j <= k) /\ t[k].subject = v.latest[s]
        BY <2>4 DEF LastAccepts
      <4> QED BY <2>7, <3>2, <4>1
    <3> QED BY <3>1, <3>2
  <2>11. DOMAIN v.latest # {} <=> \E s \in Proposal!Senders : AcceptsBy(t, s) # {}
    BY <2>6, <2>7
  <2> QED BY <2>2, <2>5, <2>9, <2>10, <2>11
<1> QED BY <1>1, Invariance, PTL

\* Task: the session's slot and the assignees of its tasks are two views of one fact,
\* and only the slot's holder, or a new request for the held task, gives the slot up
\* (TaskProjection._apply_accept, _apply_reject and _apply_request).
THEOREM SlotFollowsAssignment == Spec => SlotIsAssignment
<1>1. IInv => (mode = "task" => Task!SlotIsAssignment)
  BY DEF IInv, ViewInv, SlotInv, Task!SlotIsAssignment, Task!view
<1>2. IInv /\ [Next]_vars => (mode = "task" => Task!ReleasedByHolder)
  <2> SUFFICES ASSUME IInv, [Next]_vars, mode = "task" PROVE Task!ReleasedByHolder
    OBVIOUS
  <2>1. CASE UNCHANGED proj
    BY <2>1 DEF Task!ReleasedByHolder, Task!view
  <2>2. ASSUME NEW e, Enters(e) PROVE Task!ReleasedByHolder
    <3>1. e \in Met("task") /\ SlotInv(proj.view) /\ proj'.view = Task!Effect(proj.view, e)
      BY <2>2 DEF IInv, ViewInv, Enters, Fits, EffectIs
    <3>2. e.type = "TaskAccept" => Task!Unassigned \notin {e.sender, e.value}
      BY <3>1, NamesAssumption
    <3>3. Task!Applied(e)
      BY <2>2 DEF Enters, Entered, Task!Applied
    <3>4. proj.view.slot # Task!Free /\ proj'.view.slot # proj.view.slot =>
                /\ proj'.view.slot = Task!Free
                /\ \/ e.type = "TaskReject" /\ e.sender = proj.view.slot.sender
                   \/ e.type = "TaskRequest" /\ e.subject = proj.view.slot.task
      BY <3>1, <3>2, TaskKeeps
    <3> QED BY <3>1, <3>3, <3>4 DEF Task!ReleasedByHolder, Task!view
  <2> QED BY <2>1, <2>2, ActionCases
<1> QED BY <1>1, <1>2, Invariance, PTL DEF Spec, SlotIsAssignment

\* A vote, a ballot, a handoff's outcome and a convergence stay as the first message
\* that gave them made them (the _apply handlers that discard a later answer).
THEOREM FirstWord == Spec => FirstWordStands
<1>1. IInv /\ [Next]_vars => (mode = "decision" => Decision!VoteKept)
  <2> SUFFICES ASSUME IInv, [Next]_vars, mode = "decision" PROVE Decision!VoteKept
    OBVIOUS
  <2>1. CASE UNCHANGED proj
    BY <2>1 DEF Decision!VoteKept, Decision!view
  <2>2. ASSUME NEW e, Enters(e) PROVE Decision!VoteKept
    <3>1. DecisionInv(proj.transcript, proj.view) /\ proj'.view = Decision!Effect(proj.view, e)
      BY <2>2 DEF IInv, ViewInv, Enters, EffectIs
    <3>2. Grown(proj.transcript, e, proj'.transcript)
      BY <2>2, EntersGrows
    <3> QED BY <3>1, <3>2, DecisionKeeps DEF Decision!VoteKept, Decision!view
  <2> QED BY <2>1, <2>2, ActionCases
<1>2. IInv /\ [Next]_vars => (mode = "quorum" => Quorum!BallotKept)
  <2> SUFFICES ASSUME IInv, [Next]_vars, mode = "quorum" PROVE Quorum!BallotKept
    OBVIOUS
  <2>1. CASE UNCHANGED proj
    BY <2>1 DEF Quorum!BallotKept, Quorum!view
  <2>2. ASSUME NEW e, Enters(e) PROVE Quorum!BallotKept
    <3>1. QuorumInv(proj.transcript, proj.view) /\ proj'.view = Quorum!Effect(proj.view, e)
      BY <2>2 DEF IInv, ViewInv, Enters, EffectIs
    <3>2. Grown(proj.transcript, e, proj'.transcript)
      BY <2>2, EntersGrows
    <3> QED BY <3>1, <3>2, QuorumKeeps DEF Quorum!BallotKept, Quorum!view
  <2> QED BY <2>1, <2>2, ActionCases
<1>3. IInv /\ [Next]_vars => (mode = "handoff" => Handoff!OutcomeKept)
  <2> SUFFICES ASSUME IInv, [Next]_vars, mode = "handoff", NEW h \in DOMAIN proj.view.handoffs,
                      ~Handoff!IsPending(proj.view, h),
                      \A e \in Met("handoff") : ~(Handoff!Applied(e) /\ e.type = "HandoffOffer" /\ e.subject = h)
               PROVE  SameOutcome(proj.view, proj'.view, h)
    BY DEF Handoff!OutcomeKept, Handoff!view, SameOutcome
  <2>1. HandoffInv(proj.transcript, proj.view)
    BY DEF IInv, ViewInv
  <2>2. CASE UNCHANGED proj
    <3>1. HandoffRecord(proj.view.handoffs[h])
      BY <2>1 DEF HandoffInv
    <3> QED BY <2>2, <3>1 DEF HandoffRecord, SameOutcome
  <2>3. ASSUME NEW e, Enters(e) PROVE SameOutcome(proj.view, proj'.view, h)
    <3>1. e \in Met("handoff") /\ proj'.view = Handoff!Effect(proj.view, e) /\ Handoff!Applied(e)
      BY <2>3 DEF Enters, Entered, Fits, EffectIs, Handoff!Applied
    <3>2. Grown(proj.transcript, e, proj'.transcript)
      BY <2>3, EntersGrows
    <3> QED BY <2>1, <3>1, <3>2, HandoffKeeps
  <2> QED BY <2>2, <2>3, ActionCases
<1>4. IInv /\ [Next]_vars => (mode = "multi_round" => MultiRound!ConvergenceKept)
  <2> SUFFICES ASSUME IInv, [Next]_vars, mode = "multi_round" PROVE MultiRound!ConvergenceKept
    OBVIOUS
  <2>1. CASE UNCHANGED proj
    BY <2>1 DEF MultiRound!ConvergenceKept, MultiRound!view
  <2>2. ASSUME NEW e, Enters(e) PROVE MultiRound!ConvergenceKept
    <3>1. /\ DOMAIN proj.view = DOMAIN MultiRound!MultiRoundInit
          /\ proj'.view = MultiRound!Effect(proj.view, e)
      BY <2>2 DEF IInv, ViewInv, Enters, EffectIs
    <3>2. proj.view.converged => Frozen(proj.view, proj'.view)
      BY <3>1, MultiRoundKeeps
    <3> QED BY <3>2 DEF Frozen, MultiRound!ConvergenceKept, MultiRound!view
  <2> QED BY <2>1, <2>2, ActionCases
<1> QED BY <1>1, <1>2, <1>3, <1>4, Invariance, PTL DEF Spec, FirstWordStands
=============================================================================
