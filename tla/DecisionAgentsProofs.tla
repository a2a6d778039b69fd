------------------------ MODULE DecisionAgentsProofs ------------------------
(***************************************************************************)
(* Theorems about agents on the built-in strategies, for any agents and    *)
(* wirings: every agent's projection is a prefix of the session's history  *)
(* and its tally of the votes is that prefix's, so a commitment rests on a *)
(* majority that the session had, however stale the committer's view.      *)
(***************************************************************************)
EXTENDS DecisionAgents, FiniteSetTheorems, FunctionTheorems, SequenceTheorems, TLAPS

Sequence(s) == s \in Seq({s[i] : i \in DOMAIN s})

\* What ParticipantActions puts into an envelope.
FromAgent(e) ==
    /\ e.type \in {"Proposal", "Evaluation", "Vote", "Commitment"}
    /\ e.sender \in Agents /\ e.mode = DecisionMode /\ e.ok
    /\ e.id = <<e.sender, e.type, e.subject>>
    /\ e.type # "Commitment" => e.subject \in DOMAIN wiring.opinion
    /\ e.type = "Commitment" => e.flag = InferOutcomePositive(e.value)
    /\ WellFormed(e)

Proposes(e, p) == e.type = "Proposal" /\ e.subject = p

\* The history a runtime has accepted: each envelope once, one Proposal for an id, and
\* votes and evaluations behind the Proposal they are about.
LogInv ==
    /\ Sequence(log)
    /\ \A i \in DOMAIN log : FromAgent(log[i])
    /\ \A i, j \in DOMAIN log : log[i].id = log[j].id => i = j
    /\ \A i, j \in DOMAIN log : log[i].type = "Proposal" /\ Proposes(log[j], log[i].subject) => i = j
    /\ \A i \in DOMAIN log : log[i].type \in {"Vote", "Evaluation"} =>
            \E j \in 1..i - 1 : Proposes(log[j], log[i].subject)

\* A tally is the replay of its transcript: every proposal is known, and the ballots are
\* those of the votes, each with its value.
Ballot(e) == <<e.subject, e.sender>>
VotesIn(t) == {j \in DOMAIN t : t[j].type = "Vote"}
Tallied(v, t) ==
    /\ DOMAIN v = DOMAIN DecisionInit
    /\ \A j \in DOMAIN t : t[j].type = "Proposal" => t[j].subject \in DOMAIN v.proposals
    /\ DOMAIN v.votes = {Ballot(t[j]) : j \in VotesIn(t)}
    /\ \A j \in VotesIn(t) : v.votes[Ballot(t[j])] = t[j].value

\* An agent's projection has applied a prefix of the history.
Prefix(t) == Sequence(t) /\ Len(t) <= Len(log) /\ \A j \in DOMAIN t : t[j] = log[j]
Follows(a) ==
    /\ Prefix(proj[a].transcript)
    /\ \A x \in proj[a].seen : \E j \in DOMAIN proj[a].transcript : log[j].id = x
    /\ Tallied(proj[a].view, proj[a].transcript)

\* Who evaluates a proposal has seen it.
HasSeen(a, p) == \E j \in DOMAIN proj[a].transcript : Proposes(proj[a].transcript[j], p)

\* Where an agent's handler is, and what it sends.
Sending(a) ==
    /\ status[a] \in {"absent", "starting", "running", "sending", "failed", "done"}
    /\ out[a] # Nothing <=> status[a] = "sending"
    /\ out[a] # Nothing => FromAgent(out[a]) /\ out[a].sender = a
    /\ out[a].type = "Evaluation" =>
            HasSeen(a, out[a].subject) /\ \A j \in DOMAIN log : log[j].id # out[a].id
    /\ out[a].type = "Commitment" =>
            \E n \in 1..Len(proj[a].transcript) : \E p \in DOMAIN wiring.opinion : Carried(n, p)

IInv ==
    /\ wiring \in Wirings
    /\ bound = None <=> status[Initiator] \in {"starting", "absent"}
    /\ DOMAIN proj = Agents /\ DOMAIN status = Agents /\ DOMAIN out = Agents
    /\ LogInv
    /\ \A a \in Agents : Follows(a) /\ Sending(a)
    /\ \A i \in DOMAIN log : log[i].type = "Evaluation" => HasSeen(log[i].sender, log[i].subject)
    /\ \A i \in DOMAIN log : log[i].type = "Commitment" =>
            \E n \in 1..i - 1 : \E p \in DOMAIN wiring.opinion : Carried(n, p)

-----------------------------------------------------------------------------
\* Sequences that keep what they hold.
LEMMA SequenceDomain ==
    ASSUME NEW s, Sequence(s)
    PROVE  Len(s) \in Nat /\ DOMAIN s = 1..Len(s)
BY DEF Sequence

LEMMA AppendSequence ==
    ASSUME NEW s, Sequence(s), NEW x
    PROVE  /\ Sequence(Append(s, x)) /\ Len(Append(s, x)) = Len(s) + 1
           /\ DOMAIN Append(s, x) = 1..Len(s) + 1
           /\ Append(s, x)[Len(s) + 1] = x
           /\ \A i \in DOMAIN s : Append(s, x)[i] = s[i]
<1> DEFINE S == {s[i] : i \in DOMAIN s} \cup {x}
           t == Append(s, x)
<1>1. s \in Seq(S)
  <2>1. s \in Seq({s[i] : i \in DOMAIN s})
    BY DEF Sequence
  <2>2. DOMAIN s = 1..Len(s) /\ Len(s) \in Nat /\ s = [i \in 1..Len(s) |-> s[i]]
    BY <2>1
  <2>3. \A i \in 1..Len(s) : s[i] \in S
    BY <2>2
  <2> HIDE DEF S
  <2> QED BY <2>2, <2>3, IsASeq
<1>2. x \in S
  OBVIOUS
<1>3. t \in Seq(S) /\ Len(t) = Len(s) + 1 /\ DOMAIN t = 1..Len(s) + 1 /\ t[Len(s) + 1] = x
      /\ \A i \in DOMAIN s : t[i] = s[i]
  <2> HIDE DEF S
  <2> QED BY <1>1, <1>2
<1>4. t \in Seq({t[i] : i \in DOMAIN t})
  <2>1. t = [i \in 1..Len(t) |-> t[i]] /\ Len(t) \in Nat /\ DOMAIN t = 1..Len(t)
    <3> HIDE DEF S, t
    <3> QED BY <1>3
  <2>2. \A i \in 1..Len(t) : t[i] \in {t[j] : j \in DOMAIN t}
    BY <2>1
  <2> HIDE DEF t
  <2> QED BY <2>1, <2>2, IsASeq
<1> QED BY <1>3, <1>4 DEF Sequence

-----------------------------------------------------------------------------
\* The strings the agents use.
LEMMA UpperVotes == Upper("APPROVE") = "APPROVE" /\ Upper("ABSTAIN") = "ABSTAIN"
BY DEF Upper

LEMMA WellFormedIs ==
    ASSUME NEW e
    PROVE  /\ e.type = "Vote" => (WellFormed(e) <=> e.value \in {"APPROVE", "REJECT", "ABSTAIN"})
           /\ e.type = "Evaluation" => (WellFormed(e) <=> e.value \in Recommendations)
           /\ e.type \in {"Proposal", "Commitment"} => WellFormed(e)
BY DEF WellFormed, Recommendations

\* Each of the four messages, as ParticipantActions builds it, is an agent's envelope.
LEMMA Built ==
    ASSUME NEW a \in Agents, NEW e
    PROVE  /\ \A p \in DOMAIN wiring.opinion : e = Propose(a, p) => FromAgent(e) /\ e.sender = a /\ Proposes(e, p)
           /\ \A p \in DOMAIN wiring.opinion : \A r : e = Evaluate(a, p, r) /\ Upper(r) \in Recommendations =>
                FromAgent(e) /\ e.sender = a /\ e.type = "Evaluation" /\ e.subject = p
           /\ \A p \in DOMAIN wiring.opinion, x \in {"APPROVE", "ABSTAIN"} : e = Vote(a, p, x) =>
                FromAgent(e) /\ e.sender = a /\ e.type = "Vote"
           /\ \A x : e = Commit(a, x, InferOutcomePositive(x)) =>
                FromAgent(e) /\ e.sender = a /\ e.type = "Commitment"
<1>1. ASSUME NEW p \in DOMAIN wiring.opinion, e = Propose(a, p)
      PROVE  FromAgent(e) /\ e.sender = a /\ Proposes(e, p)
  <2>1. e = Envelope(a, "Proposal", p, "decide", FALSE, "")
    BY <1>1 DEF Propose
  <2>2. e.id = <<a, "Proposal", p>> /\ e.mode = DecisionMode /\ e.type = "Proposal" /\ e.sender = a /\ e.subject = p /\ e.ok
    BY <2>1 DEF Envelope
  <2>3. WellFormed(e)
    BY <2>2, WellFormedIs
  <2> QED BY <2>2, <2>3 DEF FromAgent, Proposes
<1>2. ASSUME NEW p \in DOMAIN wiring.opinion, NEW r, e = Evaluate(a, p, r), Upper(r) \in Recommendations
      PROVE  FromAgent(e) /\ e.sender = a /\ e.type = "Evaluation" /\ e.subject = p
  <2>1. e = Envelope(a, "Evaluation", p, Upper(r), FALSE, "")
    BY <1>2 DEF Evaluate
  <2>2. /\ e.id = <<a, "Evaluation", p>> /\ e.mode = DecisionMode /\ e.type = "Evaluation"
        /\ e.sender = a /\ e.subject = p /\ e.value = Upper(r) /\ e.ok
    BY <2>1 DEF Envelope
  <2>3. WellFormed(e)
    BY <1>2, <2>2, WellFormedIs
  <2> QED BY <2>2, <2>3 DEF FromAgent
<1>3. ASSUME NEW p \in DOMAIN wiring.opinion, NEW x \in {"APPROVE", "ABSTAIN"}, e = Vote(a, p, x)
      PROVE  FromAgent(e) /\ e.sender = a /\ e.type = "Vote"
  <2>1. e = Envelope(a, "Vote", p, Upper(x), FALSE, "") /\ Upper(x) \in {"APPROVE", "ABSTAIN"}
    BY <1>3, UpperVotes DEF Vote
  <2>2. /\ e.id = <<a, "Vote", p>> /\ e.mode = DecisionMode /\ e.type = "Vote"
        /\ e.sender = a /\ e.subject = p /\ e.value = Upper(x) /\ e.ok
    BY <2>1 DEF Envelope
  <2>3. WellFormed(e)
    BY <2>1, <2>2, WellFormedIs
  <2> QED BY <2>2, <2>3 DEF FromAgent
<1>4. ASSUME NEW x, e = Commit(a, x, InferOutcomePositive(x))
      PROVE  FromAgent(e) /\ e.sender = a /\ e.type = "Commitment"
  <2>1. e = Envelope(a, "Commitment", "c", x, InferOutcomePositive(x), DefaultPolicy)
    BY <1>4 DEF Commit
  <2>2. /\ e.id = <<a, "Commitment", "c">> /\ e.mode = DecisionMode /\ e.type = "Commitment"
        /\ e.sender = a /\ e.subject = "c" /\ e.value = x /\ e.flag = InferOutcomePositive(x) /\ e.ok
    BY <2>1 DEF Envelope
  <2>3. WellFormed(e)
    BY <2>2, WellFormedIs
  <2> QED BY <2>2, <2>3 DEF FromAgent
<1> QED BY <1>1, <1>2, <1>3, <1>4

\* Nothing is no envelope.
LEMMA NothingIs ==
    ASSUME NEW e, FromAgent(e)
    PROVE  e # Nothing
BY DEF FromAgent, Nothing, None

-----------------------------------------------------------------------------
\* apply_envelope on an agent's envelope whose id is new.
LEMMA Applied ==
    ASSUME NEW p, NEW e, FromAgent(e), e.id \notin p.seen
    PROVE  LET q == ApplyEnvelope(p, e)
           IN  /\ q.transcript = Append(p.transcript, e) /\ q.seen \subseteq p.seen \cup {e.id}
               /\ q.view = Effect(p.view, e)
<1>1. ~Raises(e) /\ ~Ignored(p, e)
  BY DEF FromAgent, Raises, Ignored, Redelivered
<1>2. ApplyEnvelope(p, e) = WithEffect(Enter(p, e), e)
  BY <1>1 DEF ApplyEnvelope, Apply
<1> QED BY <1>2 DEF WithEffect, Enter

\* What one message of the agents does to a view: proposals and ballots.
LEMMA PhaseOnly ==
    ASSUME NEW v, NEW phase, DOMAIN v = DOMAIN DecisionInit, NEW w, w = SetPhase(v, phase)
    PROVE  DOMAIN w = DOMAIN v /\ w.proposals = v.proposals /\ w.votes = v.votes
BY DEF SetPhase, DecisionInit

LEMMA EffectIs ==
    ASSUME NEW v, NEW e, FromAgent(e), DOMAIN v = DOMAIN DecisionInit, NEW w, w = Effect(v, e)
    PROVE  /\ DOMAIN w = DOMAIN v
           /\ e.type = "Proposal" => e.subject \in DOMAIN w.proposals /\ DOMAIN v.proposals \subseteq DOMAIN w.proposals
           /\ e.type # "Proposal" => w.proposals = v.proposals
           /\ e.type # "Vote" => w.votes = v.votes
           /\ e.type = "Vote" /\ e.subject \in DOMAIN v.proposals /\ Ballot(e) \notin DOMAIN v.votes =>
                w.votes = Put(v.votes, Ballot(e), e.value)
<1>1. e.type \in {"Proposal", "Evaluation", "Vote", "Commitment"}
  BY DEF FromAgent
<1>2. CASE e.type = "Commitment"
  <2>1. w = [v EXCEPT !.commitment = e.subject, !.phase = "Committed"]
    BY <1>2 DEF Effect
  <2> QED BY <1>2, <2>1 DEF DecisionInit
<1>3. CASE e.type = "Proposal"
  <2>1. w = OnProposal(v, e)
    BY <1>3 DEF Effect, DecisionStep
  <2>2. PICK x : x = [option |-> e.value, sender |-> e.sender]
    OBVIOUS
  <2>3. PICK u : u = [v EXCEPT !.proposals = Put(@, e.subject, x)]
    OBVIOUS
  <2>4. w = u \/ w = SetPhase(u, "Evaluation")
    BY <2>1, <2>2, <2>3 DEF OnProposal
  <2>5. DOMAIN u = DOMAIN v /\ u.proposals = Put(v.proposals, e.subject, x) /\ u.votes = v.votes
    BY <2>3 DEF DecisionInit
  <2>6. w.proposals = Put(v.proposals, e.subject, x) /\ DOMAIN w = DOMAIN v /\ w.votes = v.votes
    BY <2>4, <2>5, PhaseOnly
  <2> QED BY <1>3, <2>6 DEF Put
<1>4. CASE e.type = "Evaluation"
  <2>1. w = OnEvaluation(v, e)
    BY <1>4 DEF Effect, DecisionStep
  <2>2. PICK u : u = [v EXCEPT !.evaluations = Append(@, [subject |-> e.subject, value |-> e.value, sender |-> e.sender])]
    OBVIOUS
  <2>3. w = SetPhase(u, "Evaluation")
    BY <2>1, <2>2 DEF OnEvaluation
  <2>4. DOMAIN u = DOMAIN v /\ u.proposals = v.proposals /\ u.votes = v.votes
    BY <2>2 DEF DecisionInit
  <2> QED BY <1>4, <2>3, <2>4, PhaseOnly
<1>5. CASE e.type = "Vote"
  <2>1. w = OnVote(v, e)
    BY <1>5 DEF Effect, DecisionStep
  <2>2. CASE e.subject \notin DOMAIN v.proposals
    <3>1. w = v
      BY <2>1, <2>2 DEF OnVote
    <3> QED BY <1>5, <2>2, <3>1
  <2>3. CASE e.subject \in DOMAIN v.proposals /\ Ballot(e) \in DOMAIN v.votes
    <3>1. w = RecordAnomaly(v, "duplicate_vote", e)
      BY <2>1, <2>3 DEF OnVote, Ballot
    <3>2. DOMAIN w = DOMAIN v /\ w.proposals = v.proposals
      <4> QED BY <3>1 DEF RecordAnomaly, DecisionInit
    <3> QED BY <1>5, <2>3, <3>2
  <2>4. CASE e.subject \in DOMAIN v.proposals /\ Ballot(e) \notin DOMAIN v.votes
    <3>1. PICK u : u = [v EXCEPT !.votes = Put(@, Ballot(e), e.value)]
      OBVIOUS
    <3>2. w = SetPhase(u, "Voting")
      BY <2>1, <2>4, <3>1 DEF OnVote, Ballot
    <3>3. DOMAIN u = DOMAIN v /\ u.proposals = v.proposals /\ u.votes = Put(v.votes, Ballot(e), e.value)
      BY <3>1 DEF DecisionInit
    <3> QED BY <1>5, <3>2, <3>3, PhaseOnly
  <2> QED BY <2>2, <2>3, <2>4
<1> QED BY <1>1, <1>2, <1>3, <1>4, <1>5

\* The tally follows its transcript, message by message.
LEMMA TalliedAppend ==
    ASSUME NEW v, NEW t, NEW e, Sequence(t), Tallied(v, t), FromAgent(e),
           e.type = "Vote" => /\ \E j \in DOMAIN t : Proposes(t[j], e.subject)
                              /\ \A j \in VotesIn(t) : Ballot(t[j]) # Ballot(e)
    PROVE  Tallied(Effect(v, e), Append(t, e))
<1>1. PICK w : w = Effect(v, e)
  OBVIOUS
<1>2. PICK s : s = Append(t, e)
  OBVIOUS
<1>3. PICK n : n = Len(s)
  OBVIOUS
<1>4. n \notin DOMAIN t /\ DOMAIN s = DOMAIN t \cup {n} /\ s[n] = e /\ \A j \in DOMAIN t : s[j] = t[j]
  BY <1>2, <1>3, SequenceDomain, AppendSequence
<1>0. DOMAIN v = DOMAIN DecisionInit
  BY DEF Tallied
<1>e. /\ DOMAIN w = DOMAIN v
      /\ e.type = "Proposal" => e.subject \in DOMAIN w.proposals /\ DOMAIN v.proposals \subseteq DOMAIN w.proposals
      /\ e.type # "Proposal" => w.proposals = v.proposals
      /\ e.type # "Vote" => w.votes = v.votes
      /\ e.type = "Vote" /\ e.subject \in DOMAIN v.proposals /\ Ballot(e) \notin DOMAIN v.votes =>
            w.votes = Put(v.votes, Ballot(e), e.value)
  BY <1>0, <1>1, EffectIs
<1>5. /\ DOMAIN w = DOMAIN DecisionInit
      /\ \A j \in DOMAIN s : s[j].type = "Proposal" => s[j].subject \in DOMAIN w.proposals
  BY <1>0, <1>e, <1>4 DEF Tallied, Put
<1>6. CASE e.type # "Vote"
  <2>1. w.votes = v.votes /\ VotesIn(s) = VotesIn(t)
    BY <1>e, <1>4, <1>6 DEF VotesIn
  <2>2. DOMAIN w.votes = {Ballot(s[j]) : j \in VotesIn(s)}
    BY <1>4, <2>1 DEF Tallied, VotesIn
  <2>3. \A j \in VotesIn(s) : w.votes[Ballot(s[j])] = s[j].value
    BY <1>4, <2>1 DEF Tallied, VotesIn
  <2> QED BY <1>1, <1>2, <1>5, <2>2, <2>3 DEF Tallied
<1>7. CASE e.type = "Vote"
  <2>1. e.subject \in DOMAIN v.proposals /\ Ballot(e) \notin DOMAIN v.votes
    BY <1>7 DEF Tallied, Proposes
  <2>2. w.votes = Put(v.votes, Ballot(e), e.value)
    BY <1>e, <1>7, <2>1
  <2>3. VotesIn(s) = VotesIn(t) \cup {n}
    BY <1>4, <1>7 DEF VotesIn
  <2>4. DOMAIN w.votes = DOMAIN v.votes \cup {Ballot(e)}
    BY <2>2 DEF Put
  <2>5. DOMAIN w.votes = {Ballot(s[j]) : j \in VotesIn(s)}
    BY <1>4, <2>3, <2>4 DEF Tallied, VotesIn
  <2>6. \A j \in VotesIn(s) : w.votes[Ballot(s[j])] = s[j].value
    BY <1>4, <2>1, <2>2, <2>3 DEF Tallied, VotesIn, Put
  <2> QED BY <1>1, <1>2, <1>5, <2>5, <2>6 DEF Tallied
<1> QED BY <1>6, <1>7

-----------------------------------------------------------------------------
\* Ballots are counted as votes are: one for each position.
LEMMA BallotsCount ==
    ASSUME NEW t, NEW n \in Nat, NEW S, S \subseteq 1..n,
           \A i, j \in S : Ballot(t[i]) = Ballot(t[j]) => i = j
    PROVE  Cardinality({Ballot(t[j]) : j \in S}) = Cardinality(S)
<1> DEFINE B == {Ballot(t[j]) : j \in S}
           f == [j \in S |-> Ballot(t[j])]
<1>1. IsFiniteSet(S)
  <2>1. IsFiniteSet(1..n) /\ S \in SUBSET (1..n)
    BY FS_Interval
  <2> QED BY <2>1, FS_Subset
<1>2. f \in [S -> B] /\ (\A i, j \in S : f[i] = f[j] => i = j) /\ \A b \in B : \E j \in S : f[j] = b
  OBVIOUS
<1>3. f \in Bijection(S, B)
  <2> HIDE DEF f, B
  <2> QED BY <1>2, Fun_IsBij
<1>4. ExistsBijection(S, B)
  BY <1>3 DEF ExistsBijection
<1> QED BY <1>1, <1>4, FS_Bijection

\* A vote's ballot is its own, and its subject may be proposed.
LEMMA VotesDistinct ==
    ASSUME LogInv
    PROVE  /\ \A i, j \in VotesIn(log) : Ballot(log[i]) = Ballot(log[j]) => i = j
           /\ \A j \in VotesIn(log) : /\ log[j].subject \in DOMAIN wiring.opinion
                                      /\ log[j].value \in {"APPROVE", "REJECT", "ABSTAIN"}
<1>1. ASSUME NEW j \in VotesIn(log)
      PROVE  /\ log[j].id = <<log[j].sender, "Vote", log[j].subject>>
             /\ log[j].subject \in DOMAIN wiring.opinion
             /\ log[j].value \in {"APPROVE", "REJECT", "ABSTAIN"}
  <2>1. j \in DOMAIN log /\ log[j].type = "Vote"
    BY DEF VotesIn
  <2>2. FromAgent(log[j])
    BY <2>1 DEF LogInv
  <2>3. WellFormed(log[j]) /\ log[j].id = <<log[j].sender, "Vote", log[j].subject>> /\ log[j].subject \in DOMAIN wiring.opinion
    BY <2>1, <2>2 DEF FromAgent
  <2> QED BY <2>1, <2>3, WellFormedIs
<1>2. ASSUME NEW i \in VotesIn(log), NEW j \in VotesIn(log), Ballot(log[i]) = Ballot(log[j])
      PROVE  i = j
  <2>1. log[i].id = log[j].id
    BY <1>1, <1>2 DEF Ballot
  <2> QED BY <2>1 DEF VotesIn, LogInv
<1> QED BY <1>1, <1>2

\* A committer's bar and its majority, read off its own tally, are those of the history
\* it has read.
LEMMA ShouldCommitIsCarried ==
    ASSUME LogInv, NEW t, NEW v, Prefix(t), Tallied(v, t), ShouldCommit(v)
    PROVE  \E p \in DOMAIN wiring.opinion : Carried(Len(t), p)
<1>1. PICK n \in Nat : n = Len(t) /\ DOMAIN t = 1..n /\ n <= Len(log)
  BY SequenceDomain DEF Prefix
<1>2. Len(log) \in Nat /\ DOMAIN log = 1..Len(log)
  BY SequenceDomain DEF LogInv
<1>3. 1..n \subseteq DOMAIN log /\ \A j \in 1..n : t[j] = log[j]
  BY <1>1, <1>2 DEF Prefix
<1>4. VotesIn(t) = {j \in 1..n : log[j].type = "Vote"} /\ VotesIn(t) \subseteq VotesIn(log)
  BY <1>1, <1>3 DEF VotesIn
<1>5. /\ DOMAIN v.votes = {Ballot(log[j]) : j \in VotesIn(t)}
      /\ \A j \in VotesIn(t) : v.votes[Ballot(log[j])] = log[j].value
  BY <1>3, <1>4 DEF Tallied
<1>6. \A i, j \in VotesIn(t) : Ballot(log[i]) = Ballot(log[j]) => i = j
  BY <1>4, VotesDistinct
<1>7. \A j \in VotesIn(t) : log[j].subject \in DOMAIN wiring.opinion /\ log[j].value \in {"APPROVE", "REJECT", "ABSTAIN"}
  BY <1>4, VotesDistinct
<1>8. ASSUME NEW p
      PROVE  Cardinality(Approvals(v, p)) = Cardinality(VotesUpTo(n, p, {"APPROVE"}))
  <2>1. Approvals(v, p) = {Ballot(log[j]) : j \in VotesUpTo(n, p, {"APPROVE"})}
    <3>1. \A k \in Approvals(v, p) : \E j \in VotesUpTo(n, p, {"APPROVE"}) : k = Ballot(log[j])
      BY <1>4, <1>5, <1>7 DEF Approvals, VotesOn, IsPositiveVote, VotesUpTo, Ballot
    <3>2. \A j \in VotesUpTo(n, p, {"APPROVE"}) : Ballot(log[j]) \in Approvals(v, p)
      BY <1>4, <1>5 DEF Approvals, VotesOn, IsPositiveVote, VotesUpTo, Ballot
    <3> QED BY <3>1, <3>2
  <2>2. VotesUpTo(n, p, {"APPROVE"}) \subseteq VotesIn(t)
    BY <1>4 DEF VotesUpTo
  <2>3. VotesUpTo(n, p, {"APPROVE"}) \subseteq 1..n
    BY DEF VotesUpTo
  <2> QED BY <1>6, <2>1, <2>2, <2>3, BallotsCount
<1> DEFINE all == UNION {VotesUpTo(n, q, {"APPROVE", "REJECT"}) : q \in DOMAIN wiring.opinion}
<1>9. Cardinality(Counted(v, DOMAIN v.votes)) = Cardinality(all)
  <2>1. all = {j \in VotesIn(t) : log[j].value # "ABSTAIN"}
    BY <1>4, <1>7 DEF VotesUpTo
  <2>2. Counted(v, DOMAIN v.votes) = {Ballot(log[j]) : j \in all}
    <3> HIDE DEF all
    <3>1. \A k \in Counted(v, DOMAIN v.votes) : \E j \in all : k = Ballot(log[j])
      BY <1>5, <2>1 DEF Counted
    <3>2. \A j \in all : Ballot(log[j]) \in Counted(v, DOMAIN v.votes)
      BY <1>5, <2>1 DEF Counted
    <3> QED BY <3>1, <3>2
  <2>3. all \subseteq VotesIn(t) /\ all \subseteq 1..n
    BY <1>4, <2>1
  <2> HIDE DEF all
  <2> QED BY <1>6, <2>2, <2>3, BallotsCount
<1>10. PICK p \in DOMAIN VoteTotals(v) :
          VoteTotals(v)[p] >= wiring.quorum /\ 2 * VoteTotals(v)[p] > Cardinality(Counted(v, DOMAIN v.votes))
  BY DEF ShouldCommit, MajorityWinner
<1>11. p \in DOMAIN wiring.opinion /\ VoteTotals(v)[p] = Cardinality(Approvals(v, p))
  BY <1>5, <1>7 DEF VoteTotals, Ballot
<1>12. Carried(n, p)
  BY <1>8, <1>9, <1>10, <1>11 DEF Carried
<1> QED BY <1>1, <1>11, <1>12

-----------------------------------------------------------------------------
\* What a handler sends: nothing, or an envelope of the agent's own, an evaluation only
\* of the proposal it was shown, a commitment only on its tally.
LEMMA Reacts ==
    ASSUME wiring \in Wirings, NEW a \in Agents, NEW v, NEW e, FromAgent(e), NEW reply, reply = Reaction(a, v, e)
    PROVE  \/ reply = Nothing
           \/ /\ FromAgent(reply) /\ reply.sender = a
              /\ reply.type = "Evaluation" => Proposes(e, reply.subject)
              /\ reply.type = "Commitment" => ShouldCommit(v)
<1>1. e.type # "Commitment" => e.subject \in DOMAIN wiring.opinion
  BY DEF FromAgent
<1>2. CASE e.type = "Proposal"
  <2>1. reply = Nothing \/ reply = Evaluate(a, e.subject, wiring.opinion[e.subject])
    BY <1>2 DEF Reaction, EvaluationHandler
  <2>2. e.subject \in DOMAIN wiring.opinion /\ Upper(wiring.opinion[e.subject]) \in Recommendations
    BY <1>1, <1>2, AgentsAssumption
  <2>3. CASE reply = Evaluate(a, e.subject, wiring.opinion[e.subject])
    <3>1. FromAgent(reply) /\ reply.sender = a /\ reply.type = "Evaluation" /\ reply.subject = e.subject
      BY <2>2, <2>3, Built
    <3> QED BY <1>2, <3>1 DEF Proposes
  <2> QED BY <2>1, <2>3
<1>3. CASE e.type = "Evaluation"
  <2>1. reply = Nothing \/ reply = Vote(a, e.subject, DecideVote(v))
    BY <1>3 DEF Reaction, VotingHandler
  <2>2. e.subject \in DOMAIN wiring.opinion /\ DecideVote(v) \in {"APPROVE", "ABSTAIN"}
    BY <1>1, <1>3 DEF DecideVote
  <2>3. CASE reply = Vote(a, e.subject, DecideVote(v))
    <3>1. FromAgent(reply) /\ reply.sender = a /\ reply.type = "Vote"
      BY <2>2, <2>3, Built
    <3> QED BY <3>1
  <2> QED BY <2>1, <2>3
<1>4. CASE e.type = "Vote"
  <2>1. \/ reply = Nothing
        \/ ShouldCommit(v) /\ reply = Commit(a, wiring.action, InferOutcomePositive(wiring.action))
    BY <1>4 DEF Reaction, CommitmentHandler
  <2>2. CASE ShouldCommit(v) /\ reply = Commit(a, wiring.action, InferOutcomePositive(wiring.action))
    <3>1. FromAgent(reply) /\ reply.sender = a /\ reply.type = "Commitment"
      BY <2>2, Built
    <3> QED BY <2>2, <3>1
  <2> QED BY <2>1, <2>2
<1>5. CASE e.type = "Commitment"
  BY <1>5 DEF Reaction
<1> QED BY <1>2, <1>3, <1>4, <1>5 DEF FromAgent

\* What a history that grows keeps: its prefixes, and what they carried.
LEMMA Grows ==
    ASSUME Sequence(log), NEW e, log' = Append(log, e), UNCHANGED wiring
    PROVE  /\ Len(log) \in Nat /\ DOMAIN log = 1..Len(log) /\ DOMAIN log' = 1..Len(log) + 1
           /\ Sequence(log)' /\ Len(log') = Len(log) + 1 /\ log'[Len(log) + 1] = e
           /\ \A i \in DOMAIN log : log'[i] = log[i]
           /\ \A t : Prefix(t) => Prefix(t)'
           /\ \A n \in 0..Len(log) : \A p : Carried(n, p) => Carried(n, p)'
<1>1. /\ Len(log) \in Nat /\ DOMAIN log = 1..Len(log) /\ DOMAIN log' = 1..Len(log) + 1
      /\ Len(log') = Len(log) + 1 /\ log'[Len(log) + 1] = e /\ \A i \in DOMAIN log : log'[i] = log[i]
  BY SequenceDomain, AppendSequence
<1>2. Sequence(log)'
  BY AppendSequence DEF Sequence
<1>3. ASSUME NEW t, Prefix(t) PROVE Prefix(t)'
  <2>1. Len(t) \in Nat /\ DOMAIN t = 1..Len(t) /\ DOMAIN t \subseteq DOMAIN log
    BY <1>1, <1>3, SequenceDomain DEF Prefix
  <2> QED BY <1>1, <1>3, <2>1 DEF Prefix, Sequence
<1>4. ASSUME NEW n \in 0..Len(log), NEW p, Carried(n, p) PROVE Carried(n, p)'
  <2>1. \A j \in 1..n : log'[j] = log[j]
    BY <1>1
  <2>2. \A q, values : VotesUpTo(n, q, values)' = VotesUpTo(n, q, values)
    BY <2>1 DEF VotesUpTo
  <2> QED BY <1>4, <2>2 DEF Carried
<1> QED BY <1>1, <1>2, <1>3, <1>4

\* The runtime keeps the history in order: what it takes has a new id.
LEMMA TakenIsNew ==
    ASSUME LogInv, NEW e, FromAgent(e), Accepts(log, e),
           e.type = "Evaluation" => \A j \in DOMAIN log : log[j].id # e.id
    PROVE  \A j \in DOMAIN log : log[j].id # e.id
<1> SUFFICES ASSUME NEW j \in DOMAIN log, log[j].id = e.id PROVE FALSE
  OBVIOUS
<1>1. log[j].type = e.type /\ log[j].subject = e.subject /\ log[j].sender = e.sender
  BY DEF LogInv, FromAgent
<1>2. CASE e.type = "Proposal"
  BY <1>1, <1>2 DEF Accepts, Proposed
<1>3. CASE e.type = "Vote"
  BY <1>1, <1>3 DEF Accepts, Voted
<1>4. CASE e.type = "Commitment"
  BY <1>1, <1>4 DEF Accepts, Has
<1> QED BY <1>2, <1>3, <1>4 DEF FromAgent

LEMMA LogStep ==
    ASSUME LogInv, NEW e, FromAgent(e), Accepts(log, e),
           e.type = "Evaluation" => \A j \in DOMAIN log : log[j].id # e.id,
           log' = Append(log, e), UNCHANGED wiring
    PROVE  LogInv'
<1>1. /\ Len(log) \in Nat /\ DOMAIN log = 1..Len(log) /\ DOMAIN log' = 1..Len(log) + 1
      /\ Sequence(log)' /\ log'[Len(log) + 1] = e /\ \A i \in DOMAIN log : log'[i] = log[i]
  BY Grows DEF LogInv
<1>2. PICK n \in Nat : n = Len(log) + 1 /\ DOMAIN log' = DOMAIN log \cup {n} /\ log'[n] = e /\ n \notin DOMAIN log
  BY <1>1
<1>4. \A i \in DOMAIN log' : FromAgent(log'[i])
  BY <1>1, <1>2 DEF LogInv
<1>5. \A i, j \in DOMAIN log' : log'[i].id = log'[j].id => i = j
  BY <1>1, <1>2, TakenIsNew DEF LogInv
<1>6. \A i, j \in DOMAIN log' : log'[i].type = "Proposal" /\ Proposes(log'[j], log'[i].subject) => i = j
  BY <1>1, <1>2 DEF LogInv, Proposes, Accepts, Proposed
<1>7. \A i \in DOMAIN log' : log'[i].type \in {"Vote", "Evaluation"} =>
            \E j \in 1..i - 1 : Proposes(log'[j], log'[i].subject)
  <2>1. ASSUME NEW i \in DOMAIN log, log[i].type \in {"Vote", "Evaluation"}
        PROVE  \E j \in 1..i - 1 : Proposes(log'[j], log[i].subject)
    <3>1. PICK j \in 1..i - 1 : Proposes(log[j], log[i].subject)
      BY <2>1 DEF LogInv
    <3>2. j \in DOMAIN log
      BY <1>1, <3>1
    <3> QED BY <1>1, <3>1, <3>2
  <2>2. e.type \in {"Vote", "Evaluation"} => \E j \in 1..n - 1 : Proposes(log'[j], e.subject)
    BY <1>1, <1>2 DEF Accepts, Proposed, Proposes
  <2> QED BY <1>1, <1>2, <2>1, <2>2
<1>8. \A i \in DOMAIN log' : FromAgent(log[i])' <=> FromAgent(log'[i])
  BY DEF FromAgent
<1> QED BY <1>1, <1>4, <1>5, <1>6, <1>7, <1>8 DEF LogInv, Proposes

-----------------------------------------------------------------------------
\* The invariant holds at first, and every action keeps it.
LEMMA EmptyTally == Sequence(<<>>) /\ Tallied(DecisionInit, <<>>)
BY DEF Sequence, Tallied, VotesIn, DecisionInit

LEMMA InitIInv == Init => IInv
<1> SUFFICES ASSUME Init PROVE IInv
  OBVIOUS
<1>1. Sequence(log) /\ log = <<>> /\ DOMAIN log = {} /\ Len(log) = 0
  BY EmptyTally DEF Init
<1>2. LogInv
  BY <1>1 DEF LogInv
<1>3. ASSUME NEW a \in Agents PROVE Follows(a) /\ Sending(a)
  <2>1. proj[a].transcript = <<>> /\ proj[a].seen = {} /\ proj[a].view = DecisionInit
    BY DEF Init, Fresh
  <2>2. Follows(a)
    BY <1>1, <2>1, EmptyTally DEF Follows, Prefix
  <2>3. out[a] = Nothing /\ status[a] \in {"absent", "starting", "running"}
    BY DEF Init
  <2>4. Nothing.type = "none"
    BY DEF Nothing, None
  <2> QED BY <2>2, <2>3, <2>4 DEF Sending
<1>4. bound = None /\ status[Initiator] \in {"starting", "absent"}
  BY AgentsAssumption DEF Init
<1> QED BY <1>1, <1>2, <1>3, <1>4 DEF Init, IInv

\* Who stays where they are is as before.
LEMMA Stays ==
    ASSUME NEW a \in Agents, Follows(a), Sending(a),
           UNCHANGED wiring, proj'[a] = proj[a], status'[a] = status[a], out'[a] = out[a], UNCHANGED log
    PROVE  Follows(a)' /\ Sending(a)'
<1>1. Follows(a)'
  BY DEF Follows, Prefix, Tallied, VotesIn, Sequence
<1>2. \A n, p : Carried(n, p)' <=> Carried(n, p)
  BY DEF Carried, VotesUpTo
<1> QED BY <1>1, <1>2 DEF Sending, HasSeen, Proposes, FromAgent

LEMMA DeliverStep ==
    ASSUME IInv, NEW a \in Agents, Deliver(a)
    PROVE  IInv'
<1>1. PICK t, v, seen : t = proj[a].transcript /\ v = proj[a].view /\ seen = proj[a].seen
  OBVIOUS
<1>2. PICK n : n = Len(t) + 1
  OBVIOUS
<1>3. /\ Prefix(t) /\ Tallied(v, t) /\ (\A x \in seen : \E j \in DOMAIN t : log[j].id = x)
      /\ LogInv /\ wiring \in Wirings
  BY <1>1 DEF IInv, Follows
<1>4. /\ Len(log) \in Nat /\ DOMAIN log = 1..Len(log) /\ n \in DOMAIN log /\ n \in Nat
      /\ Sequence(t) /\ DOMAIN t = 1..n - 1 /\ \A j \in DOMAIN t : j \in DOMAIN log /\ j # n /\ t[j] = log[j]
  <2>1. Len(t) \in Nat /\ DOMAIN t = 1..Len(t) /\ Len(log) \in Nat /\ DOMAIN log = 1..Len(log) /\ Sequence(t)
    BY <1>3, SequenceDomain DEF LogInv, Prefix
  <2>2. Len(t) < Len(log)
    BY <1>1 DEF Deliver
  <2> QED BY <1>2, <1>3, <2>1, <2>2 DEF Prefix
<1>5. PICK e : e = log[n]
  OBVIOUS
<1>6. FromAgent(e)
  BY <1>3, <1>4, <1>5 DEF LogInv
<1>7. e.id \notin seen
  BY <1>3, <1>4, <1>5 DEF LogInv
<1>8. PICK p : p = ApplyEnvelope(proj[a], e)
  OBVIOUS
<1>9. p.transcript = Append(t, e) /\ p.seen \subseteq seen \cup {e.id} /\ p.view = Effect(v, e)
  BY <1>1, <1>6, <1>7, <1>8, Applied
<1>10. PICK reply : reply = Reaction(a, p.view, e)
  OBVIOUS
<1>11. /\ UNCHANGED <<wiring, log, bound>> /\ status[a] = "running"
       /\ proj' = [proj EXCEPT ![a] = p] /\ out' = [out EXCEPT ![a] = reply]
       /\ status' = [status EXCEPT ![a] = IF reply = Nothing THEN Looping(p.view) ELSE "sending"]
  BY <1>1, <1>2, <1>5, <1>8, <1>10 DEF Deliver
<1>12. PICK s : s = Append(t, e)
  OBVIOUS
<1>13. Sequence(s) /\ Len(s) = n /\ DOMAIN s = DOMAIN t \cup {n} /\ DOMAIN s = 1..n /\ \A j \in DOMAIN s : s[j] = log[j]
  BY <1>2, <1>4, <1>5, <1>12, AppendSequence
<1>14. Prefix(s)
  BY <1>4, <1>13 DEF Prefix
<1>15. Tallied(p.view, s)
  <2>1. ASSUME e.type = "Vote"
        PROVE  /\ \E j \in DOMAIN t : Proposes(t[j], e.subject)
               /\ \A j \in VotesIn(t) : Ballot(t[j]) # Ballot(e)
    <3>1. \E j \in 1..n - 1 : Proposes(log[j], e.subject)
      BY <1>3, <1>4, <1>5, <2>1 DEF LogInv
    <3>2. n \in VotesIn(log) /\ \A j \in VotesIn(t) : j \in VotesIn(log) /\ j # n /\ t[j] = log[j]
      BY <1>4, <1>5, <2>1 DEF VotesIn
    <3> QED BY <1>3, <1>4, <1>5, <3>1, <3>2, VotesDistinct
  <2> QED BY <1>3, <1>4, <1>6, <1>9, <1>12, <2>1, TalliedAppend
<1>16. proj'[a] = p /\ out'[a] = reply /\ DOMAIN proj' = Agents /\ DOMAIN out' = Agents /\ DOMAIN status' = Agents
       /\ status'[a] = IF reply = Nothing THEN Looping(p.view) ELSE "sending"
  BY <1>11 DEF IInv
<1>17. Follows(a)'
  <2>1. \A x \in p.seen : \E j \in DOMAIN s : log[j].id = x
    BY <1>3, <1>4, <1>5, <1>9, <1>13
  <2>2. Prefix(s)' /\ Tallied(p.view, s)'
    BY <1>11, <1>14, <1>15 DEF Prefix, Tallied, VotesIn, Sequence
  <2> QED BY <1>9, <1>11, <1>12, <1>16, <2>1, <2>2 DEF Follows
<1>18. \A x : HasSeen(a, x) => HasSeen(a, x)'
  BY <1>1, <1>4, <1>9, <1>12, <1>13, <1>16 DEF HasSeen, Proposes

<1>19. reply = Nothing \/ (FromAgent(reply) /\ reply # Nothing)
  <2>1. reply = Nothing \/ FromAgent(reply)
    BY <1>3, <1>6, <1>10, Reacts
  <2>2. FromAgent(reply) => reply # Nothing
    BY NothingIs
  <2> QED BY <2>1, <2>2
<1>20. ASSUME FromAgent(reply), reply # Nothing
       PROVE  /\ reply.sender = a
              /\ reply.type = "Evaluation" => Proposes(e, reply.subject)
              /\ reply.type = "Commitment" => \E q \in DOMAIN wiring.opinion : Carried(n, q)
  <2>1. /\ reply.sender = a
        /\ reply.type = "Evaluation" => Proposes(e, reply.subject)
        /\ reply.type = "Commitment" => ShouldCommit(p.view)
    BY <1>3, <1>6, <1>10, <1>20, Reacts
  <2> QED BY <1>3, <1>13, <1>14, <1>15, <2>1, ShouldCommitIsCarried
<1>21. ASSUME FromAgent(reply), reply # Nothing, reply.type = "Evaluation"
       PROVE  HasSeen(a, reply.subject)' /\ \A j \in DOMAIN log : log[j].id # reply.id
  <2>1. Proposes(e, reply.subject)
    BY <1>20, <1>21
  <2>2. HasSeen(a, reply.subject)'
    BY <1>5, <1>9, <1>12, <1>13, <1>16, <2>1, <1>4 DEF HasSeen, Proposes
  <2>3. ASSUME NEW j \in DOMAIN log, log[j].id = reply.id PROVE FALSE
    <3>1. log[j].type = "Evaluation" /\ log[j].sender = a /\ log[j].subject = reply.subject
      BY <1>3, <1>20, <1>21, <2>3 DEF LogInv, FromAgent
    <3>2. HasSeen(a, reply.subject)
      BY <3>1 DEF IInv
    <3>3. PICK i \in DOMAIN t : Proposes(log[i], reply.subject)
      BY <1>1, <1>4, <3>2 DEF HasSeen
    <3> QED BY <1>3, <1>4, <1>5, <2>1, <3>3 DEF LogInv, Proposes
  <2> QED BY <2>2, <2>3
<1>22. Len(proj'[a].transcript) = n /\ n \in 1..n
  BY <1>2, <1>4, <1>9, <1>12, <1>13, <1>16
<1>23. \A m, q : Carried(m, q)' <=> Carried(m, q)
  BY <1>11 DEF Carried, VotesUpTo
<1>24. Nothing.type = "none"
  BY DEF Nothing, None
<1>25. Sending(a)'
  <2>1. CASE reply = Nothing
    BY <1>16, <1>24, <2>1 DEF Sending, Looping
  <2>2. CASE FromAgent(reply) /\ reply # Nothing
    <3>1. status'[a] = "sending" /\ out'[a] = reply /\ reply # Nothing /\ Nothing' = Nothing
      BY <1>16, <2>2 DEF Nothing
    <3>2. FromAgent(out[a])' /\ out'[a].sender = a
      BY <1>11, <1>20, <2>2, <3>1 DEF FromAgent
    <3>3. out'[a].type = "Evaluation" =>
                HasSeen(a, out[a].subject)' /\ \A j \in DOMAIN log' : log'[j].id # out'[a].id
      BY <1>11, <1>21, <2>2, <3>1
    <3>4. out'[a].type = "Commitment" =>
            \E m \in 1..Len(proj'[a].transcript) : \E q \in DOMAIN wiring'.opinion : Carried(m, q)'
      BY <1>11, <1>20, <1>22, <1>23, <2>2, <3>1
    <3> QED BY <3>1, <3>2, <3>3, <3>4 DEF Sending
  <2> QED BY <1>19, <2>1, <2>2
<1>26. ASSUME NEW b \in Agents, b # a
       PROVE  Follows(b)' /\ Sending(b)' /\ \A x : HasSeen(b, x) => HasSeen(b, x)'
  <2>1. proj'[b] = proj[b] /\ status'[b] = status[b] /\ out'[b] = out[b]
    BY <1>11, <1>26 DEF IInv
  <2> QED BY <1>11, <2>1, Stays DEF IInv, HasSeen
<1>27. \A i \in DOMAIN log' : log'[i].type = "Evaluation" => HasSeen(log[i].sender, log[i].subject)'
  <2>1. ASSUME NEW i \in DOMAIN log, log[i].type = "Evaluation"
        PROVE  HasSeen(log[i].sender, log[i].subject)'
    <3>1. \E b \in Agents : \E x : b = log[i].sender /\ x = log[i].subject
      BY <1>3 DEF LogInv, FromAgent
    <3>2. ASSUME NEW b \in Agents, NEW x, b = log[i].sender, x = log[i].subject
          PROVE  HasSeen(b, x)'
      <4>1. HasSeen(b, x)
        BY <2>1, <3>2 DEF IInv
      <4> QED BY <1>18, <1>26, <4>1
    <3> QED BY <1>11, <3>1, <3>2
  <2> QED BY <1>11, <2>1
<1>28. LogInv'
  BY <1>3, <1>11 DEF LogInv, Sequence, FromAgent, Proposes
<1>29. bound' = None <=> status'[Initiator] \in {"starting", "absent"}
  <2>1. a = Initiator => status'[Initiator] \in {"running", "done", "sending"} /\ bound # None
    BY <1>11, <1>16 DEF IInv, Looping
  <2>2. a # Initiator => status'[Initiator] = status[Initiator]
    BY <1>11, AgentsAssumption DEF IInv
  <2> QED BY <1>11, <2>1, <2>2 DEF IInv
<1>30. \A i \in DOMAIN log' : log'[i].type = "Commitment" =>
            \E m \in 1..i - 1 : \E q \in DOMAIN wiring'.opinion : Carried(m, q)'
  BY <1>11, <1>23 DEF IInv
<1> QED BY <1>3, <1>11, <1>16, <1>17, <1>25, <1>26, <1>27, <1>28, <1>29, <1>30 DEF IInv

\* A history that grows by somebody's envelope leaves who follows it where they are.
LEMMA OthersFollow ==
    ASSUME IInv, NEW e, FromAgent(e), Accepts(log, e), log' = Append(log, e), UNCHANGED <<wiring, proj>>,
           e.type = "Evaluation" => HasSeen(e.sender, e.subject) /\ \A j \in DOMAIN log : log[j].id # e.id
    PROVE  /\ LogInv' /\ \A a \in Agents : Follows(a)'
           /\ \A a \in Agents : \A x : HasSeen(a, x)' <=> HasSeen(a, x)
           /\ \A a \in Agents : \A n \in 1..Len(proj[a].transcript) : \A p : Carried(n, p) => Carried(n, p)'
           /\ \A i \in DOMAIN log' : log'[i].type = "Evaluation" => HasSeen(log[i].sender, log[i].subject)'
           /\ \A i \in DOMAIN log : log[i].type = "Commitment" =>
                 \E n \in 1..i - 1 : \E p \in DOMAIN wiring.opinion : Carried(n, p)'
<1>1. LogInv /\ Sequence(log)
  BY DEF IInv, LogInv
<1>2. LogInv'
  BY <1>1, LogStep
<1>3. /\ Len(log) \in Nat /\ DOMAIN log = 1..Len(log) /\ DOMAIN log' = 1..Len(log) + 1
      /\ log'[Len(log) + 1] = e /\ \A i \in DOMAIN log : log'[i] = log[i]
  BY <1>1, Grows
<1>4. \A t : Prefix(t) => Prefix(t)'
  BY <1>1, Grows
<1>5. \A n \in 0..Len(log) : \A p : Carried(n, p) => Carried(n, p)'
  BY <1>1, Grows
<1>6. ASSUME NEW a \in Agents PROVE Follows(a)' /\ Len(proj[a].transcript) \in 0..Len(log)
  <2>1. PICK t, v, seen : t = proj[a].transcript /\ v = proj[a].view /\ seen = proj[a].seen
    OBVIOUS
  <2>2. Prefix(t) /\ Tallied(v, t) /\ \A x \in seen : \E j \in DOMAIN t : log[j].id = x
    BY <2>1 DEF IInv, Follows
  <2>3. Len(t) \in 0..Len(log) /\ DOMAIN t \subseteq DOMAIN log
    BY <1>3, <2>2, SequenceDomain DEF Prefix
  <2>4. Prefix(t)' /\ Tallied(v, t)' /\ \A x \in seen : \E j \in DOMAIN t : log'[j].id = x
    <3>1. \A x \in seen : \E j \in DOMAIN t : log'[j].id = x
      BY <1>3, <2>2, <2>3
    <3>2. Tallied(v, t)'
      BY <2>2 DEF Tallied, VotesIn
    <3> QED BY <1>4, <2>2, <3>1, <3>2
  <2>5. proj'[a].transcript = t /\ proj'[a].view = v /\ proj'[a].seen = seen
    BY <2>1
  <2>6. Follows(a)'
    BY <2>4, <2>5 DEF Follows
  <2> QED BY <2>1, <2>3, <2>6
<1>7. \A a \in Agents : \A x : HasSeen(a, x)' <=> HasSeen(a, x)
  BY DEF HasSeen, Proposes
<1>8. ASSUME NEW a \in Agents, NEW n \in 1..Len(proj[a].transcript), NEW p, Carried(n, p)
      PROVE  Carried(n, p)'
  <2>1. n \in 0..Len(log)
    BY <1>3, <1>6
  <2> QED BY <1>5, <1>8, <2>1
<1>9. ASSUME NEW i \in DOMAIN log', log'[i].type = "Evaluation"
      PROVE  HasSeen(log[i].sender, log[i].subject)'
  <2>1. PICK b, x : b = log'[i].sender /\ x = log'[i].subject
    OBVIOUS
  <2>2. b \in Agents
    BY <1>2, <2>1 DEF LogInv, FromAgent
  <2>3. HasSeen(b, x)
    <3>1. CASE i \in DOMAIN log
      BY <1>3, <1>9, <2>1, <3>1 DEF IInv
    <3>2. CASE i = Len(log) + 1
      BY <1>3, <1>9, <2>1, <3>2
    <3> QED BY <1>3, <3>1, <3>2
  <2>4. HasSeen(b, x)'
    BY <1>7, <2>2, <2>3
  <2> QED BY <2>1, <2>4
<1>10. ASSUME NEW i \in DOMAIN log, log[i].type = "Commitment"
       PROVE  \E n \in 1..i - 1 : \E p \in DOMAIN wiring.opinion : Carried(n, p)'
  <2>1. PICK n \in 1..i - 1 : \E p \in DOMAIN wiring.opinion : Carried(n, p)
    BY <1>10 DEF IInv
  <2>2. n \in 0..Len(log)
    BY <1>3, <2>1
  <2> QED BY <1>5, <2>1, <2>2
<1> QED BY <1>2, <1>6, <1>7, <1>8, <1>9, <1>10

LEMMA AnswerStep ==
    ASSUME IInv, NEW a \in Agents, Answer(a)
    PROVE  IInv'
<1>1. PICK e : e = out[a]
  OBVIOUS
<1>2. status[a] = "sending" /\ e # Nothing /\ FromAgent(e) /\ e.sender = a
  BY <1>1 DEF Answer, IInv, Sending
<1>3. UNCHANGED <<wiring, bound, proj>> /\ out' = [out EXCEPT ![a] = Nothing]
  BY DEF Answer
<1>4. PICK mark \in {"running", "done", "failed"} : status' = [status EXCEPT ![a] = mark]
  BY DEF Answer, Looping
<1>5. /\ DOMAIN proj' = Agents /\ DOMAIN status' = Agents /\ DOMAIN out' = Agents
      /\ status'[a] = mark /\ out'[a] = Nothing
      /\ \A b \in Agents : b # a => status'[b] = status[b] /\ out'[b] = out[b]
  BY <1>3, <1>4 DEF IInv
<1>6. Nothing.type = "none" /\ Nothing' = Nothing
  BY DEF Nothing, None
<1>7. Sending(a)'
  BY <1>4, <1>5, <1>6 DEF Sending
<1>8. bound' = None <=> status'[Initiator] \in {"starting", "absent"}
  BY <1>2, <1>3, <1>4, <1>5, AgentsAssumption DEF IInv
<1>9. CASE UNCHANGED log
  <2>1. \A b \in Agents : b # a => Follows(b)' /\ Sending(b)'
    BY <1>3, <1>5, <1>9, Stays DEF IInv
  <2>0. Follows(a) /\ LogInv
    BY DEF IInv
  <2>2. Follows(a)'
    BY <1>3, <1>9, <2>0 DEF Follows, Prefix, Tallied, VotesIn, Sequence
  <2>3. LogInv'
    BY <1>3, <1>9, <2>0 DEF LogInv, Sequence, FromAgent, Proposes
  <2>4. \A b, x : HasSeen(b, x)' <=> HasSeen(b, x)
    BY <1>3 DEF HasSeen, Proposes
  <2>5. \A i \in DOMAIN log' : log'[i].type = "Evaluation" => HasSeen(log[i].sender, log[i].subject)'
    <3>1. ASSUME NEW i \in DOMAIN log, log[i].type = "Evaluation" PROVE HasSeen(log[i].sender, log[i].subject)'
      <4>1. PICK b, x : b = log[i].sender /\ x = log[i].subject /\ HasSeen(b, x)
        BY <3>1 DEF IInv
      <4> QED BY <1>9, <2>4, <4>1
    <3> QED BY <1>9, <3>1
  <2>6. \A m, q : Carried(m, q)' <=> Carried(m, q)
    BY <1>3, <1>9 DEF Carried, VotesUpTo
  <2>7. \A i \in DOMAIN log' : log'[i].type = "Commitment" =>
            \E m \in 1..i - 1 : \E q \in DOMAIN wiring'.opinion : Carried(m, q)'
    BY <1>3, <1>9, <2>6 DEF IInv
  <2> QED BY <1>3, <1>5, <1>7, <1>8, <2>1, <2>2, <2>3, <2>5, <2>7 DEF IInv
<1>10. CASE Takes(e) /\ log' = Append(log, e)
  <2>1. Accepts(log, e)
    BY <1>10 DEF Takes
  <2>2. e.type = "Evaluation" => HasSeen(e.sender, e.subject) /\ \A j \in DOMAIN log : log[j].id # e.id
    BY <1>1, <1>2 DEF IInv, Sending
  <2>3. /\ LogInv' /\ \A b \in Agents : Follows(b)'
        /\ \A b \in Agents : \A x : HasSeen(b, x)' <=> HasSeen(b, x)
        /\ \A b \in Agents : \A n \in 1..Len(proj[b].transcript) : \A p : Carried(n, p) => Carried(n, p)'
        /\ \A i \in DOMAIN log' : log'[i].type = "Evaluation" => HasSeen(log[i].sender, log[i].subject)'
        /\ \A i \in DOMAIN log : log[i].type = "Commitment" =>
              \E n \in 1..i - 1 : \E p \in DOMAIN wiring.opinion : Carried(n, p)'
    BY <1>2, <1>3, <1>10, <2>1, <2>2, OthersFollow
  <2>4. /\ Len(log) \in Nat /\ DOMAIN log = 1..Len(log) /\ DOMAIN log' = 1..Len(log) + 1
        /\ log'[Len(log) + 1] = e /\ \A i \in DOMAIN log : log'[i] = log[i]
    BY <1>3, <1>10, Grows DEF IInv, LogInv
  <2>5. ASSUME NEW b \in Agents, b # a PROVE Sending(b)'
    <3>1. PICK f : f = out[b] /\ f = out'[b]
      BY <1>5, <2>5
    <3>2. f # Nothing => FromAgent(f) /\ f.sender = b
      BY <3>1 DEF IInv, Sending
    <3>3. ASSUME f.type = "Evaluation" PROVE HasSeen(b, f.subject)' /\ \A j \in DOMAIN log' : log'[j].id # f.id
      <4>1. HasSeen(b, f.subject) /\ \A j \in DOMAIN log : log[j].id # f.id
        BY <3>1, <3>3 DEF IInv, Sending
      <4>2. e.id # f.id
        BY <1>2, <1>6, <2>5, <3>2, <3>3 DEF FromAgent
      <4> QED BY <2>3, <2>4, <4>1, <4>2
    <3>4. ASSUME f.type = "Commitment"
          PROVE  \E n \in 1..Len(proj'[b].transcript) : \E p \in DOMAIN wiring'.opinion : Carried(n, p)'
      BY <1>3, <2>3, <3>1, <3>4 DEF IInv, Sending
    <3>5. status'[b] = status[b] /\ status[b] \in {"absent", "starting", "running", "sending", "failed", "done"}
          /\ (f # Nothing <=> status[b] = "sending")
      BY <1>5, <2>5, <3>1 DEF IInv, Sending
    <3>6. FromAgent(f) => FromAgent(out[b])'
      BY <1>3, <3>1 DEF FromAgent
    <3>7. out'[b] = f
      BY <3>1
    <3>8. out'[b].type = "Evaluation" => HasSeen(b, out[b].subject)' /\ \A j \in DOMAIN log' : log'[j].id # out'[b].id
      BY <3>3, <3>7
    <3> QED BY <1>6, <3>2, <3>4, <3>5, <3>6, <3>7, <3>8 DEF Sending
  <2>6. \A i \in DOMAIN log' : log'[i].type = "Commitment" =>
            \E m \in 1..i - 1 : \E q \in DOMAIN wiring'.opinion : Carried(m, q)'
    <3>1. ASSUME e.type = "Commitment"
          PROVE  \E m \in 1..Len(log) : \E q \in DOMAIN wiring'.opinion : Carried(m, q)'
      <4>1. PICK m \in 1..Len(proj[a].transcript) : \E q \in DOMAIN wiring.opinion : Carried(m, q)
        BY <1>1, <3>1 DEF IInv, Sending
      <4>2. Len(proj[a].transcript) <= Len(log) /\ Len(proj[a].transcript) \in Nat
        BY SequenceDomain DEF IInv, Follows, Prefix
      <4>3. m \in 1..Len(log)
        BY <2>4, <4>1, <4>2
      <4> QED BY <1>3, <2>3, <4>1, <4>3
    <3> QED BY <1>3, <2>3, <2>4, <3>1
  <2> QED BY <1>3, <1>5, <1>7, <1>8, <2>3, <2>5, <2>6 DEF IInv
<1> QED BY <1>1, <1>9, <1>10 DEF Answer

LEMMA AsideStep ==
    ASSUME IInv, NEW a \in Agents, NEW p \in DOMAIN wiring.opinion, ProposeAside(a, p)
    PROVE  IInv'
<1>1. PICK e : e = Propose(a, p)
  OBVIOUS
<1>2. FromAgent(e) /\ e.type = "Proposal"
  BY <1>1, Built DEF Proposes
<1>3. Accepts(log, e) /\ log' = Append(log, e) /\ UNCHANGED <<wiring, bound, proj, status, out>>
  BY <1>1 DEF ProposeAside, Takes
<1>4. /\ LogInv' /\ \A b \in Agents : Follows(b)'
      /\ \A b \in Agents : \A x : HasSeen(b, x)' <=> HasSeen(b, x)
      /\ \A b \in Agents : \A n \in 1..Len(proj[b].transcript) : \A q : Carried(n, q) => Carried(n, q)'
      /\ \A i \in DOMAIN log' : log'[i].type = "Evaluation" => HasSeen(log[i].sender, log[i].subject)'
      /\ \A i \in DOMAIN log : log[i].type = "Commitment" =>
            \E n \in 1..i - 1 : \E q \in DOMAIN wiring.opinion : Carried(n, q)'
  BY <1>2, <1>3, OthersFollow
<1>5. /\ Len(log) \in Nat /\ DOMAIN log = 1..Len(log) /\ DOMAIN log' = 1..Len(log) + 1
      /\ log'[Len(log) + 1] = e /\ \A i \in DOMAIN log : log'[i] = log[i]
  BY <1>3, Grows DEF IInv, LogInv
<1>6. ASSUME NEW b \in Agents PROVE Sending(b)'
  <2>1. PICK f : f = out[b] /\ f = out'[b]
    BY <1>3
  <2>2. f # Nothing => FromAgent(f) /\ f.sender = b
    BY <2>1 DEF IInv, Sending
  <2>3. ASSUME f.type = "Evaluation" PROVE HasSeen(b, f.subject)' /\ \A j \in DOMAIN log' : log'[j].id # f.id
    <3>1. HasSeen(b, f.subject) /\ \A j \in DOMAIN log : log[j].id # f.id
      BY <2>1, <2>3 DEF IInv, Sending
    <3>2. f # Nothing
      BY <2>3 DEF Nothing, None
    <3>3. e.id # f.id
      BY <1>2, <2>2, <2>3, <3>2 DEF FromAgent
    <3> QED BY <1>4, <1>5, <3>1, <3>3
  <2>4. ASSUME f.type = "Commitment"
        PROVE  \E n \in 1..Len(proj'[b].transcript) : \E q \in DOMAIN wiring'.opinion : Carried(n, q)'
    BY <1>3, <1>4, <2>1, <2>4 DEF IInv, Sending
  <2>5. status'[b] = status[b] /\ status[b] \in {"absent", "starting", "running", "sending", "failed", "done"}
        /\ (f # Nothing <=> status[b] = "sending")
    BY <1>3, <2>1 DEF IInv, Sending
  <2>6. FromAgent(f) => FromAgent(out[b])'
    BY <1>3, <2>1 DEF FromAgent
  <2>7. out'[b] = f /\ Nothing' = Nothing
    BY <2>1 DEF Nothing
  <2>8. out'[b].type = "Evaluation" => HasSeen(b, out[b].subject)' /\ \A j \in DOMAIN log' : log'[j].id # out'[b].id
    BY <2>3, <2>7
  <2> QED BY <2>2, <2>4, <2>5, <2>6, <2>7, <2>8 DEF Sending
<1>7. \A i \in DOMAIN log' : log'[i].type = "Commitment" =>
            \E m \in 1..i - 1 : \E q \in DOMAIN wiring'.opinion : Carried(m, q)'
  BY <1>2, <1>3, <1>4, <1>5
<1> QED BY <1>3, <1>4, <1>6, <1>7 DEF IInv

\* What neither reads nor writes the history leaves all but the agents' handlers alone.
LEMMA Unmoved ==
    ASSUME IInv, UNCHANGED <<wiring, log, proj>>
    PROVE  /\ LogInv' /\ \A a \in Agents : Follows(a)'
           /\ \A a, x : HasSeen(a, x)' <=> HasSeen(a, x)
           /\ \A m, q : Carried(m, q)' <=> Carried(m, q)
           /\ \A i \in DOMAIN log' : log'[i].type = "Evaluation" => HasSeen(log[i].sender, log[i].subject)'
<1>1. LogInv'
  <2>1. LogInv
    BY DEF IInv
  <2> QED BY <2>1 DEF LogInv, Sequence, FromAgent, Proposes
<1>2. ASSUME NEW a \in Agents PROVE Follows(a)'
  <2>1. Follows(a)
    BY DEF IInv
  <2> QED BY <2>1 DEF Follows, Prefix, Tallied, VotesIn, Sequence
<1>3. \A a, x : HasSeen(a, x)' <=> HasSeen(a, x)
  BY DEF HasSeen, Proposes
<1>4. \A m, q : Carried(m, q)' <=> Carried(m, q)
  BY DEF Carried, VotesUpTo
<1>5. ASSUME NEW i \in DOMAIN log, log[i].type = "Evaluation" PROVE HasSeen(log[i].sender, log[i].subject)'
  <2>1. PICK b, x : b = log[i].sender /\ x = log[i].subject /\ HasSeen(b, x)
    BY <1>5 DEF IInv
  <2> QED BY <1>3, <2>1
<1> QED BY <1>1, <1>2, <1>3, <1>4, <1>5

LEMMA OpenStep ==
    ASSUME IInv, Open
    PROVE  IInv'
<1>1. PICK config : config = InitiatorConfig(wiring.boot)
  OBVIOUS
<1>2. /\ status[Initiator] = "starting" /\ bound' = StartSession(config) /\ UNCHANGED <<wiring, log, proj>>
      /\ \/ /\ config.kickoff = None
            /\ status' = [status EXCEPT ![Initiator] = "running"] /\ UNCHANGED out
         \/ /\ config.kickoff # None
            /\ out' = [out EXCEPT ![Initiator] = Propose(Initiator, config.kickoff)]
            /\ status' = [status EXCEPT ![Initiator] = "sending"]
  BY <1>1 DEF Open
<1>3. bound' # None
  BY <1>2 DEF StartSession, DefaultPolicy, None
<1>4. Initiator \in Agents /\ config.kickoff \in {None} \cup DOMAIN wiring.opinion
  BY <1>1, AgentsAssumption DEF InitiatorConfig, IInv
<1>5. /\ DOMAIN proj' = Agents /\ DOMAIN status' = Agents /\ DOMAIN out' = Agents
      /\ \A b \in Agents : b # Initiator => status'[b] = status[b] /\ out'[b] = out[b]
      /\ status'[Initiator] \in {"running", "sending"}
  BY <1>2, <1>4 DEF IInv
<1>6. Nothing.type = "none" /\ Nothing' = Nothing /\ out[Initiator] = Nothing
  BY <1>2, <1>4 DEF Nothing, None, IInv, Sending
<1>7. Sending(Initiator)'
  <2>1. CASE status' = [status EXCEPT ![Initiator] = "running"] /\ UNCHANGED out
    BY <1>4, <1>5, <1>6, <2>1 DEF Sending, IInv
  <2>2. CASE /\ config.kickoff # None
             /\ out' = [out EXCEPT ![Initiator] = Propose(Initiator, config.kickoff)]
             /\ status' = [status EXCEPT ![Initiator] = "sending"]
    <3>1. PICK e : e = Propose(Initiator, config.kickoff)
      OBVIOUS
    <3>2. FromAgent(e) /\ e.sender = Initiator /\ e.type = "Proposal"
      BY <1>4, <2>2, <3>1, Built DEF Proposes
    <3>3. e # Nothing /\ out'[Initiator] = e /\ status'[Initiator] = "sending"
      BY <1>4, <2>2, <3>1, <3>2, NothingIs DEF IInv
    <3>4. FromAgent(out[Initiator])'
      BY <1>2, <3>2, <3>3 DEF FromAgent
    <3> QED BY <1>6, <3>2, <3>3, <3>4 DEF Sending
  <2> QED BY <1>2, <2>1, <2>2
<1>8. ASSUME NEW b \in Agents, b # Initiator PROVE Sending(b)'
  BY <1>2, <1>5, <1>8, Stays DEF IInv
<1>9. \A i \in DOMAIN log' : log'[i].type = "Commitment" =>
            \E m \in 1..i - 1 : \E q \in DOMAIN wiring'.opinion : Carried(m, q)'
  BY <1>2, Unmoved DEF IInv
<1> QED BY <1>2, <1>3, <1>5, <1>7, <1>8, <1>9, Unmoved DEF IInv

LEMMA StutterStep ==
    ASSUME IInv, UNCHANGED vars
    PROVE  IInv'
<1>1. UNCHANGED <<wiring, log, bound, proj, status, out>>
  BY DEF vars
<1>2. \A a \in Agents : Sending(a)'
  BY <1>1, Stays DEF IInv
<1>3. \A i \in DOMAIN log' : log'[i].type = "Commitment" =>
            \E m \in 1..i - 1 : \E q \in DOMAIN wiring'.opinion : Carried(m, q)'
  BY <1>1, Unmoved DEF IInv
<1> QED BY <1>1, <1>2, <1>3, Unmoved DEF IInv

LEMMA NextIInv == IInv /\ [Next]_vars => IInv'
<1> SUFFICES ASSUME IInv, [Next]_vars PROVE IInv'
  OBVIOUS
<1>1. CASE Open
  BY <1>1, OpenStep
<1>2. CASE \E a \in Agents : Deliver(a)
  BY <1>2, DeliverStep
<1>3. CASE \E a \in Agents : Answer(a)
  BY <1>3, AnswerStep
<1>4. CASE \E a \in Agents : \E p \in DOMAIN wiring.opinion : ProposeAside(a, p)
  BY <1>4, AsideStep
<1>5. CASE UNCHANGED vars
  BY <1>5, StutterStep
<1> QED BY <1>1, <1>2, <1>3, <1>4, <1>5 DEF Next

-----------------------------------------------------------------------------
\* However far behind each agent is, its projection is a prefix of accepted history and
\* its tally that prefix's (strategies.py reads nothing else).
THEOREM Invariance == Spec => []IInv
BY InitIInv, NextIInv, PTL DEF Spec

\* Every agent has applied a prefix of the history, nothing out of order and nothing
\* twice, and sends only envelopes of its own that are well-formed (ParticipantActions).
THEOREM TypeCorrect == Spec => []TypeOK
<1>1. ASSUME IInv PROVE TypeOK
  <2>0. \A a \in Agents : Follows(a) /\ Sending(a)
    BY <1>1 DEF IInv
  <2>1. ASSUME NEW a \in Agents
        PROVE  proj[a].transcript = SubSeq(log, 1, Len(proj[a].transcript))
    <3>1. PICK t : t = proj[a].transcript
      OBVIOUS
    <3>2. Prefix(t)
      BY <2>0, <3>1 DEF Follows
    <3>3. Len(t) \in Nat /\ DOMAIN t = 1..Len(t) /\ t = [j \in 1..Len(t) |-> t[j]]
      BY <3>2 DEF Prefix, Sequence
    <3>4. SubSeq(log, 1, Len(t)) = [j \in 1..Len(t) |-> log[j]]
      BY <3>3
    <3> QED BY <3>1, <3>2, <3>3, <3>4 DEF Prefix
  <2>2. ASSUME NEW a \in Agents
        PROVE  /\ status[a] \in {"absent", "starting", "running", "sending", "failed", "done"}
               /\ out[a] # Nothing <=> status[a] = "sending"
               /\ out[a] # Nothing => out[a].sender = a /\ WellFormed(out[a])
    BY <2>0 DEF Sending, FromAgent
  <2>3. wiring \in Wirings /\ (bound = None <=> status[Initiator] \in {"starting", "absent"})
    BY <1>1 DEF IInv
  <2> QED BY <2>1, <2>2, <2>3 DEF TypeOK
<1> QED BY <1>1, Invariance, PTL

\* A commitment of majority_committer states the outcome its action means, and rests on a
\* moment of the session's history at which one proposal had quorum_size approvals and a
\* majority of the votes that count, whatever has been proposed and voted since.
THEOREM CommitmentsAreJustified == Spec => []CommitIsJustified
<1>1. ASSUME IInv PROVE CommitIsJustified
  <2>1. ASSUME NEW i \in DOMAIN log, log[i].type = "Commitment"
        PROVE  log[i].flag = (Lower(log[i].value) \notin Negative)
    <3>1. FromAgent(log[i])
      BY <1>1 DEF IInv, LogInv
    <3> QED BY <2>1, <3>1 DEF FromAgent, InferOutcomePositive
  <2>2. \A i \in DOMAIN log : log[i].type = "Commitment" =>
            \E n \in 1..i - 1 : \E p \in DOMAIN wiring.opinion : Carried(n, p)
    BY <1>1 DEF IInv
  <2> QED BY <2>1, <2>2 DEF CommitIsJustified
<1> QED BY <1>1, Invariance, PTL

=============================================================================
