-------------------------- MODULE ModeAdviceProofs --------------------------
(***************************************************************************)
(* Theorems about what a projection tells its coordinator in an obedient   *)
(* session, one whose feed carries what a conforming runtime accepts.      *)
(*                                                                         *)
(* The argument.  ModeSessionsProofs' invariant says what any feed leaves; *)
(* AdviceInv adds what only an obedient one does, mode by mode.  In        *)
(* Decision the phase is the one the history has, and every vote counted   *)
(* is in it.  In Quorum those who cast a ballot are on the roster, a list  *)
(* without duplicates, so no more vote than there are participants, and    *)
(* the session's one request asks for no more approvals than that: a       *)
(* ballot adds at most one approval and takes exactly one open vote, which *)
(* is why a verdict stands.  In Handoff offers come one after the other,   *)
(* under new ids, so that at most one is not declined, and the phase is    *)
(* that offer's.  In a multi-round session the contributions held are the  *)
(* latest of their senders, the round counts the changes, and all of them  *)
(* agree exactly when the session has converged.  In Task, as long as      *)
(* payloads name the session's task and their own senders, who declined    *)
(* and who holds the slot are those of the history.                        *)
(*                                                                         *)
(* Late joiners.  A projection fed a suffix of the history is what Replay, *)
(* a recursive function, makes of it.  One more envelope is one more       *)
(* Apply; the induction behind that is over a set of numbers instead of a  *)
(* predicate, and rests on the pigeonhole fact about finite sets           *)
(* (Induction).  Such a projection knows no contribution that is not its   *)
(* sender's latest, so what it calls converged the session has converged   *)
(* on.                                                                     *)
(*                                                                         *)
(* Helpers.  What a builder refuses follows from its checks alone once the *)
(* view is what the history says.  What a call shows needs SaidInv too:    *)
(* an obedient history is made of peers' messages and of calls'.  Mode by  *)
(* mode, the envelope a method builds is one the runtime accepted, so the  *)
(* view it meets has the room, the proposal, the open ballot or the free   *)
(* slot that its handler looks for, and the handler writes it down.        *)
(***************************************************************************)
EXTENDS ModeSessionsProofs

\* Rounding up.
LEMMA RoundsUp ==
    ASSUME NEW a \in Int, NEW b \in Nat \ {0}, NEW q, q = Quorum!CeilDiv(a, b)
    PROVE  q \in Int /\ q * b >= a /\ (q - 1) * b < a
<1>1. PICK d : d = (-a) \div b
  OBVIOUS
<1>2. d \in Int /\ b * d <= -a /\ -a < b * d + b
  BY <1>1
<1>3. q = -d
  BY <1>1 DEF Quorum!CeilDiv
<1> QED BY <1>2, <1>3

-----------------------------------------------------------------------------
\* Quorum.  The roster is a list without duplicates; who cast a ballot is on it, and the
\* session has one request, which asks for no more approvals than there are participants.
Eligible == Len(roster)
RosterInv ==
    /\ Len(roster) \in Nat /\ IsFiniteSet(Quorum!Participants)
    /\ Cardinality(Quorum!Participants) = Len(roster)
BallotInv(t, v) ==
    /\ \A i \in DOMAIN t : t[i].type = "ApprovalRequest" => i = 1
    /\ \A r \in DOMAIN v.requests : v.requests[r] \in 1..Eligible
    /\ \A k \in DOMAIN v.ballots : k[2] \in Quorum!Participants
    /\ IsFiniteSet(DOMAIN v.ballots)

\* The bar a policy puts on n participants and a request for q approvals.
LEMMA BarOf ==
    ASSUME NEW p \in Policies \cup {Unbound}, NEW n \in Nat, NEW q \in 1..n,
           NEW bar, bar = Quorum!EffectiveQuorumThreshold(p, n, q)
    PROVE  /\ bar = Quorum!Unsatisfiable \/ bar \in Nat \ {0}
           /\ p.type = "percentage" /\ p.num > 0 /\ n > 0 =>
                /\ bar \in 1..CountMax
                /\ bar = CountMax \/ bar * 100 * p.den >= p.num * n
                /\ bar > 1 => (bar - 1) * 100 * p.den < p.num * n
<1>1. p.num \in Int /\ p.den \in Nat \ {0}
  BY PolicyAssumption DEF Unbound
<1>2. ASSUME NEW k \in Int
      PROVE  Quorum!AtLeastOne(k) \in 1..CountMax
  BY PolicyAssumption DEF Quorum!AtLeastOne
<1>3. CASE p.type = "none" \/ p.num <= 0
  <2>1. bar = q
    BY <1>1, <1>3 DEF Quorum!EffectiveQuorumThreshold
  <2> QED BY <1>1, <1>3, <2>1
<1>4. CASE p.type = "percentage" /\ p.num > 0 /\ n = 0
  BY <1>1, <1>4
<1>5. CASE p.type = "percentage" /\ p.num > 0 /\ n > 0
  <2>1. PICK c : c = Quorum!CeilDiv(p.num * n, 100 * p.den)
    OBVIOUS
  <2>2. bar = Quorum!AtLeastOne(c)
    BY <1>1, <1>5, <2>1 DEF Quorum!EffectiveQuorumThreshold
  <2>3. PICK a : a = p.num * n
    OBVIOUS
  <2>4. PICK b : b = 100 * p.den
    OBVIOUS
  <2>5. a \in Int /\ a > 0 /\ b \in Nat \ {0}
    BY <1>1, <1>5, <2>3, <2>4
  <2>6. c \in Int /\ c * b >= a /\ (c - 1) * b < a
    BY <2>1, <2>3, <2>4, <2>5, RoundsUp
  <2>7. c >= 1
    BY <2>5, <2>6
  <2>8. bar \in 1..CountMax /\ (bar = CountMax \/ bar = c) /\ bar <= c
    BY <2>2, <2>6, <2>7, PolicyAssumption DEF Quorum!AtLeastOne
  <2>9. bar = CountMax \/ bar * b >= a
    BY <2>6, <2>8
  <2>10. (bar - 1) * b < a
    <3>1. (bar - 1) * b <= (c - 1) * b
      BY <2>5, <2>6, <2>8
    <3> QED BY <2>5, <2>6, <2>8, <3>1
  <2>11. bar * 100 * p.den = bar * b /\ (bar - 1) * 100 * p.den = (bar - 1) * b
    BY <1>1, <2>4, <2>8
  <2> QED BY <2>3, <2>8, <2>9, <2>10, <2>11
<1>6. CASE p.type \in {"n_of_m", "count"} /\ p.num > 0
  <2>1. PICK c : c = Quorum!CeilDiv(p.num, p.den)
    OBVIOUS
  <2>2. bar = Quorum!AtLeastOne(c)
    BY <1>1, <1>6, <2>1 DEF Quorum!EffectiveQuorumThreshold
  <2>3. c \in Int
    BY <1>1, <2>1, RoundsUp
  <2> QED BY <1>2, <1>6, <2>2, <2>3
<1>7. CASE p.type \notin {"none", "percentage", "n_of_m", "count"} /\ p.num > 0
  <2>1. /\ ~(p.type = "none" \/ p.num <= 0) /\ ~(p.type = "percentage" /\ p.num > 0)
        /\ ~(p.type \in {"n_of_m", "count"} /\ p.num > 0)
    BY <1>1, <1>7
  <2>2. bar = Quorum!Unsatisfiable
    BY <2>1, Zenon DEF Quorum!EffectiveQuorumThreshold
  <2> QED BY <1>7, <2>2
<1> QED BY <1>1, <1>3, <1>4, <1>5, <1>6, <1>7

Approvals(v, r) == {k \in DOMAIN v.ballots : k[1] = r /\ v.ballots[k] = "approve"}

\* A step moves the counts of a request by one ballot or not at all.
Moves(v, w, r) ==
    \/ /\ Cardinality(Approvals(w, r)) = Cardinality(Approvals(v, r))
       /\ Cardinality(Quorum!VotedSenders(w, r)) = Cardinality(Quorum!VotedSenders(v, r))
    \/ /\ Cardinality(Approvals(w, r)) \in Cardinality(Approvals(v, r)) .. Cardinality(Approvals(v, r)) + 1
       /\ Cardinality(Quorum!VotedSenders(w, r)) = Cardinality(Quorum!VotedSenders(v, r)) + 1

\* What a new ballot does to the counts of a request.
LEMMA BallotCounts ==
    ASSUME NEW v, IsFiniteSet(DOMAIN v.ballots), NEW k, k = <<k[1], k[2]>>, k \notin DOMAIN v.ballots,
           \A x \in DOMAIN v.ballots : x = <<x[1], x[2]>>,
           NEW c, NEW w, w.ballots = Quorum!Put(v.ballots, k, c),
           NEW r, IsFiniteSet(Quorum!VotedSenders(v, r))
    PROVE  /\ IsFiniteSet(DOMAIN w.ballots)
           /\ Moves(v, w, r)
<1>1. /\ DOMAIN w.ballots = DOMAIN v.ballots \cup {k} /\ w.ballots[k] = c
      /\ \A x \in DOMAIN v.ballots : w.ballots[x] = v.ballots[x]
  BY DEF Quorum!Put
<1>2. /\ IsFiniteSet(DOMAIN w.ballots) /\ IsFiniteSet(Approvals(v, r))
      /\ Cardinality(Approvals(v, r)) \in Nat
  BY <1>1, FS_AddElement, FS_Subset, FS_CardinalityType DEF Approvals
<1>3. CASE k[1] # r
  <2>1. Approvals(w, r) = Approvals(v, r)
    BY <1>1, <1>3 DEF Approvals
  <2>2. Quorum!VotedSenders(w, r) = Quorum!VotedSenders(v, r)
    BY <1>1, <1>3 DEF Quorum!VotedSenders
  <2> QED BY <1>2, <2>1, <2>2 DEF Moves
<1>4. CASE k[1] = r
  <2>1. Quorum!VotedSenders(w, r) = Quorum!VotedSenders(v, r) \cup {k[2]}
    BY <1>1, <1>4 DEF Quorum!VotedSenders
  <2>2. k[2] \notin Quorum!VotedSenders(v, r)
    BY <1>4 DEF Quorum!VotedSenders
  <2>3. Cardinality(Quorum!VotedSenders(w, r)) = Cardinality(Quorum!VotedSenders(v, r)) + 1
    BY <2>1, <2>2, OneMore
  <2>4. CASE c = "approve"
    <3>1. Approvals(w, r) = Approvals(v, r) \cup {k} /\ k \notin Approvals(v, r)
      BY <1>1, <1>4, <2>4 DEF Approvals
    <3>2. Cardinality(Approvals(w, r)) = Cardinality(Approvals(v, r)) + 1
      BY <1>2, <3>1, OneMore
    <3> QED BY <1>2, <2>3, <3>2 DEF Moves
  <2>5. CASE c # "approve"
    <3>1. Approvals(w, r) = Approvals(v, r)
      BY <1>1, <1>4, <2>5 DEF Approvals
    <3> QED BY <1>2, <2>3, <3>1 DEF Moves
  <2> QED BY <2>4, <2>5
<1> QED BY <1>2, <1>3, <1>4

\* What a ballot the runtime accepted keeps, and how far it moves the counts of a request.
LEMMA BallotKeeps ==
    ASSUME NEW t, NEW v, QuorumInv(t, v), BallotInv(t, v), RosterInv, NEW e, Quorum!Conforming(t, e), Sequence(t),
           NEW u, Grown(t, e, u), NEW w, w = Quorum!Effect(v, e)
    PROVE  /\ BallotInv(u, w)
           /\ \A r \in DOMAIN v.requests :
                /\ r \in DOMAIN w.requests /\ w.requests[r] = v.requests[r]
                /\ Moves(v, w, r)
<1> PICK k : k = <<e.subject, e.sender>>
  OBVIOUS
<1>1. /\ DOMAIN v = DOMAIN Quorum!QuorumInit
      /\ DOMAIN v.requests = {t[i].subject : i \in {j \in DOMAIN t : t[j].type = "ApprovalRequest"}}
      /\ \A x \in DOMAIN v.ballots : x = <<x[1], x[2]>>
  BY DEF QuorumInv
<1>2. /\ \A i \in DOMAIN t : t[i].type = "ApprovalRequest" => i = 1
      /\ \A r \in DOMAIN v.requests : v.requests[r] \in 1..Eligible
      /\ \A x \in DOMAIN v.ballots : x[2] \in Quorum!Participants
      /\ IsFiniteSet(DOMAIN v.ballots)
  BY DEF BallotInv
<1>3. /\ DOMAIN t = 1..Len(t) /\ Len(t) \in Nat /\ DOMAIN u = 1..Len(t) + 1 /\ u[Len(t) + 1] = e
      /\ \A i \in DOMAIN t : u[i] = t[i]
  BY DEF Grown
<1>4. e.type = "ApprovalRequest" => t = <<>> /\ e.value \in 1..Eligible
  BY OneCardinality DEF Quorum!Conforming, RosterInv, Eligible
<1>5. e.type \in DOMAIN Quorum!Choice => e.sender \in Quorum!Participants
  BY DEF Quorum!Conforming
<1>6. e.type = "ApprovalRequest" => DOMAIN v.requests = {} /\ Len(t) = 0
  <2>1. t = <<>> => DOMAIN t = {} /\ Len(t) = 0
    OBVIOUS
  <2> QED BY <1>1, <1>4, <2>1
<1>7. /\ DOMAIN w = DOMAIN v
      /\ e.type = "ApprovalRequest" => w.requests = Quorum!Put(v.requests, e.subject, e.value)
      /\ e.type # "ApprovalRequest" => w.requests = v.requests
      /\ e.type \notin DOMAIN Quorum!Choice => w.ballots = v.ballots
      /\ \/ w.ballots = v.ballots
         \/ /\ e.type \in DOMAIN Quorum!Choice /\ k \notin DOMAIN v.ballots
            /\ w.ballots = Quorum!Put(v.ballots, k, Quorum!Choice[e.type])
  BY <1>1, QuorumEffect
<1>8. \A i \in DOMAIN u : u[i].type = "ApprovalRequest" => i = 1
  BY <1>2, <1>3, <1>6
<1>9. /\ \A r \in DOMAIN w.requests : w.requests[r] \in 1..Eligible
      /\ \A r \in DOMAIN v.requests : r \in DOMAIN w.requests /\ w.requests[r] = v.requests[r]
  BY <1>2, <1>4, <1>6, <1>7 DEF Quorum!Put
<1>10. CASE w.ballots = v.ballots
  <2>1. \A r : Approvals(w, r) = Approvals(v, r) /\ Quorum!VotedSenders(w, r) = Quorum!VotedSenders(v, r)
    BY <1>10 DEF Approvals, Quorum!VotedSenders
  <2> QED BY <1>2, <1>8, <1>9, <1>10, <2>1 DEF BallotInv, Moves
<1>11. CASE e.type \in DOMAIN Quorum!Choice /\ k \notin DOMAIN v.ballots
            /\ w.ballots = Quorum!Put(v.ballots, k, Quorum!Choice[e.type])
  <2>1. PICK c : c = Quorum!Choice[e.type]
    OBVIOUS
  <2>2. k = <<k[1], k[2]>> /\ k[2] = e.sender
    OBVIOUS
  <2>3. DOMAIN w.ballots = DOMAIN v.ballots \cup {k}
    BY <1>11 DEF Quorum!Put
  <2>4. IsFiniteSet(DOMAIN w.ballots) /\ \A x \in DOMAIN w.ballots : x[2] \in Quorum!Participants
    BY <1>2, <1>5, <1>11, <2>2, <2>3, FS_AddElement
  <2>5. BallotInv(u, w)
    BY <1>8, <1>9, <2>4 DEF BallotInv
  <2>6. ASSUME NEW r \in DOMAIN v.requests PROVE Moves(v, w, r)
    <3>1. IsFiniteSet(Quorum!VotedSenders(v, r))
      BY DEF QuorumInv, Balanced
    <3>2. w.ballots = Quorum!Put(v.ballots, k, c)
      BY <1>11, <2>1
    <3> QED BY <1>1, <1>2, <1>11, <2>2, <3>1, <3>2, BallotCounts
  <2> QED BY <1>9, <2>5, <2>6
<1> QED BY <1>7, <1>10, <1>11

-----------------------------------------------------------------------------
\* Decision.  The phase as the history has it.
PhaseInv(t, v) ==
    /\ v.phase \in Decision!Phases
    /\ v.phase = "Committed" <=> Decision!Has(t, "Commitment")
    /\ v.phase = "Voting" <=> Decision!Has(t, "Vote") /\ ~Decision!Has(t, "Commitment")
    /\ v.phase = "Proposal" <=> ~Decision!Has(t, "Proposal") /\ ~Decision!Has(t, "Commitment")
    /\ \A k \in DOMAIN v.votes : Decision!Voted(t, k[1], k[2])

LEMMA PhaseWritten ==
    ASSUME NEW v, DOMAIN v = DOMAIN Decision!DecisionInit, v.phase # "Committed", NEW x,
           NEW w, w = Decision!SetPhase(v, x)
    PROVE  w.phase = x
BY DEF Decision!SetPhase, Decision!DecisionInit

\* The phase each message leaves behind, before the commitment.
LEMMA PhaseEffect ==
    ASSUME NEW v, DOMAIN v = DOMAIN Decision!DecisionInit, v.phase # "Committed", NEW e,
           NEW w, w = Decision!Effect(v, e)
    PROVE  /\ e.type = "Commitment" => w.phase = "Committed"
           /\ e.type = "Proposal" => w.phase = IF v.phase = "Proposal" THEN "Evaluation" ELSE v.phase
           /\ e.type = "Evaluation" => w.phase = "Evaluation"
           /\ e.type = "Vote" /\ e.subject \in DOMAIN v.proposals /\ <<e.subject, e.sender>> \notin DOMAIN v.votes =>
                w.phase = "Voting"
           /\ e.type \notin {"Commitment", "Proposal", "Evaluation", "Vote"} => w.phase = v.phase
<1>1. CASE e.type = "Commitment"
  <2>1. w = [v EXCEPT !.commitment = e.subject, !.phase = "Committed"]
    BY <1>1 DEF Decision!Effect
  <2> QED BY <1>1, <2>1 DEF Decision!DecisionInit
<1>2. CASE e.type = "Proposal"
  <2>1. w = Decision!OnProposal(v, e)
    BY <1>2 DEF Decision!Effect, Decision!DecisionStep
  <2>2. PICK x : x = [option |-> e.value, sender |-> e.sender]
    OBVIOUS
  <2>3. PICK u : u = [v EXCEPT !.proposals = Decision!Put(@, e.subject, x)]
    OBVIOUS
  <2>4. w = IF v.phase = "Proposal" THEN Decision!SetPhase(u, "Evaluation") ELSE u
    BY <2>1, <2>2, <2>3 DEF Decision!OnProposal
  <2>5. DOMAIN u = DOMAIN v /\ u.phase = v.phase
    BY <2>3 DEF Decision!DecisionInit
  <2> QED BY <1>2, <2>4, <2>5, PhaseWritten
<1>3. CASE e.type = "Evaluation"
  <2>1. w = Decision!OnEvaluation(v, e)
    BY <1>3 DEF Decision!Effect, Decision!DecisionStep
  <2>2. PICK u : u = [v EXCEPT !.evaluations = Append(@, [subject |-> e.subject, value |-> e.value, sender |-> e.sender])]
    OBVIOUS
  <2>3. w = Decision!SetPhase(u, "Evaluation")
    BY <2>1, <2>2 DEF Decision!OnEvaluation
  <2>4. DOMAIN u = DOMAIN v /\ u.phase = v.phase
    BY <2>2 DEF Decision!DecisionInit
  <2> QED BY <1>3, <2>3, <2>4, PhaseWritten
<1>4. CASE e.type = "Objection"
  <2>1. w = Decision!OnObjection(v, e)
    BY <1>4 DEF Decision!Effect, Decision!DecisionStep
  <2>2. PICK x : w = [v EXCEPT !.objections = Append(@, x)]
    BY <2>1 DEF Decision!OnObjection
  <2> QED BY <1>4, <2>2 DEF Decision!DecisionInit
<1>5. CASE e.type = "Vote"
  <2> SUFFICES ASSUME e.subject \in DOMAIN v.proposals, <<e.subject, e.sender>> \notin DOMAIN v.votes
               PROVE  w.phase = "Voting"
    BY <1>5
  <2>1. w = Decision!OnVote(v, e)
    BY <1>5 DEF Decision!Effect, Decision!DecisionStep
  <2>2. PICK k : k = <<e.subject, e.sender>>
    OBVIOUS
  <2>3. PICK u : u = [v EXCEPT !.votes = Decision!Put(@, k, e.value)]
    OBVIOUS
  <2>4. w = Decision!SetPhase(u, "Voting")
    BY <2>1, <2>2, <2>3 DEF Decision!OnVote
  <2>5. DOMAIN u = DOMAIN v /\ u.phase = v.phase
    BY <2>3 DEF Decision!DecisionInit
  <2> QED BY <2>4, <2>5, PhaseWritten
<1>6. CASE e.type \notin {"Commitment", "Proposal", "Evaluation", "Objection", "Vote"}
  <2>1. Decision!Effect(v, e) = Decision!DecisionStep(v, e)
    BY <1>6 DEF Decision!Effect
  <2>2. Decision!DecisionStep(v, e) = v
    BY <1>6, Zenon DEF Decision!DecisionStep
  <2> QED BY <1>6, <2>1, <2>2
<1> QED BY <1>1, <1>2, <1>3, <1>4, <1>5, <1>6

LEMMA PhaseKeeps ==
    ASSUME NEW t, NEW v, DecisionInv(t, v), PhaseInv(t, v), NEW e, Decision!Conforming(t, e),
           NEW u, Grown(t, e, u), NEW w, w = Decision!Effect(v, e)
    PROVE  PhaseInv(u, w)
<1> PICK k : k = <<e.subject, e.sender>>
  OBVIOUS
<1>1. /\ DOMAIN v = DOMAIN Decision!DecisionInit
      /\ DOMAIN v.proposals = {t[i].subject : i \in {j \in DOMAIN t : t[j].type = "Proposal"}}
  BY DEF DecisionInv
<1>2. /\ v.phase \in {"Proposal", "Evaluation", "Voting", "Committed"}
      /\ v.phase = "Committed" <=> Decision!Has(t, "Commitment")
      /\ v.phase = "Voting" <=> Decision!Has(t, "Vote") /\ ~Decision!Has(t, "Commitment")
      /\ v.phase = "Proposal" <=> ~Decision!Has(t, "Proposal") /\ ~Decision!Has(t, "Commitment")
      /\ \A x \in DOMAIN v.votes : Decision!Voted(t, x[1], x[2])
  BY DEF PhaseInv, Decision!Phases
<1>3. /\ ~Decision!Has(t, "Commitment")
      /\ e.type \in {"Proposal", "Evaluation", "Objection"} => ~Decision!Has(t, "Vote")
      /\ e.type \in {"Evaluation", "Objection", "Vote"} => Decision!Proposed(t, e.subject)
      /\ e.type = "Vote" => ~Decision!Voted(t, e.subject, e.sender)
  BY DEF Decision!Conforming, Decision!Accepts
<1>4. /\ DOMAIN t = 1..Len(t) /\ Len(t) \in Nat /\ DOMAIN u = 1..Len(t) + 1 /\ u[Len(t) + 1] = e
      /\ \A i \in DOMAIN t : u[i] = t[i]
  BY DEF Grown
<1>5. \A x : Decision!Has(u, x) <=> Decision!Has(t, x) \/ e.type = x
  <2>1. DOMAIN u = DOMAIN t \cup {Len(t) + 1}
    BY <1>4
  <2> QED BY <1>4, <2>1 DEF Decision!Has
<1>6. \A p, s : Decision!Voted(t, p, s) => Decision!Voted(u, p, s)
  <2>1. DOMAIN t \subseteq DOMAIN u
    BY <1>4
  <2> QED BY <1>4, <2>1 DEF Decision!Voted
<1>7. e.type = "Vote" => Decision!Voted(u, e.subject, e.sender)
  BY <1>4 DEF Decision!Voted
<1>8. Decision!Proposed(t, e.subject) => e.subject \in DOMAIN v.proposals /\ Decision!Has(t, "Proposal")
  BY <1>1 DEF Decision!Proposed, Decision!Has
<1>9. e.type = "Vote" => k \notin DOMAIN v.votes
  BY <1>2, <1>3
<1>10. \A x \in DOMAIN w.votes : Decision!Voted(u, x[1], x[2])
  <2>1. w.votes = v.votes \/ (e.type = "Vote" /\ DOMAIN w.votes = DOMAIN v.votes \cup {k})
    <3>1. /\ e.type # "Vote" => w.votes = v.votes
          /\ e.type = "Vote" => w = v \/ w.votes = v.votes \/ w.votes = Decision!Put(v.votes, k, e.value)
      BY <1>1, DecisionEffect
    <3>2. \A x : DOMAIN Decision!Put(v.votes, k, x) = DOMAIN v.votes \cup {k}
      BY DEF Decision!Put
    <3> QED BY <3>1, <3>2
  <2> QED BY <1>2, <1>6, <1>7, <2>1
<1>11. v.phase # "Committed"
  BY <1>2, <1>3
<1>12. /\ w.phase \in {"Proposal", "Evaluation", "Voting", "Committed"}
       /\ w.phase = "Committed" <=> Decision!Has(u, "Commitment")
       /\ w.phase = "Voting" <=> Decision!Has(u, "Vote") /\ ~Decision!Has(u, "Commitment")
       /\ w.phase = "Proposal" <=> ~Decision!Has(u, "Proposal") /\ ~Decision!Has(u, "Commitment")
  <2>1. CASE e.type = "Commitment"
    BY <1>1, <1>2, <1>5, <1>11, <2>1, PhaseEffect
  <2>2. CASE e.type = "Proposal"
    BY <1>1, <1>2, <1>3, <1>5, <1>11, <2>2, PhaseEffect
  <2>3. CASE e.type = "Evaluation"
    BY <1>1, <1>2, <1>3, <1>5, <1>8, <1>11, <2>3, PhaseEffect
  <2>4. CASE e.type = "Vote"
    BY <1>1, <1>2, <1>3, <1>5, <1>8, <1>9, <1>11, <2>4, PhaseEffect
  <2>5. CASE e.type \notin {"Commitment", "Proposal", "Evaluation", "Vote"}
    BY <1>1, <1>2, <1>5, <1>11, <2>5, PhaseEffect
  <2> QED BY <2>1, <2>2, <2>3, <2>4, <2>5
<1> QED BY <1>10, <1>12 DEF PhaseInv, Decision!Phases

-----------------------------------------------------------------------------
\* Handoff.  Offers are made under new ids, one after the other; the statuses and the
\* phase tell what the history holds about them.
StatusOf(v, h) == v.handoffs[h].status
OfferInv(t, v) ==
    /\ v.phase = "Committed" => \E i \in DOMAIN t : t[i].type = "Commitment"
    /\ \A i \in OffersIn(t) : v.handoffs[t[i].subject].target = t[i].value
    /\ \A i \in DOMAIN t : t[i].type \in {"HandoffAccept", "HandoffDecline"} => t[i].subject \in DOMAIN v.handoffs
    /\ \A i \in OffersIn(t) : \A j \in OffersIn(t) : t[i].subject = t[j].subject => i = j
    /\ \A h \in DOMAIN v.handoffs :
            /\ StatusOf(v, h) \in {"offered", "context_sent", "accepted", "declined"}
            /\ Handoff!Declined(t, h) <=> StatusOf(v, h) = "declined"
            /\ Handoff!Of(t, "HandoffAccept", h) # {} <=> StatusOf(v, h) = "accepted"
    /\ \A g \in DOMAIN v.handoffs : \A h \in DOMAIN v.handoffs :
            StatusOf(v, g) # "declined" /\ StatusOf(v, h) # "declined" => g = h
OfferPhase(v) ==
    /\ v.phase = "OfferPending" <=> \E h \in DOMAIN v.handoffs : StatusOf(v, h) = "offered"
    /\ v.phase = "ContextSharing" <=> \E h \in DOMAIN v.handoffs : StatusOf(v, h) = "context_sent"
    /\ v.phase = "Accepted" <=> \E h \in DOMAIN v.handoffs : StatusOf(v, h) = "accepted"
    /\ v.phase = "Declined" <=>
            DOMAIN v.handoffs # {} /\ \A h \in DOMAIN v.handoffs : StatusOf(v, h) = "declined"

LEMMA HandoffPhaseWritten ==
    ASSUME NEW v, DOMAIN v = DOMAIN Handoff!HandoffInit, v.phase # "Committed", NEW phase,
           NEW w, w = Handoff!SetPhase(v, phase)
    PROVE  w.phase = phase /\ w.handoffs = v.handoffs
BY DEF Handoff!SetPhase, Handoff!HandoffInit

\* One handoff takes the status x, and keeps its target; the others stay as they were.
Marks(v, w, h, x) ==
    /\ DOMAIN w.handoffs = DOMAIN v.handoffs
    /\ StatusOf(w, h) = x /\ w.handoffs[h].target = v.handoffs[h].target
    /\ \A g \in DOMAIN v.handoffs : g # h => w.handoffs[g] = v.handoffs[g]

LEMMA OfferWrites ==
    ASSUME NEW v, DOMAIN v = DOMAIN Handoff!HandoffInit, v.phase # "Committed",
           NEW e, e.type = "HandoffOffer", NEW w, w = Handoff!Effect(v, e)
    PROVE  /\ w.phase = "OfferPending" /\ DOMAIN w.handoffs = DOMAIN v.handoffs \cup {e.subject}
           /\ StatusOf(w, e.subject) = "offered" /\ w.handoffs[e.subject].target = e.value
           /\ \A h \in DOMAIN v.handoffs : h # e.subject => w.handoffs[h] = v.handoffs[h]
<1>1. w = Handoff!OnOffer(v, e)
  BY DEF Handoff!Effect, Handoff!HandoffStep
<1>2. PICK x : x = Handoff!Offer(e)
  OBVIOUS
<1>3. PICK u : u = [v EXCEPT !.handoffs = Handoff!Put(@, e.subject, x)]
  OBVIOUS
<1>4. w = Handoff!SetPhase(u, "OfferPending")
  BY <1>1, <1>2, <1>3 DEF Handoff!OnOffer
<1>5. DOMAIN u = DOMAIN v /\ u.handoffs = Handoff!Put(v.handoffs, e.subject, x) /\ u.phase = v.phase
  BY <1>3 DEF Handoff!HandoffInit
<1>6. w.phase = "OfferPending" /\ w.handoffs = u.handoffs
  BY <1>4, <1>5, HandoffPhaseWritten
<1>7. /\ DOMAIN w.handoffs = DOMAIN v.handoffs \cup {e.subject} /\ w.handoffs[e.subject] = x
      /\ \A h \in DOMAIN v.handoffs : h # e.subject => w.handoffs[h] = v.handoffs[h]
  BY <1>5, <1>6 DEF Handoff!Put
<1>8. x.status = "offered" /\ x.target = e.value
  BY <1>2 DEF Handoff!Offer
<1> QED BY <1>6, <1>7, <1>8 DEF StatusOf

LEMMA ContextWrites ==
    ASSUME NEW v, DOMAIN v = DOMAIN Handoff!HandoffInit, v.phase # "Committed",
           NEW e, e.type = "HandoffContext", NEW w, w = Handoff!Effect(v, e),
           e.subject \in DOMAIN v.handoffs, HandoffRecord(v.handoffs[e.subject]),
           StatusOf(v, e.subject) \in {"offered", "context_sent"}
    PROVE  /\ Marks(v, w, e.subject, "context_sent")
           /\ w.phase = IF v.phase = "OfferPending" THEN "ContextSharing" ELSE v.phase
           /\ w.handoffs[e.subject].context = e.value
<1> PICK r : r = v.handoffs[e.subject]
  OBVIOUS
<1>1. w = Handoff!OnContext(v, e)
  BY DEF Handoff!Effect, Handoff!HandoffStep
<1>2. PICK u : u = [v EXCEPT !.handoffs[e.subject].status = IF @ = "offered" THEN "context_sent" ELSE @,
                             !.handoffs[e.subject].context = e.value]
  OBVIOUS
<1>3. w = IF v.phase = "OfferPending" THEN Handoff!SetPhase(u, "ContextSharing") ELSE u
  BY <1>1, <1>2 DEF Handoff!OnContext, Handoff!Known
<1>4. PICK x : x = [r EXCEPT !.status = IF r.status = "offered" THEN "context_sent" ELSE r.status]
  OBVIOUS
<1>5. PICK y : y = [x EXCEPT !.context = e.value]
  OBVIOUS
<1>6. /\ DOMAIN u = DOMAIN v /\ u.phase = v.phase /\ DOMAIN u.handoffs = DOMAIN v.handoffs
      /\ u.handoffs[e.subject] = y
      /\ \A h \in DOMAIN v.handoffs : h # e.subject => u.handoffs[h] = v.handoffs[h]
  BY <1>2, <1>4, <1>5 DEF Handoff!HandoffInit, HandoffRecord
<1>7. y.status = "context_sent" /\ y.target = r.target /\ y.context = e.value
  BY <1>4, <1>5 DEF HandoffRecord, StatusOf
<1>8. Marks(v, u, e.subject, "context_sent")
  BY <1>6, <1>7 DEF Marks, StatusOf
<1>9. CASE v.phase = "OfferPending"
  <2>1. w.phase = "ContextSharing" /\ w.handoffs = u.handoffs
    BY <1>3, <1>6, <1>9, HandoffPhaseWritten
  <2> QED BY <1>6, <1>7, <1>8, <1>9, <2>1 DEF Marks, StatusOf
<1>10. CASE v.phase # "OfferPending"
  BY <1>3, <1>6, <1>7, <1>8, <1>10
<1> QED BY <1>9, <1>10

LEMMA AnswerWrites ==
    ASSUME NEW v, DOMAIN v = DOMAIN Handoff!HandoffInit, v.phase # "Committed",
           NEW e, e.type \in {"HandoffAccept", "HandoffDecline"}, NEW w, w = Handoff!Effect(v, e),
           e.subject \in DOMAIN v.handoffs, HandoffRecord(v.handoffs[e.subject]),
           StatusOf(v, e.subject) \in {"offered", "context_sent"}
    PROVE  /\ e.type = "HandoffAccept" => Marks(v, w, e.subject, "accepted") /\ w.phase = "Accepted"
           /\ e.type = "HandoffDecline" => Marks(v, w, e.subject, "declined") /\ w.phase = "Declined"
           /\ e.type = "HandoffAccept" =>
                w.handoffs[e.subject].acceptedBy = e.value /\ w.handoffs[e.subject].implicit = e.flag
           /\ e.type = "HandoffDecline" => w.handoffs[e.subject].declinedBy = e.value
<1> PICK r : r = v.handoffs[e.subject]
  OBVIOUS
<1>1. Handoff!Known(v, e) /\ Handoff!IsPending(v, e.subject)
  BY DEF Handoff!Known, Handoff!IsPending, Handoff!Pending, StatusOf
<1>2. CASE e.type = "HandoffAccept"
  <2>1. w = Handoff!OnAccept(v, e)
    BY <1>2 DEF Handoff!Effect, Handoff!HandoffStep
  <2>2. PICK u : u = [v EXCEPT !.handoffs[e.subject].status = "accepted",
                               !.handoffs[e.subject].acceptedBy = e.value,
                               !.handoffs[e.subject].implicit = e.flag]
    OBVIOUS
  <2>3. w = Handoff!SetPhase(u, "Accepted")
    BY <1>1, <2>1, <2>2 DEF Handoff!OnAccept
  <2>4. PICK x : x = [r EXCEPT !.status = "accepted"]
    OBVIOUS
  <2>5. PICK y : y = [x EXCEPT !.acceptedBy = e.value]
    OBVIOUS
  <2>6. PICK z : z = [y EXCEPT !.implicit = e.flag]
    OBVIOUS
  <2>7. /\ DOMAIN u = DOMAIN v /\ u.phase = v.phase /\ DOMAIN u.handoffs = DOMAIN v.handoffs
        /\ u.handoffs[e.subject] = z
        /\ \A g \in DOMAIN v.handoffs : g # e.subject => u.handoffs[g] = v.handoffs[g]
    BY <2>2, <2>4, <2>5, <2>6 DEF Handoff!HandoffInit
  <2>8. z.status = "accepted" /\ z.target = r.target /\ z.acceptedBy = e.value /\ z.implicit = e.flag
    BY <2>4, <2>5, <2>6 DEF HandoffRecord
  <2>9. w.phase = "Accepted" /\ w.handoffs = u.handoffs
    BY <2>3, <2>7, HandoffPhaseWritten
  <2> QED BY <1>2, <2>7, <2>8, <2>9 DEF Marks, StatusOf
<1>3. CASE e.type = "HandoffDecline"
  <2>1. w = Handoff!OnDecline(v, e)
    BY <1>3 DEF Handoff!Effect, Handoff!HandoffStep
  <2>2. PICK u : u = [v EXCEPT !.handoffs[e.subject].status = "declined",
                               !.handoffs[e.subject].declinedBy = e.value]
    OBVIOUS
  <2>3. w = Handoff!SetPhase(u, "Declined")
    BY <1>1, <2>1, <2>2 DEF Handoff!OnDecline
  <2>4. PICK x : x = [r EXCEPT !.status = "declined"]
    OBVIOUS
  <2>5. PICK z : z = [x EXCEPT !.declinedBy = e.value]
    OBVIOUS
  <2>6. /\ DOMAIN u = DOMAIN v /\ u.phase = v.phase /\ DOMAIN u.handoffs = DOMAIN v.handoffs
        /\ u.handoffs[e.subject] = z
        /\ \A g \in DOMAIN v.handoffs : g # e.subject => u.handoffs[g] = v.handoffs[g]
    BY <2>2, <2>4, <2>5 DEF Handoff!HandoffInit
  <2>7. z.status = "declined" /\ z.target = r.target /\ z.declinedBy = e.value
    BY <2>4, <2>5 DEF HandoffRecord
  <2>8. w.phase = "Declined" /\ w.handoffs = u.handoffs
    BY <2>3, <2>6, HandoffPhaseWritten
  <2> QED BY <1>3, <2>6, <2>7, <2>8 DEF Marks, StatusOf
<1> QED BY <1>2, <1>3

LEMMA CommitmentWrites ==
    ASSUME NEW v, DOMAIN v = DOMAIN Handoff!HandoffInit, NEW e, NEW w, w = Handoff!Effect(v, e),
           e.type \notin {"HandoffOffer", "HandoffContext", "HandoffAccept", "HandoffDecline"}
    PROVE  w.handoffs = v.handoffs /\ (w.phase = v.phase \/ (e.type = "Commitment" /\ w.phase = "Committed"))
<1>1. CASE e.type = "Commitment"
  <2>1. w = [v EXCEPT !.commitment = e.subject, !.phase = "Committed"]
    BY <1>1 DEF Handoff!Effect
  <2> QED BY <1>1, <2>1 DEF Handoff!HandoffInit
<1>2. CASE e.type # "Commitment"
  <2>1. Handoff!Effect(v, e) = Handoff!HandoffStep(v, e)
    BY <1>2 DEF Handoff!Effect
  <2>2. Handoff!HandoffStep(v, e) = v
    BY Zenon DEF Handoff!HandoffStep
  <2>3. w.handoffs = v.handoffs /\ w.phase = v.phase
    BY <2>1, <2>2
  <2> QED BY <2>3
<1> QED BY <1>1, <1>2

LEMMA OfferKeeps ==
    ASSUME NEW t, NEW v, HandoffInv(t, v), OfferInv(t, v), v.phase # "Committed" => OfferPhase(v),
           NEW e, Handoff!Conforming(t, e), NEW u, Grown(t, e, u), NEW w, w = Handoff!Effect(v, e)
    PROVE  OfferInv(u, w) /\ (w.phase # "Committed" => OfferPhase(w))
<1> PICK n : n = Len(t) + 1
  OBVIOUS
<1> PICK s : s = e.subject
  OBVIOUS
<1>1. /\ DOMAIN v = DOMAIN Handoff!HandoffInit /\ \A h \in DOMAIN v.handoffs : HandoffRecord(v.handoffs[h])
      /\ DOMAIN v.handoffs = {t[i].subject : i \in OffersIn(t)}
  BY DEF HandoffInv
<1>2. /\ v.phase = "Committed" => \E i \in DOMAIN t : t[i].type = "Commitment"
      /\ \A i \in OffersIn(t) : v.handoffs[t[i].subject].target = t[i].value
      /\ \A i \in DOMAIN t : t[i].type \in {"HandoffAccept", "HandoffDecline"} => t[i].subject \in DOMAIN v.handoffs
      /\ \A i \in OffersIn(t) : \A j \in OffersIn(t) : t[i].subject = t[j].subject => i = j
      /\ \A h \in DOMAIN v.handoffs :
            /\ StatusOf(v, h) \in {"offered", "context_sent", "accepted", "declined"}
            /\ Handoff!Declined(t, h) <=> StatusOf(v, h) = "declined"
            /\ Handoff!Of(t, "HandoffAccept", h) # {} <=> StatusOf(v, h) = "accepted"
      /\ \A g \in DOMAIN v.handoffs : \A h \in DOMAIN v.handoffs :
            StatusOf(v, g) # "declined" /\ StatusOf(v, h) # "declined" => g = h
  BY DEF OfferInv
<1>3. /\ n \notin DOMAIN t /\ DOMAIN u = DOMAIN t \cup {n} /\ u[n] = e /\ \A i \in DOMAIN t : u[i] = t[i]
  BY DEF Grown
<1>4. Handoff!Offered(t) = DOMAIN v.handoffs
  BY <1>1 DEF Handoff!Offered, OffersIn
<1>5. /\ \A i \in DOMAIN t : t[i].type # "Commitment"
      /\ e.type = "HandoffOffer" => s \notin DOMAIN v.handoffs /\ Handoff!MayOffer(t, e.value)
      /\ e.type \in {"HandoffContext", "HandoffAccept", "HandoffDecline"} =>
            s \in DOMAIN v.handoffs /\ ~Handoff!Settled(t, s)
  BY <1>4 DEF Handoff!Conforming
<1>6. v.phase # "Committed" /\ OfferPhase(v)
  BY <1>2, <1>5
<1>7. \A x, h : Handoff!Of(u, x, h) # {} <=> Handoff!Of(t, x, h) # {} \/ (e.type = x /\ s = h)
  BY <1>3 DEF Handoff!Of
<1>8. \A h : Handoff!Declined(u, h) <=> Handoff!Declined(t, h) \/ (e.type = "HandoffDecline" /\ s = h)
  BY <1>7 DEF Handoff!Declined
<1>9. OffersIn(u) = IF e.type = "HandoffOffer" THEN OffersIn(t) \cup {n} ELSE OffersIn(t)
  BY <1>3 DEF OffersIn
<1>10. \A i \in OffersIn(t) : i \in DOMAIN t /\ u[i] = t[i] /\ t[i].subject \in DOMAIN v.handoffs
  BY <1>1, <1>3 DEF OffersIn
<1>11. \A i \in OffersIn(u) : \A j \in OffersIn(u) : u[i].subject = u[j].subject => i = j
  BY <1>2, <1>3, <1>5, <1>9, <1>10
<1>12. e.type \in {"HandoffContext", "HandoffAccept", "HandoffDecline"} => StatusOf(v, s) \in {"offered", "context_sent"}
  BY <1>2, <1>5 DEF Handoff!Settled
<1>13. e.type = "Commitment" => \E i \in DOMAIN u : u[i].type = "Commitment"
  BY <1>3
<1>14. CASE e.type = "HandoffOffer"
  <2>1. /\ w.phase = "OfferPending" /\ DOMAIN w.handoffs = DOMAIN v.handoffs \cup {s}
        /\ StatusOf(w, s) = "offered" /\ w.handoffs[s].target = e.value
        /\ \A h \in DOMAIN v.handoffs : h # s => w.handoffs[h] = v.handoffs[h]
    BY <1>1, <1>6, <1>14, OfferWrites
  <2>2. s \notin DOMAIN v.handoffs /\ \A h \in DOMAIN v.handoffs : StatusOf(v, h) = "declined"
    BY <1>2, <1>4, <1>5, <1>14 DEF Handoff!MayOffer
  <2>3. \A h \in DOMAIN v.handoffs : StatusOf(w, h) = "declined" /\ w.handoffs[h] = v.handoffs[h]
    BY <2>1, <2>2 DEF StatusOf
  <2>4. Handoff!Of(t, "HandoffAccept", s) = {} /\ ~Handoff!Declined(t, s)
    BY <1>2, <2>2 DEF Handoff!Of, Handoff!Declined
  <2>5. \A i \in OffersIn(u) : w.handoffs[u[i].subject].target = u[i].value
    BY <1>2, <1>3, <1>9, <1>10, <2>1, <2>3
  <2>6. \A i \in DOMAIN u : u[i].type \in {"HandoffAccept", "HandoffDecline"} => u[i].subject \in DOMAIN w.handoffs
    BY <1>2, <1>3, <1>14, <2>1
  <2>7. ASSUME NEW h \in DOMAIN w.handoffs
        PROVE  /\ StatusOf(w, h) \in {"offered", "context_sent", "accepted", "declined"}
               /\ Handoff!Declined(u, h) <=> StatusOf(w, h) = "declined"
               /\ Handoff!Of(u, "HandoffAccept", h) # {} <=> StatusOf(w, h) = "accepted"
    BY <1>2, <1>7, <1>8, <1>14, <2>1, <2>2, <2>3, <2>4
  <2>8. \A g \in DOMAIN w.handoffs : \A h \in DOMAIN w.handoffs :
            StatusOf(w, g) # "declined" /\ StatusOf(w, h) # "declined" => g = h
    BY <2>1, <2>3
  <2>9. OfferInv(u, w)
    BY <1>11, <2>1, <2>5, <2>6, <2>7, <2>8 DEF OfferInv
  <2>10. OfferPhase(w)
    BY <2>1, <2>3 DEF OfferPhase
  <2> QED BY <2>9, <2>10
<1>15. ASSUME e.type # "HandoffOffer", s \in DOMAIN v.handoffs, NEW x, Marks(v, w, s, x),
              x \in {"offered", "context_sent", "accepted", "declined"},
              e.type = "HandoffDecline" <=> x = "declined", e.type = "HandoffAccept" <=> x = "accepted",
              StatusOf(v, s) \in {"offered", "context_sent"}, w.phase # "Committed"
       PROVE  OfferInv(u, w)
  <2>1. /\ DOMAIN w.handoffs = DOMAIN v.handoffs
        /\ StatusOf(w, s) = x /\ w.handoffs[s].target = v.handoffs[s].target
        /\ \A g \in DOMAIN v.handoffs : g # s => w.handoffs[g] = v.handoffs[g] /\ StatusOf(w, g) = StatusOf(v, g)
    BY <1>15 DEF Marks, StatusOf
  <2>2. \A i \in OffersIn(u) : w.handoffs[u[i].subject].target = u[i].value
    BY <1>2, <1>9, <1>10, <1>15, <2>1
  <2>3. \A i \in DOMAIN u : u[i].type \in {"HandoffAccept", "HandoffDecline"} => u[i].subject \in DOMAIN w.handoffs
    BY <1>2, <1>3, <1>15, <2>1
  <2>4. ASSUME NEW h \in DOMAIN w.handoffs
        PROVE  /\ StatusOf(w, h) \in {"offered", "context_sent", "accepted", "declined"}
               /\ Handoff!Declined(u, h) <=> StatusOf(w, h) = "declined"
               /\ Handoff!Of(u, "HandoffAccept", h) # {} <=> StatusOf(w, h) = "accepted"
    BY <1>2, <1>7, <1>8, <1>15, <2>1
  <2>5. \A g \in DOMAIN w.handoffs : \A h \in DOMAIN w.handoffs :
            StatusOf(w, g) # "declined" /\ StatusOf(w, h) # "declined" => g = h
    BY <1>2, <1>15, <2>1
  <2> QED BY <1>11, <1>15, <2>2, <2>3, <2>4, <2>5 DEF OfferInv
<1>16. CASE e.type = "HandoffContext"
  <2>1. HandoffRecord(v.handoffs[s])
    BY <1>1, <1>5, <1>16
  <2>2. Marks(v, w, s, "context_sent") /\ w.phase = IF v.phase = "OfferPending" THEN "ContextSharing" ELSE v.phase
    BY <1>1, <1>5, <1>6, <1>12, <1>16, <2>1, ContextWrites
  <2>3. OfferInv(u, w)
    BY <1>5, <1>6, <1>12, <1>15, <1>16, <2>2
  <2>4. w.phase = "ContextSharing"
    BY <1>5, <1>6, <1>12, <1>16, <2>2 DEF OfferPhase
  <2>5. OfferPhase(w)
    <3>1. /\ DOMAIN w.handoffs = DOMAIN v.handoffs /\ StatusOf(w, s) = "context_sent"
          /\ \A g \in DOMAIN v.handoffs : g # s => StatusOf(w, g) = StatusOf(v, g)
      BY <2>2 DEF Marks, StatusOf
    <3>2. \A g \in DOMAIN v.handoffs : g # s => StatusOf(w, g) = "declined"
      BY <1>2, <1>5, <1>12, <1>16, <3>1
    <3> QED BY <1>5, <1>16, <2>4, <3>1, <3>2 DEF OfferPhase
  <2> QED BY <2>3, <2>5
<1>17. CASE e.type \in {"HandoffAccept", "HandoffDecline"}
  <2>1. HandoffRecord(v.handoffs[s])
    BY <1>1, <1>5, <1>17
  <2>2. PICK x : x = IF e.type = "HandoffAccept" THEN "accepted" ELSE "declined"
    OBVIOUS
  <2>3. Marks(v, w, s, x) /\ w.phase = IF e.type = "HandoffAccept" THEN "Accepted" ELSE "Declined"
    BY <1>1, <1>5, <1>6, <1>12, <1>17, <2>1, <2>2, AnswerWrites
  <2>4. OfferInv(u, w)
    BY <1>5, <1>12, <1>15, <1>17, <2>2, <2>3
  <2>5. OfferPhase(w)
    <3>1. /\ DOMAIN w.handoffs = DOMAIN v.handoffs /\ StatusOf(w, s) = x
          /\ \A g \in DOMAIN v.handoffs : g # s => StatusOf(w, g) = StatusOf(v, g)
      BY <2>3 DEF Marks, StatusOf
    <3>2. \A g \in DOMAIN v.handoffs : g # s => StatusOf(w, g) = "declined"
      BY <1>2, <1>5, <1>12, <1>17, <3>1
    <3> QED BY <1>5, <1>17, <2>2, <2>3, <3>1, <3>2 DEF OfferPhase
  <2> QED BY <2>4, <2>5
<1>18. CASE e.type \notin {"HandoffOffer", "HandoffContext", "HandoffAccept", "HandoffDecline"}
  <2>1. w.handoffs = v.handoffs /\ (w.phase = v.phase \/ (e.type = "Commitment" /\ w.phase = "Committed"))
    BY <1>1, <1>18, CommitmentWrites
  <2>2. \A h : StatusOf(w, h) = StatusOf(v, h)
    BY <2>1 DEF StatusOf
  <2>3. \A i \in DOMAIN u : u[i].type \in {"HandoffAccept", "HandoffDecline"} => u[i].subject \in DOMAIN w.handoffs
    BY <1>2, <1>3, <1>18, <2>1
  <2>4. \A i \in OffersIn(u) : w.handoffs[u[i].subject].target = u[i].value
    BY <1>2, <1>9, <1>10, <1>18, <2>1
  <2>5. \A h \in DOMAIN w.handoffs :
               /\ StatusOf(w, h) \in {"offered", "context_sent", "accepted", "declined"}
               /\ Handoff!Declined(u, h) <=> StatusOf(w, h) = "declined"
               /\ Handoff!Of(u, "HandoffAccept", h) # {} <=> StatusOf(w, h) = "accepted"
    BY <1>2, <1>7, <1>8, <1>18, <2>1, <2>2
  <2>6. OfferInv(u, w)
    BY <1>2, <1>6, <1>11, <1>13, <2>1, <2>2, <2>3, <2>4, <2>5 DEF OfferInv
  <2>7. w.phase # "Committed" => OfferPhase(w)
    BY <1>6, <2>1, <2>2 DEF OfferPhase
  <2> QED BY <2>6, <2>7
<1> QED BY <1>14, <1>16, <1>17, <1>18

-----------------------------------------------------------------------------
\* Multi-round.  The contributions are the latest of their senders, the round counts those
\* that changed something, and the session has converged when its history says so.
Latest(t, p) == MultiRound!LatestOf(t, p)
Changes(t) ==
    {i \in MultiRound!Contributions(t) : Latest(SubSeq(t, 1, i - 1), t[i].sender) # {t[i].value}}
Contributed(v) == {v.contributions[p] : p \in DOMAIN v.contributions}
Agreed(R, t) ==
    R # {} /\ \E x \in {t[i].value : i \in MultiRound!Contributions(t)} : \A p \in R : Latest(t, p) = {x}
RoundInv(R, t, v) ==
    /\ t = <<>> => ~v.converged
    /\ t # <<>> => v.participants = R
    /\ \A i \in MultiRound!Contributions(t) : t[i].sender \in DOMAIN v.contributions
    /\ \A p \in DOMAIN v.contributions : Latest(t, p) = {v.contributions[p]}
    /\ IsFiniteSet(Contributed(v))
    /\ v.converged <=> Agreed(R, t)
    /\ IsFiniteSet(Changes(t)) /\ v.round = Cardinality(Changes(t))

LEMMA MultiRoundCardinality ==
    ASSUME NEW S
    PROVE  MultiRound!Cardinality(S) = Cardinality(S)
BY Zenon DEF Cardinality, MultiRound!Cardinality

LEMMA AgreedIs ==
    ASSUME NEW t
    PROVE  MultiRound!Converged(t) <=> Agreed(MultiRound!Roster, t)
BY DEF MultiRound!Converged, Agreed, Latest

\* What the first message and a contribution that counts do.
LEMMA StartWrites ==
    ASSUME NEW v, DOMAIN v = DOMAIN MultiRound!MultiRoundInit, NEW e, e.type = "SessionStart",
           NEW w, w = MultiRound!Effect(v, e)
    PROVE  Frozen(v, w) /\ w.participants = e.value
<1>1. w = MultiRound!OnSessionStart(v, e)
  BY DEF MultiRound!Effect, MultiRound!MultiRoundStep
<1>2. PICK u : u = [v EXCEPT !.participants = e.value,
                             !.initiator = IF e.sender = MultiRound!NoOne THEN @ ELSE e.sender]
  OBVIOUS
<1>3. w = MultiRound!SetPhase(u, "Contributing")
  BY <1>1, <1>2 DEF MultiRound!OnSessionStart
<1>4. DOMAIN u = DOMAIN v /\ Frozen(v, u) /\ u.participants = e.value
  BY <1>2 DEF MultiRound!MultiRoundInit, MultiRound!MultiRoundSeeded, Frozen
<1>5. w.participants = u.participants
  BY <1>3, <1>4 DEF MultiRound!SetPhase, MultiRound!MultiRoundInit, MultiRound!MultiRoundSeeded
<1> QED BY <1>3, <1>4, <1>5, MultiRoundPhase DEF Frozen

LEMMA ContributionWrites ==
    ASSUME NEW v, DOMAIN v = DOMAIN MultiRound!MultiRoundInit, ~v.converged,
           NEW e, e.type = "Contribute", e.value # MultiRound!Undecodable, MultiRound!IsParticipant(v, e.sender),
           NEW w, w = MultiRound!Effect(v, e)
    PROVE  /\ w.participants = v.participants
           /\ w.converged <=> MultiRound!AllEqual(w)
           /\ w.converged => w.agreed = CHOOSE x \in MultiRound!Values(w) : TRUE
           /\ \/ /\ e.sender \in DOMAIN v.contributions /\ v.contributions[e.sender] = e.value
                 /\ w.contributions = v.contributions /\ w.round = v.round
              \/ /\ ~(e.sender \in DOMAIN v.contributions /\ v.contributions[e.sender] = e.value)
                 /\ w.contributions = MultiRound!Put(v.contributions, e.sender, e.value) /\ w.round = v.round + 1
<1>1. w = MultiRound!OnContribute(v, e)
  BY DEF MultiRound!Effect, MultiRound!MultiRoundStep
<1>2. PICK u : u = MultiRound!Contributed(v, e)
  OBVIOUS
<1>3. w = MultiRound!CheckConvergence(u)
  BY <1>1, <1>2 DEF MultiRound!OnContribute
<1>4. /\ DOMAIN u = DOMAIN v /\ u.participants = v.participants /\ u.converged = v.converged
      /\ \/ /\ e.sender \in DOMAIN v.contributions /\ v.contributions[e.sender] = e.value
            /\ u.contributions = v.contributions /\ u.round = v.round
         \/ /\ ~(e.sender \in DOMAIN v.contributions /\ v.contributions[e.sender] = e.value)
            /\ u.contributions = MultiRound!Put(v.contributions, e.sender, e.value) /\ u.round = v.round + 1
  <2>1. CASE e.sender \in DOMAIN v.contributions /\ v.contributions[e.sender] = e.value
    BY <1>2, <2>1 DEF MultiRound!Contributed
  <2>2. CASE ~(e.sender \in DOMAIN v.contributions /\ v.contributions[e.sender] = e.value)
    <3>1. PICK x : x = MultiRound!Put(v.contributions, e.sender, e.value)
      OBVIOUS
    <3>2. u = [v EXCEPT !.round = @ + 1, !.contributions = x]
      BY <1>2, <2>2, <3>1 DEF MultiRound!Contributed
    <3>3. /\ DOMAIN u = DOMAIN v /\ u.participants = v.participants /\ u.converged = v.converged
          /\ u.contributions = x /\ u.round = v.round + 1
      BY <3>2 DEF MultiRound!MultiRoundInit, MultiRound!MultiRoundSeeded
    <3> QED BY <2>2, <3>1, <3>3
  <2> QED BY <2>1, <2>2
<1>5. /\ w.participants = u.participants /\ w.contributions = u.contributions /\ w.round = u.round
      /\ w.converged <=> MultiRound!AllEqual(u)
      /\ w.converged => w.agreed = CHOOSE x \in MultiRound!Values(u) : TRUE
  <2>1. CASE MultiRound!AllEqual(u)
    <3>1. PICK y : y = (CHOOSE x \in MultiRound!Values(u) : TRUE)
      OBVIOUS
    <3>2. PICK z : z = [u EXCEPT !.converged = TRUE, !.agreed = y]
      OBVIOUS
    <3>3. w = MultiRound!SetPhase(z, "Converged")
      BY <1>3, <2>1, <3>1, <3>2 DEF MultiRound!CheckConvergence
    <3>4. /\ DOMAIN z = DOMAIN v /\ z.converged = TRUE /\ z.agreed = y /\ z.participants = u.participants
          /\ z.contributions = u.contributions /\ z.round = u.round
      BY <1>4, <3>2 DEF MultiRound!MultiRoundInit, MultiRound!MultiRoundSeeded
    <3>5. w.participants = z.participants
      BY <3>3, <3>4 DEF MultiRound!SetPhase, MultiRound!MultiRoundInit, MultiRound!MultiRoundSeeded
    <3> QED BY <2>1, <3>1, <3>3, <3>4, <3>5, MultiRoundPhase DEF Frozen
  <2>2. CASE ~MultiRound!AllEqual(u)
    <3>1. w = u
      BY <1>3, <2>2 DEF MultiRound!CheckConvergence
    <3> QED BY <1>4, <2>2, <3>1
  <2> QED BY <2>1, <2>2
<1>6. (MultiRound!AllEqual(u) <=> MultiRound!AllEqual(w)) /\ MultiRound!Values(u) = MultiRound!Values(w)
  BY <1>5 DEF MultiRound!AllEqual, MultiRound!Values
<1> QED BY <1>4, <1>5, <1>6

\* What an entry does to the latest contributions and to the changes.
LEMMA LatestGrows ==
    ASSUME NEW t, NEW e, NEW u, Grown(t, e, u), NEW p
    PROVE  /\ e.type = "Contribute" /\ e.value # MultiRound!Undecodable =>
                Latest(u, p) = IF e.sender = p THEN {e.value} ELSE Latest(t, p)
           /\ e.type # "Contribute" => Latest(u, p) = Latest(t, p)
<1> PICK n : n = Len(t) + 1
  OBVIOUS
<1> PICK C : C = MultiRound!Contributions(t)
  OBVIOUS
<1>1. /\ Len(t) \in Nat /\ DOMAIN t = 1..Len(t) /\ DOMAIN u = 1..n /\ u[n] = e /\ n \notin DOMAIN t
      /\ \A i \in DOMAIN t : u[i] = t[i] /\ i < n /\ i \in Nat
  BY DEF Grown
<1>2. C \subseteq DOMAIN t
  BY DEF MultiRound!Contributions
<1>3. CASE e.type = "Contribute" /\ e.value # MultiRound!Undecodable
  <2>1. MultiRound!Contributions(u) = C \cup {n}
    BY <1>1, <1>3 DEF MultiRound!Contributions
  <2>2. CASE e.sender = p
    <3>1. \A i \in C \cup {n} : (u[i].sender = p /\ \A k \in C \cup {n} : u[k].sender = p => k <= i) <=> i = n
      BY <1>1, <1>2, <2>2
    <3> QED BY <1>1, <1>3, <2>1, <2>2, <3>1 DEF Latest, MultiRound!LatestOf
  <2>3. CASE e.sender # p
    <3>1. \A i \in C \cup {n} : (u[i].sender = p /\ \A k \in C \cup {n} : u[k].sender = p => k <= i) <=>
                i \in C /\ t[i].sender = p /\ \A k \in C : t[k].sender = p => k <= i
      BY <1>1, <1>2, <2>3
    <3>2. {j \in C \cup {n} : u[j].sender = p /\ \A k \in C \cup {n} : u[k].sender = p => k <= j}
            = {j \in C : t[j].sender = p /\ \A k \in C : t[k].sender = p => k <= j}
      BY <3>1
    <3>3. PICK J : J = {j \in C : t[j].sender = p /\ \A k \in C : t[k].sender = p => k <= j}
      OBVIOUS
    <3>4. Latest(u, p) = {u[i].value : i \in J} /\ Latest(t, p) = {t[i].value : i \in J}
      BY <2>1, <3>2, <3>3 DEF Latest, MultiRound!LatestOf
    <3>5. \A i \in J : u[i].value = t[i].value
      BY <1>1, <1>2, <3>3
    <3> QED BY <1>3, <2>3, <3>4, <3>5
  <2> QED BY <1>3, <2>2, <2>3
<1>4. CASE e.type # "Contribute"
  <2>1. MultiRound!Contributions(u) = C
    BY <1>1, <1>4 DEF MultiRound!Contributions
  <2>2. {j \in C : u[j].sender = p /\ \A k \in C : u[k].sender = p => k <= j}
            = {j \in C : t[j].sender = p /\ \A k \in C : t[k].sender = p => k <= j}
    BY <1>1, <1>2
  <2>3. PICK J : J = {j \in C : t[j].sender = p /\ \A k \in C : t[k].sender = p => k <= j}
    OBVIOUS
  <2>4. Latest(u, p) = {u[i].value : i \in J} /\ Latest(t, p) = {t[i].value : i \in J}
    BY <2>1, <2>2, <2>3 DEF Latest, MultiRound!LatestOf
  <2>5. \A i \in J : u[i].value = t[i].value
    BY <1>1, <1>2, <2>3
  <2> QED BY <1>4, <2>4, <2>5
<1> QED BY <1>3, <1>4

LEMMA ChangesGrow ==
    ASSUME NEW t, NEW e, NEW u, Sequence(t), Sequence(u), Grown(t, e, u)
    PROVE  Changes(u) = Changes(t) \cup
                {i \in {Len(t) + 1} : e.type = "Contribute" /\ e.value # MultiRound!Undecodable
                                        /\ Latest(t, e.sender) # {e.value}}
<1> PICK n : n = Len(t) + 1
  OBVIOUS
<1>1. /\ Len(t) \in Nat /\ DOMAIN t = 1..Len(t) /\ DOMAIN u = 1..n /\ u[n] = e /\ n \notin DOMAIN t
      /\ \A i \in DOMAIN t : u[i] = t[i] /\ i \in 1..Len(t)
  BY DEF Grown
<1>2. PICK S : t \in Seq(S) /\ u \in Seq(S)
  <2>1. t \in Seq({t[i] : i \in DOMAIN t} \cup {u[i] : i \in DOMAIN u})
    BY MemberSequence
  <2>2. u \in Seq({t[i] : i \in DOMAIN t} \cup {u[i] : i \in DOMAIN u})
    BY MemberSequence
  <2> QED BY <2>1, <2>2
<1>3. \A i \in 1..n : SubSeq(u, 1, i - 1) = SubSeq(t, 1, i - 1)
  <2> TAKE i \in 1..n
  <2>1. /\ SubSeq(u, 1, i - 1) \in Seq(S) /\ Len(SubSeq(u, 1, i - 1)) = i - 1
        /\ \A j \in 1..i - 1 : SubSeq(u, 1, i - 1)[j] = u[j]
    BY <1>1, <1>2
  <2>2. /\ SubSeq(t, 1, i - 1) \in Seq(S) /\ Len(SubSeq(t, 1, i - 1)) = i - 1
        /\ \A j \in 1..i - 1 : SubSeq(t, 1, i - 1)[j] = t[j]
    BY <1>1, <1>2
  <2> QED BY <1>1, <2>1, <2>2
<1>4. SubSeq(t, 1, n - 1) = t
  BY <1>1, <1>2
<1>5. MultiRound!Contributions(u) = MultiRound!Contributions(t) \cup
                {i \in {n} : e.type = "Contribute" /\ e.value # MultiRound!Undecodable}
  BY <1>1 DEF MultiRound!Contributions
<1>6. ASSUME NEW i
      PROVE  i \in Changes(u) <=> \/ i \in Changes(t)
                                  \/ /\ i = n /\ e.type = "Contribute" /\ e.value # MultiRound!Undecodable
                                     /\ Latest(t, e.sender) # {e.value}
  <2>1. CASE i \in DOMAIN t
    <3>1. SubSeq(u, 1, i - 1) = SubSeq(t, 1, i - 1) /\ u[i] = t[i] /\ i # n
      BY <1>1, <1>3, <2>1
    <3> QED BY <1>5, <2>1, <3>1 DEF Changes
  <2>2. CASE i = n
    <3>1. SubSeq(u, 1, i - 1) = t /\ u[i] = e
      BY <1>1, <1>3, <1>4, <2>2
    <3>2. i \notin MultiRound!Contributions(t)
      BY <1>1, <2>2 DEF MultiRound!Contributions
    <3> QED BY <1>5, <2>2, <3>1, <3>2 DEF Changes
  <2>3. CASE i \notin DOMAIN t /\ i # n
    BY <1>5, <2>3 DEF Changes, MultiRound!Contributions
  <2> QED BY <2>1, <2>2, <2>3
<1> QED BY <1>6

\* Convergence, read from the latest contributions, is the projection's.
LEMMA ConvergenceIs ==
    ASSUME NEW u, NEW w, w.participants = MultiRound!Roster,
           \A i \in MultiRound!Contributions(u) : u[i].sender \in DOMAIN w.contributions,
           \A p \in DOMAIN w.contributions : Latest(u, p) = {w.contributions[p]},
           IsFiniteSet(Contributed(w))
    PROVE  MultiRound!Converged(u) <=> MultiRound!AllEqual(w)
<1> PICK R : R = MultiRound!Roster
  OBVIOUS
<1>1. \A p : p \notin DOMAIN w.contributions => Latest(u, p) = {}
  BY DEF Latest, MultiRound!LatestOf
<1>2. \A p : \A x \in Latest(u, p) : x \in {u[i].value : i \in MultiRound!Contributions(u)}
  BY DEF Latest, MultiRound!LatestOf
<1>3. MultiRound!Values(w) = {w.contributions[p] : p \in R \cap DOMAIN w.contributions}
  BY DEF MultiRound!Values
<1>4. IsFiniteSet(MultiRound!Values(w))
  <2>1. MultiRound!Values(w) \subseteq Contributed(w)
    BY <1>3 DEF Contributed
  <2> QED BY <2>1, FS_Subset
<1>5. MultiRound!Cardinality(MultiRound!Values(w)) = 1 <=> \E x : MultiRound!Values(w) = {x}
  BY <1>4, FS_Singleton, MultiRoundCardinality
<1>6. ASSUME MultiRound!Converged(u) PROVE MultiRound!AllEqual(w)
  <2>1. PICK x : R # {} /\ \A p \in R : Latest(u, p) = {x}
    BY <1>6 DEF MultiRound!Converged, Latest
  <2>2. R \subseteq DOMAIN w.contributions /\ \A p \in R : w.contributions[p] = x
    BY <1>1, <2>1
  <2>3. MultiRound!Values(w) = {x}
    BY <1>3, <2>1, <2>2
  <2> QED BY <1>5, <2>1, <2>2, <2>3 DEF MultiRound!AllEqual
<1>7. ASSUME MultiRound!AllEqual(w) PROVE MultiRound!Converged(u)
  <2>1. R # {} /\ R \subseteq DOMAIN w.contributions /\ \E x : MultiRound!Values(w) = {x}
    BY <1>5, <1>7 DEF MultiRound!AllEqual
  <2>2. PICK x : MultiRound!Values(w) = {x}
    BY <2>1
  <2>3. \A p \in R : w.contributions[p] = x
    BY <1>3, <2>1, <2>2
  <2>4. \A p \in R : Latest(u, p) = {x}
    BY <2>1, <2>3
  <2>5. x \in {u[i].value : i \in MultiRound!Contributions(u)}
    BY <1>2, <2>1, <2>4
  <2> QED BY <2>1, <2>4, <2>5 DEF MultiRound!Converged, Latest
<1> QED BY <1>6, <1>7

LEMMA RoundKeeps ==
    ASSUME NEW t, NEW v, DOMAIN v = DOMAIN MultiRound!MultiRoundInit, RoundInv(MultiRound!Roster, t, v), Sequence(t),
           NEW e, MultiRound!Conforming(t, e), NEW u, Grown(t, e, u), Sequence(u), NEW w, w = MultiRound!Effect(v, e)
    PROVE  RoundInv(MultiRound!Roster, u, w)
<1> PICK n : n = Len(t) + 1
  OBVIOUS
<1>1. /\ \A i \in MultiRound!Contributions(t) : t[i].sender \in DOMAIN v.contributions
      /\ \A p \in DOMAIN v.contributions : Latest(t, p) = {v.contributions[p]}
      /\ IsFiniteSet(Contributed(v)) /\ IsFiniteSet(Changes(t)) /\ v.round = Cardinality(Changes(t))
  BY DEF RoundInv
<1>2. /\ t = <<>> => ~v.converged
      /\ t # <<>> => v.participants = MultiRound!Roster
      /\ v.converged <=> MultiRound!Converged(t)
  BY AgreedIs DEF RoundInv
<1>3. /\ Len(t) \in Nat /\ DOMAIN t = 1..Len(t) /\ DOMAIN u = 1..n /\ u[n] = e /\ n \notin DOMAIN t
      /\ \A i \in DOMAIN t : u[i] = t[i]
  BY DEF Grown
<1>4. u # <<>>
  BY <1>3
<1>5. /\ e.type = "SessionStart" <=> t = <<>>
      /\ e.type = "SessionStart" => e.value = MultiRound!Roster
      /\ e.type = "Contribute" => /\ e.sender \in MultiRound!Roster /\ e.value # MultiRound!Undecodable
                                  /\ ~MultiRound!Converged(t)
  BY DEF MultiRound!Conforming, MultiRound!MayContribute
<1>6. MultiRound!Contributions(u) = MultiRound!Contributions(t) \cup
                {i \in {n} : e.type = "Contribute" /\ e.value # MultiRound!Undecodable}
  BY <1>3 DEF MultiRound!Contributions
<1>7. \A i \in MultiRound!Contributions(t) : u[i] = t[i]
  BY <1>3 DEF MultiRound!Contributions
<1>8. CASE e.type # "Contribute"
  <2>1. /\ MultiRound!Contributions(u) = MultiRound!Contributions(t) /\ \A p : Latest(u, p) = Latest(t, p)
        /\ Changes(u) = Changes(t)
    <3>1. MultiRound!Contributions(u) = MultiRound!Contributions(t)
      BY <1>6, <1>8
    <3>2. \A p : Latest(u, p) = Latest(t, p)
      BY <1>8, LatestGrows
    <3>3. Changes(u) = Changes(t) \cup
                {i \in {Len(t) + 1} : e.type = "Contribute" /\ e.value # MultiRound!Undecodable
                                        /\ Latest(t, e.sender) # {e.value}}
      BY ChangesGrow
    <3>4. Changes(u) = Changes(t)
      BY <1>8, <3>3
    <3> QED BY <3>1, <3>2, <3>4
  <2>2. MultiRound!Converged(u) <=> MultiRound!Converged(t)
    <3>1. {u[i].value : i \in MultiRound!Contributions(u)} = {t[i].value : i \in MultiRound!Contributions(t)}
      BY <1>7, <2>1
    <3> QED BY <2>1, <3>1 DEF MultiRound!Converged, Latest
  <2>3. Frozen(v, w) /\ w.participants = MultiRound!Roster
    <3>1. CASE e.type = "SessionStart"
      BY <1>5, <3>1, StartWrites
    <3>2. CASE e.type = "Commitment"
      <4>1. w = [v EXCEPT !.commitment = e.subject, !.phase = "Committed"]
        BY <3>2 DEF MultiRound!Effect
      <4>2. Frozen(v, w) /\ w.participants = v.participants
        BY <4>1 DEF MultiRound!MultiRoundInit, MultiRound!MultiRoundSeeded, Frozen
      <4> QED BY <1>2, <1>5, <3>2, <4>2
    <3>3. CASE e.type \notin {"Commitment", "SessionStart", "Contribute"}
      <4>1. MultiRound!Effect(v, e) = MultiRound!MultiRoundStep(v, e)
        BY <3>3 DEF MultiRound!Effect
      <4>2. MultiRound!MultiRoundStep(v, e) = v
        BY <3>3, Zenon DEF MultiRound!MultiRoundStep
      <4> QED BY <1>2, <1>5, <3>3, <4>1, <4>2 DEF Frozen
    <3> QED BY <1>8, <3>1, <3>2, <3>3
  <2>4. w.contributions = v.contributions /\ w.round = v.round /\ (w.converged <=> v.converged)
    BY <2>3 DEF Frozen
  <2>5. Contributed(w) = Contributed(v)
    BY <2>4 DEF Contributed
  <2> QED BY <1>1, <1>2, <1>4, <1>7, <2>1, <2>2, <2>3, <2>4, <2>5, AgreedIs DEF RoundInv
<1>9. CASE e.type = "Contribute"
  <2>1. /\ v.participants = MultiRound!Roster /\ MultiRound!IsParticipant(v, e.sender)
        /\ e.value # MultiRound!Undecodable /\ ~v.converged
    BY <1>2, <1>5, <1>9 DEF MultiRound!IsParticipant
  <2>2. /\ w.participants = v.participants
        /\ w.converged <=> MultiRound!AllEqual(w)
        /\ \/ /\ e.sender \in DOMAIN v.contributions /\ v.contributions[e.sender] = e.value
              /\ w.contributions = v.contributions /\ w.round = v.round
           \/ /\ ~(e.sender \in DOMAIN v.contributions /\ v.contributions[e.sender] = e.value)
              /\ w.contributions = MultiRound!Put(v.contributions, e.sender, e.value) /\ w.round = v.round + 1
    BY <1>9, <2>1, ContributionWrites
  <2>3. \A p : Latest(u, p) = IF e.sender = p THEN {e.value} ELSE Latest(t, p)
    BY <1>9, <2>1, LatestGrows
  <2>4. /\ DOMAIN w.contributions = DOMAIN v.contributions \cup {e.sender}
        /\ w.contributions[e.sender] = e.value
        /\ \A p \in DOMAIN v.contributions : p # e.sender => w.contributions[p] = v.contributions[p]
    BY <2>2 DEF MultiRound!Put
  <2>5. \A i \in MultiRound!Contributions(u) : u[i].sender \in DOMAIN w.contributions
    BY <1>1, <1>3, <1>6, <1>7, <2>4
  <2>6. \A p \in DOMAIN w.contributions : Latest(u, p) = {w.contributions[p]}
    BY <1>1, <2>3, <2>4
  <2>7. IsFiniteSet(Contributed(w))
    <3>1. Contributed(w) \subseteq Contributed(v) \cup {e.value}
      BY <2>4 DEF Contributed
    <3> QED BY <1>1, <3>1, FS_AddElement, FS_Subset
  <2>8. w.converged <=> MultiRound!Converged(u)
    BY <2>1, <2>2, <2>5, <2>6, <2>7, ConvergenceIs
  <2>9. Latest(t, e.sender) = {e.value} <=>
            e.sender \in DOMAIN v.contributions /\ v.contributions[e.sender] = e.value
    <3>1. e.sender \notin DOMAIN v.contributions => Latest(t, e.sender) = {}
      BY <1>1 DEF Latest, MultiRound!LatestOf
    <3> QED BY <1>1, <3>1
  <2>10. IsFiniteSet(Changes(u)) /\ w.round = Cardinality(Changes(u))
    <3>1. n \notin Changes(t)
      BY <1>3 DEF Changes, MultiRound!Contributions
    <3>2. CASE Latest(t, e.sender) = {e.value}
      <4>1. Changes(u) = Changes(t)
        BY <3>2, ChangesGrow
      <4> QED BY <1>1, <2>2, <2>9, <3>2, <4>1
    <3>3. CASE Latest(t, e.sender) # {e.value}
      <4>1. Changes(u) = Changes(t) \cup {n}
        BY <1>9, <2>1, <3>3, ChangesGrow
      <4> QED BY <1>1, <2>2, <2>9, <3>1, <3>3, <4>1, OneMore
    <3> QED BY <3>2, <3>3
  <2> QED BY <1>4, <2>1, <2>2, <2>5, <2>6, <2>7, <2>8, <2>10, AgreedIs DEF RoundInv
<1> QED BY <1>8, <1>9

-----------------------------------------------------------------------------
\* Induction on the natural numbers, for a set instead of a predicate: were n the
\* first missing, k + 1 would take 0..n's members to those without 0, of which there
\* are fewer.
LEMMA Induction ==
    ASSUME NEW S, 0 \in S, \A k \in Nat : k \in S => k + 1 \in S
    PROVE  Nat \subseteq S
<1> SUFFICES ASSUME NEW n \in Nat, n \notin S PROVE FALSE
  OBVIOUS
<1> DEFINE K == {k \in 0..n : k \in S}
             f == [k \in K |-> k + 1]
<1>1. IsFiniteSet(K)
  <2>1. IsFiniteSet(0..n) /\ K \in SUBSET (0..n)
    BY FS_Interval
  <2> HIDE DEF K
  <2> QED BY <2>1, FS_Subset
<1>2. 0 \in K /\ Cardinality(K) \in Nat
  BY <1>1, FS_CardinalityType
<1>3. IsFiniteSet(K \ {0}) /\ Cardinality(K \ {0}) < Cardinality(K)
  <2> HIDE DEF K
  <2>1. IsFiniteSet(K \ {0}) /\ Cardinality(K \ {0}) = Cardinality(K) - 1
    BY <1>1, <1>2, FS_RemoveElement
  <2> QED BY <1>2, <2>1
<1>4. f \in [K -> K \ {0}]
  <2>1. ASSUME NEW k \in K PROVE k + 1 \in K \ {0}
    OBVIOUS
  <2> QED BY <2>1
<1>5. PICK x, y \in K : x # y /\ f[x] = f[y]
  <2> HIDE DEF K, f
  <2> QED BY <1>1, <1>3, <1>4, FS_PigeonHole
<1> QED BY <1>5

\* f holds what the first k envelopes of t leave of p, one by one.
Replays(f, p, t, k) == f = [n \in 0..k |-> IF n = 0 THEN p ELSE MultiRound!Apply(f[n - 1], t[n])]

\* A replay extends by one envelope, whatever comes after the ones it took.
LEMMA ReplayOneMore ==
    ASSUME NEW p, NEW t, NEW u, NEW k \in Nat, NEW f, Replays(f, p, t, k),
           \A i \in 1..k : u[i] = t[i]
    PROVE  \E g : Replays(g, p, u, k + 1) /\ g[k + 1] = MultiRound!Apply(f[k], u[k + 1])
<1> DEFINE g == [n \in 0..k + 1 |-> IF n = k + 1 THEN MultiRound!Apply(f[k], u[k + 1]) ELSE f[n]]
<1>1. g[k + 1] = MultiRound!Apply(f[k], u[k + 1]) /\ \A n \in 0..k : g[n] = f[n]
  OBVIOUS
<1>2. \A n \in 0..k : f[n] = IF n = 0 THEN p ELSE MultiRound!Apply(f[n - 1], t[n])
  BY DEF Replays
<1>3. ASSUME NEW n \in 0..k + 1
      PROVE  g[n] = IF n = 0 THEN p ELSE MultiRound!Apply(g[n - 1], u[n])
  <2>1. CASE n = k + 1
    <3>1. n # 0 /\ n - 1 = k /\ k \in 0..k
      BY <2>1
    <3> HIDE DEF g
    <3> QED BY <1>1, <2>1, <3>1
  <2>2. CASE n = 0
    <3>1. n \in 0..k
      BY <2>2
    <3> HIDE DEF g
    <3> QED BY <1>1, <1>2, <2>2, <3>1
  <2>3. CASE n \in 1..k
    <3>1. n \in 0..k /\ n - 1 \in 0..k /\ n # 0
      BY <2>3
    <3> HIDE DEF g
    <3> QED BY <1>1, <1>2, <2>3, <3>1
  <2> QED BY <2>1, <2>2, <2>3
<1>4. Replays(g, p, u, k + 1)
  <2>1. g = [n \in 0..k + 1 |-> g[n]]
    OBVIOUS
  <2> HIDE DEF g
  <2>2. [n \in 0..k + 1 |-> g[n]] = [n \in 0..k + 1 |-> IF n = 0 THEN p ELSE MultiRound!Apply(g[n - 1], u[n])]
    BY <1>3
  <2> QED BY <2>1, <2>2 DEF Replays
<1> QED BY <1>1, <1>4

\* Any sequence can be replayed, one envelope after the other.
LEMMA ReplayExists ==
    ASSUME NEW p, NEW t, NEW k \in Nat
    PROVE  \E f : Replays(f, p, t, k)
<1> DEFINE S == {n \in Nat : \E f : Replays(f, p, t, n)}
<1>1. 0 \in S
  <2>1. PICK f : f = [n \in 0..0 |-> p]
    OBVIOUS
  <2>2. f = [n \in 0..0 |-> IF n = 0 THEN p ELSE MultiRound!Apply(f[n - 1], t[n])]
    BY <2>1
  <2> QED BY <2>2 DEF Replays
<1>2. ASSUME NEW n \in Nat, n \in S PROVE n + 1 \in S
  <2>1. PICK f : Replays(f, p, t, n)
    BY <1>2
  <2> QED BY <2>1, ReplayOneMore
<1> HIDE DEF S
<1>3. Nat \subseteq S
  BY <1>1, <1>2, Induction
<1> QED BY <1>3 DEF S

\* And in one way only.
LEMMA ReplayUnique ==
    ASSUME NEW p, NEW t, NEW k \in Nat, NEW f, Replays(f, p, t, k), NEW g, Replays(g, p, t, k)
    PROVE  f = g
<1> DEFINE S == {n \in Nat : n <= k => f[n] = g[n]}
<1>0. /\ \A n \in 0..k : f[n] = IF n = 0 THEN p ELSE MultiRound!Apply(f[n - 1], t[n])
      /\ \A n \in 0..k : g[n] = IF n = 0 THEN p ELSE MultiRound!Apply(g[n - 1], t[n])
  BY DEF Replays
<1>1. 0 \in S
  BY <1>0
<1>2. ASSUME NEW n \in Nat, n \in S PROVE n + 1 \in S
  <2> SUFFICES ASSUME n + 1 <= k PROVE f[n + 1] = g[n + 1]
    OBVIOUS
  <2>1. n + 1 \in 0..k /\ n + 1 # 0 /\ (n + 1) - 1 = n /\ f[n] = g[n]
    BY <1>2
  <2> QED BY <1>0, <2>1
<1>3. Nat \subseteq S
  <2> HIDE DEF S
  <2> QED BY <1>1, <1>2, Induction
<1>4. \A n \in 0..k : f[n] = g[n]
  BY <1>3
<1>5. f = [n \in 0..k |-> f[n]] /\ g = [n \in 0..k |-> g[n]]
  BY DEF Replays
<1> QED BY <1>4, <1>5

\* The recursive function of Replay is the one that replays the sequence.
LEMMA ReplayIs ==
    ASSUME NEW p, NEW t, Len(t) \in Nat, NEW f, Replays(f, p, t, Len(t))
    PROVE  MultiRound!Replay(p, t) = f[Len(t)]
<1>1. PICK g : g = (CHOOSE h : Replays(h, p, t, Len(t)))
  OBVIOUS
<1>2. MultiRound!Replay(p, t) = g[Len(t)]
  BY <1>1 DEF MultiRound!Replay, Replays
<1>3. Replays(g, p, t, Len(t))
  BY <1>1
<1> QED BY <1>2, <1>3, ReplayUnique

\* Replaying nothing changes nothing.
LEMMA ReplayNothing ==
    ASSUME NEW p PROVE MultiRound!Replay(p, <<>>) = p
<1>1. PICK f : Replays(f, p, <<>>, 0)
  BY ReplayExists
<1>2. f[0] = p
  BY <1>1 DEF Replays
<1>3. Len(<<>>) = 0 /\ 0 \in Nat
  OBVIOUS
<1> QED BY <1>1, <1>2, <1>3, ReplayIs

\* One envelope more is one apply more.
LEMMA ReplayAppend ==
    ASSUME NEW p, NEW t, Len(t) \in Nat, NEW u, NEW e, Len(u) = Len(t) + 1, u[Len(t) + 1] = e,
           \A i \in 1..Len(t) : u[i] = t[i]
    PROVE  MultiRound!Replay(p, u) = MultiRound!Apply(MultiRound!Replay(p, t), e)
<1>1. PICK f : Replays(f, p, t, Len(t))
  BY ReplayExists
<1>2. PICK g : Replays(g, p, u, Len(t) + 1) /\ g[Len(t) + 1] = MultiRound!Apply(f[Len(t)], u[Len(t) + 1])
  BY <1>1, ReplayOneMore
<1>3. MultiRound!Replay(p, t) = f[Len(t)]
  BY <1>1, ReplayIs
<1>4. MultiRound!Replay(p, u) = g[Len(u)]
  BY <1>2, ReplayIs
<1> QED BY <1>2, <1>3, <1>4

-----------------------------------------------------------------------------
\* Multi-round: a projection p that joined late, seeded with the roster R, beside one with
\* the view v that saw all of t.  It knows no message of its own, and no contribution that
\* is not its sender's latest.
JoinerInv(R, t, v, p) ==
    /\ DOMAIN p.view = DOMAIN MultiRound!MultiRoundInit /\ p.view.participants = R
    /\ \A x \in p.seen : \E i \in DOMAIN t : t[i].id = x
    /\ \A s \in DOMAIN p.view.contributions :
            s \in DOMAIN v.contributions /\ p.view.contributions[s] = v.contributions[s]
    /\ p.view.converged => v.converged /\ p.view.agreed = v.agreed
Joined(R) == MultiRound!Fresh(MultiRound!MultiRoundSeeded(R, Initiator))
Suffix(t, k) == SubSeq(t, k + 1, Len(t))

\* What a projection of another message than a contribution keeps.
LEMMA OtherMessages ==
    ASSUME NEW v, DOMAIN v = DOMAIN MultiRound!MultiRoundInit,
           NEW e, e.type \notin {"SessionStart", "Contribute"}, NEW w, w = MultiRound!Effect(v, e)
    PROVE  DOMAIN w = DOMAIN v /\ Frozen(v, w) /\ w.participants = v.participants
<1>1. CASE e.type = "Commitment"
  <2>1. w = [v EXCEPT !.commitment = e.subject, !.phase = "Committed"]
    BY <1>1 DEF MultiRound!Effect
  <2> QED BY <2>1 DEF MultiRound!MultiRoundInit, MultiRound!MultiRoundSeeded, Frozen
<1>2. CASE e.type # "Commitment"
  <2>1. MultiRound!Effect(v, e) = MultiRound!MultiRoundStep(v, e)
    BY <1>2 DEF MultiRound!Effect
  <2>2. MultiRound!MultiRoundStep(v, e) = v
    BY Zenon DEF MultiRound!MultiRoundStep
  <2> QED BY <2>1, <2>2 DEF Frozen
<1> QED BY <1>1, <1>2

\* Contributions that agree where the joiner has any still do after one that counts.
LEMMA JoinerContributes ==
    ASSUME NEW f, NEW g, NEW s, NEW x,
           \A p \in DOMAIN g : p \in DOMAIN f /\ g[p] = f[p],
           NEW f1, f1 = MultiRound!Put(f, s, x) \/ (s \in DOMAIN f /\ f[s] = x /\ f1 = f),
           NEW g1, g1 = MultiRound!Put(g, s, x) \/ (s \in DOMAIN g /\ g[s] = x /\ g1 = g)
    PROVE  \A p \in DOMAIN g1 : p \in DOMAIN f1 /\ g1[p] = f1[p]
<1>1. /\ DOMAIN f1 = DOMAIN f \cup {s} /\ f1[s] = x
      /\ \A p \in DOMAIN f : p # s => f1[p] = f[p]
  BY DEF MultiRound!Put
<1>2. /\ DOMAIN g1 = DOMAIN g \cup {s} /\ g1[s] = x
      /\ \A p \in DOMAIN g : p # s => g1[p] = g[p]
  BY DEF MultiRound!Put
<1> QED BY <1>1, <1>2

\* A joiner that sees all of them equal sees the same values as the one that saw all.
LEMMA JoinerSeesEqual ==
    ASSUME NEW R, NEW w, NEW y, w.participants = R, y.participants = R,
           \A p \in DOMAIN y.contributions :
                p \in DOMAIN w.contributions /\ y.contributions[p] = w.contributions[p],
           MultiRound!AllEqual(y)
    PROVE  MultiRound!AllEqual(w) /\ MultiRound!Values(w) = MultiRound!Values(y)
<1>1. R # {} /\ R \subseteq DOMAIN y.contributions /\ R \subseteq DOMAIN w.contributions
  BY DEF MultiRound!AllEqual
<1>2. MultiRound!Values(y) = {y.contributions[p] : p \in R} /\ MultiRound!Values(w) = {w.contributions[p] : p \in R}
  BY <1>1 DEF MultiRound!Values
<1>3. \A p \in R : y.contributions[p] = w.contributions[p]
  BY <1>1
<1>4. MultiRound!Values(w) = MultiRound!Values(y)
  BY <1>2, <1>3
<1> QED BY <1>1, <1>4 DEF MultiRound!AllEqual

\* An envelope the runtime accepted is new to the joiner too, and keeps the two together.
LEMMA JoinerKeeps ==
    ASSUME NEW t, t # <<>>, NEW v, DOMAIN v = DOMAIN MultiRound!MultiRoundInit,
           RoundInv(MultiRound!Roster, t, v), NEW p, JoinerInv(MultiRound!Roster, t, v, p),
           NEW e, MultiRound!Conforming(t, e), NEW u, Grown(t, e, u),
           NEW w, w = MultiRound!Effect(v, e), NEW q, q = MultiRound!Apply(p, e)
    PROVE  JoinerInv(MultiRound!Roster, u, w, q)
<1> PICK R : R = MultiRound!Roster
  OBVIOUS
<1> PICK j : j = p.view
  OBVIOUS
<1> PICK y : y = q.view
  OBVIOUS
<1>1. /\ DOMAIN j = DOMAIN MultiRound!MultiRoundInit /\ j.participants = R /\ v.participants = R
      /\ \A x \in p.seen : \E i \in DOMAIN t : t[i].id = x
      /\ \A s \in DOMAIN j.contributions : s \in DOMAIN v.contributions /\ j.contributions[s] = v.contributions[s]
      /\ j.converged => v.converged /\ j.agreed = v.agreed
  BY DEF JoinerInv, RoundInv
<1>2. /\ e.mode = MultiRound!MultiRoundMode /\ \A i \in DOMAIN t : t[i].id # e.id
      /\ e.type # "SessionStart"
      /\ e.type = "Contribute" => e.sender \in R /\ e.value # MultiRound!Undecodable /\ ~MultiRound!Converged(t)
  BY DEF MultiRound!Conforming, MultiRound!MayContribute
<1>3. q = MultiRound!WithEffect(MultiRound!Enter(p, e), e)
  <2>1. ~MultiRound!Ignored(p, e)
    BY <1>1, <1>2 DEF MultiRound!Ignored, MultiRound!Redelivered
  <2> QED BY <2>1 DEF MultiRound!Apply
<1>4. y = MultiRound!Effect(j, e) /\ q.seen = p.seen \cup ({e.id} \ {NoId})
  BY <1>3 DEF MultiRound!WithEffect, MultiRound!Enter
<1>5. \A x \in q.seen : \E i \in DOMAIN u : u[i].id = x
  <2>1. /\ Len(t) \in Nat /\ DOMAIN t = 1..Len(t) /\ DOMAIN u = 1..Len(t) + 1 /\ u[Len(t) + 1] = e
        /\ \A i \in DOMAIN t : u[i] = t[i]
    BY DEF Grown
  <2>2. Len(t) + 1 \in DOMAIN u /\ DOMAIN t \subseteq DOMAIN u
    BY <2>1
  <2> QED BY <1>1, <1>4, <2>1, <2>2
<1>6. CASE e.type # "Contribute"
  <2>1. DOMAIN y = DOMAIN j /\ Frozen(j, y) /\ y.participants = R
    BY <1>1, <1>2, <1>4, <1>6, OtherMessages
  <2>2. Frozen(v, w)
    BY <1>2, <1>6, OtherMessages
  <2> QED BY <1>1, <1>5, <2>1, <2>2 DEF JoinerInv, Frozen
<1>7. CASE e.type = "Contribute"
  <2>1. ~v.converged /\ ~j.converged
    BY <1>1, <1>2, <1>7, AgreedIs DEF RoundInv
  <2>2. MultiRound!IsParticipant(v, e.sender) /\ MultiRound!IsParticipant(j, e.sender)
    BY <1>1, <1>2, <1>7 DEF MultiRound!IsParticipant
  <2>3. /\ w.participants = R
        /\ w.converged <=> MultiRound!AllEqual(w)
        /\ w.converged => w.agreed = CHOOSE x \in MultiRound!Values(w) : TRUE
        /\ \/ e.sender \in DOMAIN v.contributions /\ v.contributions[e.sender] = e.value
                /\ w.contributions = v.contributions
           \/ w.contributions = MultiRound!Put(v.contributions, e.sender, e.value)
    BY <1>1, <1>2, <1>7, <2>1, <2>2, ContributionWrites
  <2>4. /\ y.participants = R
        /\ y.converged <=> MultiRound!AllEqual(y)
        /\ y.converged => y.agreed = CHOOSE x \in MultiRound!Values(y) : TRUE
        /\ \/ e.sender \in DOMAIN j.contributions /\ j.contributions[e.sender] = e.value
                /\ y.contributions = j.contributions
           \/ y.contributions = MultiRound!Put(j.contributions, e.sender, e.value)
    BY <1>1, <1>2, <1>4, <1>7, <2>1, <2>2, ContributionWrites
  <2>5. \A s \in DOMAIN y.contributions : s \in DOMAIN w.contributions /\ y.contributions[s] = w.contributions[s]
    <3> PICK f : f = v.contributions
      OBVIOUS
    <3> PICK g : g = j.contributions
      OBVIOUS
    <3> PICK f1 : f1 = w.contributions
      OBVIOUS
    <3> PICK g1 : g1 = y.contributions
      OBVIOUS
    <3> PICK x : x = e.value
      OBVIOUS
    <3> PICK c : c = e.sender
      OBVIOUS
    <3>1. /\ \A s \in DOMAIN g : s \in DOMAIN f /\ g[s] = f[s]
          /\ f1 = MultiRound!Put(f, c, x) \/ (c \in DOMAIN f /\ f[c] = x /\ f1 = f)
          /\ g1 = MultiRound!Put(g, c, x) \/ (c \in DOMAIN g /\ g[c] = x /\ g1 = g)
      <4>1. \A s \in DOMAIN g : s \in DOMAIN f /\ g[s] = f[s]
        BY <1>1
      <4>2. f1 = MultiRound!Put(f, c, x) \/ (c \in DOMAIN f /\ f[c] = x /\ f1 = f)
        BY <2>3
      <4>3. g1 = MultiRound!Put(g, c, x) \/ (c \in DOMAIN g /\ g[c] = x /\ g1 = g)
        BY <2>4
      <4> QED BY <4>1, <4>2, <4>3
    <3>2. \A s \in DOMAIN g1 : s \in DOMAIN f1 /\ g1[s] = f1[s]
      BY ONLY <3>1, JoinerContributes
    <3> QED BY <3>2
  <2>6. y.converged => w.converged /\ y.agreed = w.agreed
    <3>1. ASSUME MultiRound!AllEqual(y)
          PROVE  MultiRound!AllEqual(w) /\ MultiRound!Values(w) = MultiRound!Values(y)
      <4>1. w.participants = R /\ y.participants = R
        BY <2>3, <2>4
      <4> QED BY ONLY <2>5, <3>1, <4>1, JoinerSeesEqual
    <3> QED BY <2>3, <2>4, <3>1
  <2>7. DOMAIN y = DOMAIN MultiRound!MultiRoundInit
    BY <1>1, <1>4, MultiRoundKeeps
  <2> QED BY <1>5, <2>4, <2>5, <2>6, <2>7 DEF JoinerInv
<1> QED BY <1>6, <1>7

\* Who has just joined knows nothing.
LEMMA JoinerStarts ==
    ASSUME NEW R, NEW t, NEW v
    PROVE  JoinerInv(R, t, v, Joined(R))
<1>1. DOMAIN <<>> = {}
  OBVIOUS
<1> QED BY <1>1 DEF JoinerInv, Joined, MultiRound!Fresh, MultiRound!MultiRoundSeeded, MultiRound!MultiRoundInit

\* What is left of a sequence after its first k grows with it.
LEMMA SuffixGrows ==
    ASSUME NEW t, NEW e, NEW u, Grown(t, e, u), NEW k \in 1..Len(u), NEW s, s = Suffix(t, k), NEW r, r = Suffix(u, k)
    PROVE  /\ k = Len(u) => r = <<>>
           /\ k \in DOMAIN t => /\ Len(s) \in Nat /\ Len(r) = Len(s) + 1 /\ r[Len(s) + 1] = e
                                /\ \A i \in 1..Len(s) : r[i] = s[i]
<1> PICK n : n = Len(t)
  OBVIOUS
<1>1. /\ n \in Nat /\ DOMAIN t = 1..n /\ Len(u) = n + 1 /\ DOMAIN u = 1..n + 1
      /\ u[n + 1] = e /\ \A i \in 1..n : u[i] = t[i]
  BY DEF Grown
<1>2. PICK S : S = {t[i] : i \in 1..n} \cup {e}
  OBVIOUS
<1>3. r = SubSeq(u, k + 1, n + 1) /\ s = SubSeq(t, k + 1, n)
  BY <1>1 DEF Suffix
<1>4. CASE k = Len(u)
  <2>1. SubSeq(u, k + 1, n + 1) = <<>>
    BY <1>1, <1>4, SubSeqEmpty
  <2> QED BY <1>1, <1>3, <1>4, <2>1
<1>5. CASE k \in 1..n
  <2>1. /\ Len(r) = IF k + 1 <= n + 1 THEN n + 1 - (k + 1) + 1 ELSE 0
        /\ \A i \in 1..n + 1 - (k + 1) + 1 : r[i] = u[k + 1 + i - 1]
    <3>1. \A i \in k + 1..n + 1 : u[i] \in S
      BY <1>1, <1>2, <1>5
    <3> QED BY <1>1, <1>3, <1>5, <3>1, SubSeqProperties
  <2>2. /\ Len(s) = IF k + 1 <= n THEN n - (k + 1) + 1 ELSE 0
        /\ \A i \in 1..n - (k + 1) + 1 : s[i] = t[k + 1 + i - 1]
    <3>1. \A i \in k + 1..n : t[i] \in S
      BY <1>1, <1>2, <1>5
    <3> QED BY <1>1, <1>3, <1>5, <3>1, SubSeqProperties
  <2>3. Len(s) = n - k /\ Len(r) = n - k + 1
    BY <1>1, <1>5, <2>1, <2>2
  <2>4. \A i \in 1..n - k : r[i] = u[k + i] /\ s[i] = t[k + i] /\ k + i \in 1..n
    BY <1>1, <1>5, <2>1, <2>2
  <2>5. r[n - k + 1] = u[n + 1]
    BY <1>1, <1>5, <2>1
  <2> QED BY <1>1, <1>5, <2>3, <2>4, <2>5
<1> QED BY <1>1, <1>4, <1>5

JoinersInv(R, t, v) == \A k \in DOMAIN t : JoinerInv(R, t, v, MultiRound!Replay(Joined(R), Suffix(t, k)))

LEMMA JoinersKeep ==
    ASSUME NEW t, NEW v, DOMAIN v = DOMAIN MultiRound!MultiRoundInit,
           RoundInv(MultiRound!Roster, t, v), JoinersInv(MultiRound!Roster, t, v),
           NEW e, MultiRound!Conforming(t, e), NEW u, Grown(t, e, u), NEW w, w = MultiRound!Effect(v, e)
    PROVE  JoinersInv(MultiRound!Roster, u, w)
<1> PICK R : R = MultiRound!Roster
  OBVIOUS
<1>0. Len(t) \in Nat /\ DOMAIN t = 1..Len(t) /\ Len(u) = Len(t) + 1 /\ DOMAIN u = 1..Len(t) + 1
  BY DEF Grown
<1> SUFFICES ASSUME NEW k \in DOMAIN u
             PROVE  JoinerInv(R, u, w, MultiRound!Replay(Joined(R), Suffix(u, k)))
  BY DEF JoinersInv
<1> PICK s : s = Suffix(t, k)
  OBVIOUS
<1> PICK r : r = Suffix(u, k)
  OBVIOUS
<1>1. CASE k = Len(u)
  <2>1. r = <<>>
    BY <1>0, <1>1, SuffixGrows
  <2> QED BY <2>1, ReplayNothing, JoinerStarts
<1>2. CASE k \in DOMAIN t
  <2>1. Len(s) \in Nat /\ Len(r) = Len(s) + 1 /\ r[Len(s) + 1] = e /\ \A i \in 1..Len(s) : r[i] = s[i]
    BY <1>0, <1>2, SuffixGrows
  <2>2. PICK p : p = MultiRound!Replay(Joined(R), s)
    OBVIOUS
  <2>3. PICK q : q = MultiRound!Replay(Joined(R), r)
    OBVIOUS
  <2>4. q = MultiRound!Apply(p, e)
    BY <2>1, <2>2, <2>3, ReplayAppend
  <2>5. JoinerInv(R, t, v, p) /\ t # <<>>
    BY <1>0, <1>2, <2>2 DEF JoinersInv
  <2>6. JoinerInv(R, u, w, q)
    BY <2>4, <2>5, JoinerKeeps
  <2> QED BY <2>3, <2>6
<1> QED BY <1>0, <1>1, <1>2

-----------------------------------------------------------------------------
\* Task.  When accepts and rejects are about the session's task and rejects about their
\* sender, who has declined and who holds the slot is what the history says.
OwnWords(t) ==
    \A i \in DOMAIN t :
        /\ t[i].type \in {"TaskAccept", "TaskReject"} => t[i].subject = t[1].subject
        /\ t[i].type = "TaskReject" => t[i].value \in {"", t[i].sender}
Declined(v, p) == \E i \in DOMAIN v.rejections : v.rejections[i].assignee = p
Working(v, k) == v.tasks[k].status \in {"accepted", "in_progress"}
WorkInv(t, v) ==
    /\ Sequence(v.rejections)
    /\ t = <<>> => DOMAIN v.tasks = {} /\ v.slot = Task!Free
    /\ t # <<>> => DOMAIN v.tasks = {t[1].subject} /\ v.tasks[t[1].subject].requested = t[1].value
    /\ \A p : Declined(v, p) <=> Task!Rejected(t, p)
    /\ \A p : Task!Holds(t, p) <=> v.slot # Task!Free /\ v.slot.sender = p
    /\ v.slot = Task!Free => \A k \in DOMAIN v.tasks : ~Working(v, k)

\* What a step does to what is asked, who has declined and who works.
LEMMA PhaseLeavesWork ==
    ASSUME NEW v, DOMAIN v = DOMAIN Task!TaskInit, NEW phase, NEW w, w = Task!SetPhase(v, phase)
    PROVE  w.rejections = v.rejections /\ w.tasks = v.tasks
BY DEF Task!SetPhase, Task!TaskInit

LEMMA RequestWrites ==
    ASSUME NEW v, SlotInv(v), NEW e, e.type = "TaskRequest", NEW w, w = Task!Effect(v, e)
    PROVE  /\ w.rejections = v.rejections
           /\ w.tasks[e.subject].requested = e.value /\ ~Working(w, e.subject)
<1>1. w = Task!OnTaskRequest(v, e)
  BY DEF Task!Effect, Task!TaskStep
<1>2. PICK x : x = Task!NewTask(e)
  OBVIOUS
<1>3. PICK u : u = [v EXCEPT !.tasks = Task!Put(@, e.subject, x), !.slot = IF @.task = e.subject THEN Task!Free ELSE @]
  OBVIOUS
<1>4. w = Task!SetPhase(u, "Requested")
  BY <1>1, <1>2, <1>3 DEF Task!OnTaskRequest
<1>5. DOMAIN u = DOMAIN v /\ u.tasks = Task!Put(v.tasks, e.subject, x) /\ u.rejections = v.rejections
  BY <1>3 DEF SlotInv, Task!TaskInit
<1>6. w.tasks = u.tasks /\ w.rejections = u.rejections
  BY <1>4, <1>5, PhaseLeavesWork DEF SlotInv
<1>7. u.tasks[e.subject] = x
  BY <1>5 DEF Task!Put
<1>8. x.requested = e.value /\ x.status = "requested"
  BY <1>2 DEF Task!NewTask
<1> QED BY <1>5, <1>6, <1>7, <1>8 DEF Working

LEMMA AcceptWrites ==
    ASSUME NEW v, SlotInv(v), NEW e, e.type = "TaskAccept", NEW w, w = Task!Effect(v, e)
    PROVE  /\ w.rejections = v.rejections
           /\ \A k \in DOMAIN v.tasks : w.tasks[k].requested = v.tasks[k].requested
           /\ v.slot = Task!Free /\ e.subject \in DOMAIN v.tasks =>
                w.slot = [sender |-> e.sender, task |-> e.subject]
<1>1. w = Task!OnTaskAccept(v, e)
  BY DEF Task!Effect, Task!TaskStep
<1>2. CASE ~Task!Known(v, e)
  BY <1>1, <1>2 DEF Task!OnTaskAccept, Task!Known
<1>3. CASE Task!Known(v, e) /\ v.slot # Task!Free
  <2>1. w = [v EXCEPT !.anomalies = Append(@, Discarded("duplicate_task_accept", e))]
    BY <1>1, <1>3 DEF Task!OnTaskAccept, Task!RecordAnomaly, Discarded
  <2> QED BY <1>3, <2>1 DEF SlotInv, Task!TaskInit
<1>4. CASE Task!Known(v, e) /\ v.slot = Task!Free
  <2>1. PICK a : a = Task!About(e)
    OBVIOUS
  <2>2. PICK x : x = [sender |-> e.sender, task |-> e.subject]
    OBVIOUS
  <2>3. PICK u : u = [v EXCEPT !.slot = x, !.tasks[e.subject].assignee = a, !.tasks[e.subject].status = "accepted"]
    OBVIOUS
  <2>4. w = Task!SetPhase(u, "InProgress")
    BY <1>1, <1>4, <2>1, <2>2, <2>3 DEF Task!OnTaskAccept
  <2>5. e.subject \in DOMAIN v.tasks /\ DOMAIN v.tasks[e.subject] = TaskFields /\ DOMAIN v = DOMAIN Task!TaskInit
    BY <1>4 DEF Task!Known, SlotInv
  <2>6. /\ DOMAIN u = DOMAIN v /\ u.slot = x /\ u.rejections = v.rejections
        /\ \A k \in DOMAIN v.tasks : u.tasks[k].requested = v.tasks[k].requested
    BY <2>3, <2>5 DEF Task!TaskInit, TaskFields
  <2>7. w.tasks = u.tasks /\ w.slot = u.slot /\ w.rejections = u.rejections
    BY <2>4, <2>5, <2>6, TaskPhase, PhaseLeavesWork
  <2> QED BY <2>2, <2>6, <2>7
<1> QED BY <1>2, <1>3, <1>4

LEMMA RejectWrites ==
    ASSUME NEW v, SlotInv(v), NEW e, e.type = "TaskReject", NEW w, w = Task!Effect(v, e)
    PROVE  /\ \E x : x.assignee = Task!About(e) /\ w.rejections = Append(v.rejections, x)
           /\ \A k \in DOMAIN v.tasks : w.tasks[k].requested = v.tasks[k].requested
           /\ \/ v.slot # Task!Free /\ v.slot.sender = e.sender /\ w.slot = Task!Free
                    /\ (e.subject \in DOMAIN v.tasks => ~Working(w, e.subject))
              \/ ~(v.slot # Task!Free /\ v.slot.sender = e.sender) /\ w.slot = v.slot /\ w.tasks = v.tasks
<1>1. w = Task!OnTaskReject(v, e)
  BY DEF Task!Effect, Task!TaskStep
<1>2. PICK held : held = (v.slot # Task!Free /\ v.slot.sender = e.sender)
  OBVIOUS
<1>3. PICK marked : marked = IF held /\ Task!Known(v, e) THEN [v.tasks EXCEPT ![e.subject].status = "rejected"] ELSE v.tasks
  OBVIOUS
<1>4. PICK x : x = Task!Rejection(v, e, held)
  OBVIOUS
<1>5. PICK y : y = IF held THEN [marked EXCEPT ![v.slot.task].assignee = Task!Unassigned] ELSE marked
  OBVIOUS
<1>6. w = [v EXCEPT !.rejections = Append(@, x), !.slot = IF held THEN Task!Free ELSE @, !.tasks = y]
  BY <1>1, <1>2, <1>3, <1>4, <1>5 DEF Task!OnTaskReject
<1>7. w.rejections = Append(v.rejections, x) /\ w.slot = (IF held THEN Task!Free ELSE v.slot) /\ w.tasks = y
  BY <1>6 DEF SlotInv, Task!TaskInit
<1>8. x.assignee = Task!About(e)
  BY <1>4 DEF Task!Rejection
<1>9. CASE held
  <2>1. /\ DOMAIN marked = DOMAIN v.tasks
        /\ \A k \in DOMAIN v.tasks : DOMAIN marked[k] = TaskFields /\ marked[k].requested = v.tasks[k].requested
        /\ e.subject \in DOMAIN v.tasks => marked[e.subject].status = "rejected"
    BY <1>3, <1>9 DEF SlotInv, TaskFields, Task!Known
  <2>2. y = [marked EXCEPT ![v.slot.task].assignee = Task!Unassigned]
    BY <1>5, <1>9
  <2>3. \A k \in DOMAIN v.tasks : y[k].requested = marked[k].requested /\ y[k].status = marked[k].status
    BY <2>1, <2>2 DEF TaskFields
  <2> QED BY <1>2, <1>7, <1>8, <1>9, <2>1, <2>3 DEF Working
<1>10. CASE ~held
  BY <1>2, <1>3, <1>5, <1>7, <1>8, <1>10
<1> QED BY <1>9, <1>10

LEMMA ReportWrites ==
    ASSUME NEW v, SlotInv(v), NEW e, e.type \notin {"TaskRequest", "TaskAccept", "TaskReject"},
           NEW w, w = Task!Effect(v, e)
    PROVE  /\ w.rejections = v.rejections
           /\ \A k \in DOMAIN v.tasks : w.tasks[k].requested = v.tasks[k].requested
           /\ e.type \notin {"TaskUpdate", "TaskComplete", "TaskFail"} => w.tasks = v.tasks
<1>1. DOMAIN v = DOMAIN Task!TaskInit /\ \A k \in DOMAIN v.tasks : DOMAIN v.tasks[k] = TaskFields
  BY DEF SlotInv
<1>2. CASE e.type = "Commitment"
  <2>1. w = [v EXCEPT !.commitment = e.subject, !.phase = "Committed"]
    BY <1>2 DEF Task!Effect
  <2> QED BY <1>1, <2>1 DEF Task!TaskInit
<1>3. CASE e.type = "TaskUpdate"
  <2>1. w = Task!OnTaskUpdate(v, e)
    BY <1>3 DEF Task!Effect, Task!TaskStep
  <2>2. PICK x : x = [task |-> e.subject, progress |-> e.value]
    OBVIOUS
  <2>3. PICK u : u = [v EXCEPT !.updates = Append(@, x)]
    OBVIOUS
  <2>4. DOMAIN u = DOMAIN v /\ u.tasks = v.tasks /\ u.rejections = v.rejections
    BY <1>1, <2>3 DEF Task!TaskInit
  <2>5. CASE ~Task!Known(v, e)
    BY <1>3, <2>1, <2>2, <2>3, <2>4, <2>5 DEF Task!OnTaskUpdate
  <2>6. CASE Task!Known(v, e)
    <3>1. w = [u EXCEPT !.tasks[e.subject].status = "in_progress", !.tasks[e.subject].progress = e.value]
      BY <2>1, <2>2, <2>3, <2>6 DEF Task!OnTaskUpdate
    <3> QED BY <1>1, <1>3, <2>4, <2>6, <3>1 DEF Task!TaskInit, TaskFields, Task!Known
  <2> QED BY <2>5, <2>6
<1>4. CASE e.type = "TaskComplete"
  <2>1. w = Task!OnTaskComplete(v, e)
    BY <1>4 DEF Task!Effect, Task!TaskStep
  <2>2. PICK x : x = [task |-> e.subject, assignee |-> Task!About(e)]
    OBVIOUS
  <2>3. PICK u : u = [v EXCEPT !.completions = Append(@, x)]
    OBVIOUS
  <2>4. DOMAIN u = DOMAIN v /\ u.tasks = v.tasks /\ u.rejections = v.rejections
    BY <1>1, <2>3 DEF Task!TaskInit
  <2>5. CASE ~Task!Known(v, e)
    BY <1>4, <2>1, <2>2, <2>3, <2>4, <2>5 DEF Task!OnTaskComplete
  <2>6. CASE Task!Known(v, e)
    <3>1. PICK y : y = [u EXCEPT !.tasks[e.subject].status = "completed", !.tasks[e.subject].progress = 100]
      OBVIOUS
    <3>2. w = Task!SetPhase(y, "Completed")
      BY <2>1, <2>2, <2>3, <2>6, <3>1 DEF Task!OnTaskComplete
    <3>3. /\ DOMAIN y = DOMAIN v /\ y.rejections = v.rejections
          /\ \A k \in DOMAIN v.tasks : y.tasks[k].requested = v.tasks[k].requested
      BY <1>1, <2>4, <2>6, <3>1 DEF Task!TaskInit, TaskFields, Task!Known
    <3> QED BY <1>1, <1>4, <3>2, <3>3, PhaseLeavesWork
  <2> QED BY <2>5, <2>6
<1>5. CASE e.type = "TaskFail"
  <2>1. w = Task!OnTaskFail(v, e)
    BY <1>5 DEF Task!Effect, Task!TaskStep
  <2>2. PICK x : x = [task |-> e.subject, assignee |-> Task!About(e), retryable |-> e.flag]
    OBVIOUS
  <2>3. PICK u : u = [v EXCEPT !.failures = Append(@, x)]
    OBVIOUS
  <2>4. DOMAIN u = DOMAIN v /\ u.tasks = v.tasks /\ u.rejections = v.rejections
    BY <1>1, <2>3 DEF Task!TaskInit
  <2>5. CASE ~Task!Known(v, e)
    BY <1>5, <2>1, <2>2, <2>3, <2>4, <2>5 DEF Task!OnTaskFail
  <2>6. CASE Task!Known(v, e)
    <3>1. PICK y : y = [u EXCEPT !.tasks[e.subject].status = "failed"]
      OBVIOUS
    <3>2. w = Task!SetPhase(y, "Failed")
      BY <2>1, <2>2, <2>3, <2>6, <3>1 DEF Task!OnTaskFail
    <3>3. /\ DOMAIN y = DOMAIN v /\ y.rejections = v.rejections
          /\ \A k \in DOMAIN v.tasks : y.tasks[k].requested = v.tasks[k].requested
      BY <1>1, <2>4, <2>6, <3>1 DEF Task!TaskInit, TaskFields, Task!Known
    <3> QED BY <1>1, <1>5, <3>2, <3>3, PhaseLeavesWork
  <2> QED BY <2>5, <2>6
<1>6. CASE e.type \notin {"Commitment", "TaskUpdate", "TaskComplete", "TaskFail"}
  <2>1. Task!Effect(v, e) = Task!TaskStep(v, e)
    BY <1>6 DEF Task!Effect
  <2>2. Task!TaskStep(v, e) = v
    BY <1>6, Zenon DEF Task!TaskStep
  <2> QED BY <2>1, <2>2
<1> QED BY <1>2, <1>3, <1>4, <1>5, <1>6

\* What a new message does to who declined and who holds the slot, in the history.
LEMMA HoldsGrows ==
    ASSUME NEW t, NEW e, NEW u, Grown(t, e, u), NEW p
    PROVE  /\ Task!Rejected(u, p) <=> Task!Rejected(t, p) \/ (e.type = "TaskReject" /\ e.sender = p)
           /\ Task!Holds(u, p) <=>
                \/ e.type = "TaskAccept" /\ e.sender = p
                \/ Task!Holds(t, p) /\ ~(e.type = "TaskReject" /\ e.sender = p)
<1> PICK n : n = Len(t) + 1
  OBVIOUS
<1>1. /\ Len(t) \in Nat /\ n \in Nat /\ n = Len(t) + 1 /\ Len(u) = n
      /\ DOMAIN t = 1..Len(t) /\ DOMAIN u = 1..n /\ u[n] = e
      /\ \A i \in 1..Len(t) : u[i] = t[i]
  BY DEF Grown
<1>2. Task!Rejected(u, p) <=> Task!Rejected(t, p) \/ (e.type = "TaskReject" /\ e.sender = p)
  BY <1>1 DEF Task!Rejected
<1>3. ASSUME NEW i \in 1..n
      PROVE  (\A j \in i + 1..n : ~(u[j].type = "TaskReject" /\ u[j].sender = p)) <=>
                /\ i # n => ~(e.type = "TaskReject" /\ e.sender = p)
                /\ \A j \in i + 1..Len(t) : ~(t[j].type = "TaskReject" /\ t[j].sender = p)
  BY <1>1
<1>4. Task!Holds(u, p) <=> \E i \in 1..n :
            /\ u[i].type = "TaskAccept" /\ u[i].sender = p
            /\ i # n => ~(e.type = "TaskReject" /\ e.sender = p)
            /\ \A j \in i + 1..Len(t) : ~(t[j].type = "TaskReject" /\ t[j].sender = p)
  BY <1>1, <1>3 DEF Task!Holds
<1>5. Task!Holds(t, p) <=> \E i \in 1..Len(t) :
            /\ t[i].type = "TaskAccept" /\ t[i].sender = p
            /\ \A j \in i + 1..Len(t) : ~(t[j].type = "TaskReject" /\ t[j].sender = p)
  BY <1>1 DEF Task!Holds
<1>6. ASSUME Task!Holds(u, p)
      PROVE  \/ e.type = "TaskAccept" /\ e.sender = p
             \/ Task!Holds(t, p) /\ ~(e.type = "TaskReject" /\ e.sender = p)
  BY <1>1, <1>4, <1>5, <1>6
<1>7. ASSUME e.type = "TaskAccept", e.sender = p PROVE Task!Holds(u, p)
  <2>1. \A j \in n + 1..Len(t) : ~(t[j].type = "TaskReject" /\ t[j].sender = p)
    BY <1>1
  <2> QED BY <1>1, <1>4, <1>7, <2>1
<1>8. ASSUME Task!Holds(t, p), ~(e.type = "TaskReject" /\ e.sender = p) PROVE Task!Holds(u, p)
  BY <1>1, <1>4, <1>5, <1>8
<1> QED BY <1>2, <1>6, <1>7, <1>8

LEMMA WorkKeeps ==
    ASSUME NEW t, Sequence(t), NEW v, SlotInv(v), OwnWords(t) => WorkInv(t, v),
           NEW e, Task!Conforming(t, e), e.type = "TaskAccept" => Task!Unassigned # e.sender,
           NEW u, Grown(t, e, u), NEW w, w = Task!Effect(v, e)
    PROVE  OwnWords(u) => WorkInv(u, w)
<1> SUFFICES ASSUME OwnWords(u) PROVE WorkInv(u, w)
  OBVIOUS
<1>1. /\ Len(t) \in Nat /\ DOMAIN t = 1..Len(t) /\ Len(u) = Len(t) + 1 /\ DOMAIN u = 1..Len(t) + 1
      /\ u[Len(t) + 1] = e /\ u # <<>> /\ \A i \in DOMAIN t : u[i] = t[i]
  BY DEF Grown
<1>2. t = <<>> => DOMAIN t = {} /\ u[1] = e
  BY <1>1
<1>3. t # <<>> => u[1] = t[1] /\ 1 \in DOMAIN t
  BY <1>1 DEF Sequence
<1>4. WorkInv(t, v)
  <2>1. ASSUME NEW i \in DOMAIN t
        PROVE  /\ t[i].type \in {"TaskAccept", "TaskReject"} => t[i].subject = t[1].subject
               /\ t[i].type = "TaskReject" => t[i].value \in {"", t[i].sender}
    <3>1. i \in DOMAIN u /\ u[i] = t[i] /\ u[1] = t[1]
      BY <1>1, <2>1
    <3> QED BY <3>1 DEF OwnWords
  <2> QED BY <2>1 DEF OwnWords
<1>5. /\ e.type \in {"TaskAccept", "TaskReject"} => e.subject = u[1].subject
      /\ e.type = "TaskReject" => e.value \in {"", e.sender}
  <2>1. PICK n : n = Len(t) + 1
    OBVIOUS
  <2>2. n \in DOMAIN u /\ u[n] = e
    BY <1>1, <2>1
  <2> QED BY <2>2 DEF OwnWords
<1>6. \A p : Task!Rejected(u, p) <=> Task!Rejected(t, p) \/ (e.type = "TaskReject" /\ e.sender = p)
  BY HoldsGrows
<1>7. \A p : Task!Holds(u, p) <=>
                \/ e.type = "TaskAccept" /\ e.sender = p
                \/ Task!Holds(t, p) /\ ~(e.type = "TaskReject" /\ e.sender = p)
  BY HoldsGrows
<1>8. /\ e.type = "TaskRequest" <=> t = <<>>
      /\ e.type = "TaskAccept" => Task!MayAccept(t, e.sender)
      /\ e.type \in {"TaskUpdate", "TaskComplete", "TaskFail"} => Task!Holds(t, e.sender)
  BY DEF Task!Conforming
<1>9. CASE e.type = "TaskRequest"
  <2>1. DOMAIN v.tasks = {} /\ v.slot = Task!Free /\ u[1] = e
    BY <1>2, <1>4, <1>8, <1>9 DEF WorkInv
  <2>2. /\ DOMAIN w.tasks = {e.subject} /\ w.slot = Task!Free /\ w.rejections = v.rejections
        /\ w.tasks[e.subject].requested = e.value /\ ~Working(w, e.subject)
    BY <1>9, <2>1, TaskRequestEffect, RequestWrites
  <2>3. \A p : Declined(w, p) <=> Declined(v, p)
    BY <2>2 DEF Declined
  <2> QED BY <1>1, <1>4, <1>6, <1>7, <1>9, <2>1, <2>2, <2>3 DEF WorkInv
<1>10. CASE e.type = "TaskAccept"
  <2>1. t # <<>> /\ DOMAIN v.tasks = {t[1].subject} /\ e.subject = t[1].subject
    BY <1>3, <1>4, <1>5, <1>8, <1>10 DEF WorkInv
  <2>2. \A p : ~Task!Holds(t, p)
    <3>1. ~Task!Held(t)
      BY <1>8, <1>10 DEF Task!MayAccept
    <3>2. ASSUME NEW p, Task!Holds(t, p) PROVE Task!Held(t)
      <4>1. PICK i \in DOMAIN t : t[i].type = "TaskAccept" /\ t[i].sender = p
        BY <3>2 DEF Task!Holds
      <4> QED BY <3>2, <4>1 DEF Task!Held
    <3> QED BY <3>1, <3>2
  <2>3. v.slot = Task!Free
    <3>1. v.slot # Task!Free => Task!Holds(t, v.slot.sender)
      BY <1>4 DEF WorkInv
    <3> QED BY <2>2, <3>1
  <2>4. /\ w.slot = [sender |-> e.sender, task |-> e.subject] /\ w.rejections = v.rejections
        /\ DOMAIN w.tasks = DOMAIN v.tasks /\ \A k \in DOMAIN v.tasks : w.tasks[k].requested = v.tasks[k].requested
    BY <1>10, <2>1, <2>3, TaskAcceptEffect, AcceptWrites
  <2>5. w.slot # Task!Free /\ w.slot.sender = e.sender
    BY <1>10, <2>4 DEF Task!Free
  <2>6. \A p : Declined(w, p) <=> Declined(v, p)
    BY <2>4 DEF Declined
  <2>7. \A p : Task!Holds(u, p) <=> w.slot # Task!Free /\ w.slot.sender = p
    BY <1>7, <1>10, <2>2, <2>5
  <2> QED BY <1>1, <1>3, <1>4, <1>6, <1>10, <2>1, <2>4, <2>5, <2>6, <2>7 DEF WorkInv
<1>11. CASE e.type = "TaskReject"
  <2>1. t # <<>> /\ DOMAIN v.tasks = {t[1].subject} /\ e.subject = t[1].subject
    BY <1>3, <1>4, <1>5, <1>8, <1>11 DEF WorkInv
  <2>2. Task!About(e) = e.sender
    BY <1>5, <1>11 DEF Task!About
  <2>3. PICK x : x.assignee = e.sender /\ w.rejections = Append(v.rejections, x)
    BY <1>11, <2>2, RejectWrites
  <2>4. Sequence(v.rejections)
    BY <1>4 DEF WorkInv
  <2>5. Sequence(w.rejections) /\ Grown(v.rejections, x, w.rejections)
    BY <2>3, <2>4, AppendSequence
  <2>6. \A p : Declined(w, p) <=> Declined(v, p) \/ e.sender = p
    BY <2>3, <2>5 DEF Declined, Grown
  <2>7. /\ DOMAIN w.tasks = DOMAIN v.tasks /\ \A k \in DOMAIN v.tasks : w.tasks[k].requested = v.tasks[k].requested
        /\ \/ v.slot # Task!Free /\ v.slot.sender = e.sender /\ w.slot = Task!Free /\ ~Working(w, e.subject)
           \/ ~(v.slot # Task!Free /\ v.slot.sender = e.sender) /\ w.slot = v.slot /\ w.tasks = v.tasks
    BY <1>11, <2>1, TaskRejectEffect, RejectWrites
  <2>8. \A p : Task!Holds(u, p) <=> w.slot # Task!Free /\ w.slot.sender = p
    BY <1>4, <1>7, <1>11, <2>7 DEF WorkInv
  <2>9. w.slot = Task!Free => \A k \in DOMAIN w.tasks : ~Working(w, k)
    BY <1>4, <2>1, <2>7 DEF WorkInv, Working
  <2>10. \A p : Declined(w, p) <=> Task!Rejected(u, p)
    BY <1>4, <1>6, <1>11, <2>6 DEF WorkInv
  <2> QED BY <1>1, <1>3, <1>4, <2>1, <2>5, <2>7, <2>8, <2>9, <2>10 DEF WorkInv
<1>12. CASE e.type \notin {"TaskRequest", "TaskAccept", "TaskReject"}
  <2>1. t # <<>>
    BY <1>8, <1>12
  <2>2. /\ w.rejections = v.rejections /\ w.slot = v.slot /\ DOMAIN w.tasks = DOMAIN v.tasks
        /\ \A k \in DOMAIN v.tasks : w.tasks[k].requested = v.tasks[k].requested
        /\ e.type \notin {"TaskUpdate", "TaskComplete", "TaskFail"} => w.tasks = v.tasks
    BY <1>12, TaskOtherEffect, ReportWrites
  <2>3. \A p : Declined(w, p) <=> Declined(v, p)
    BY <2>2 DEF Declined
  <2>4. w.slot = Task!Free => \A k \in DOMAIN w.tasks : ~Working(w, k)
    <3>1. e.type \in {"TaskUpdate", "TaskComplete", "TaskFail"} => v.slot # Task!Free
      BY <1>4, <1>8 DEF WorkInv
    <3> QED BY <1>4, <2>2, <3>1 DEF WorkInv, Working
  <2>5. \A p : Task!Holds(u, p) <=> Task!Holds(t, p)
    BY <1>7, <1>12
  <2>6. \A p : Task!Rejected(u, p) <=> Task!Rejected(t, p)
    BY <1>6, <1>12
  <2> QED BY <1>1, <1>3, <1>4, <2>1, <2>2, <2>3, <2>4, <2>5, <2>6 DEF WorkInv
<1> QED BY <1>9, <1>10, <1>11, <1>12

-----------------------------------------------------------------------------
\* The verdict of a request, by its counts.
Approved(v, r) == Cardinality(Approvals(v, r))
VotedOn(v, r) == Cardinality(Quorum!VotedSenders(v, r))

LEMMA VerdictIs ==
    ASSUME NEW v, NEW r \in DOMAIN v.requests, NEW bar, bar = Quorum!Unsatisfiable \/ bar \in Nat \ {0}, NEW n
    PROVE  /\ Quorum!HasQuorum(v, r, bar) <=> bar # Quorum!Unsatisfiable /\ Approved(v, r) >= bar
           /\ Quorum!IsThresholdUnreachable(v, r, n, bar) <=>
                bar = Quorum!Unsatisfiable \/ Approved(v, r) + (n - VotedOn(v, r)) < bar
<1>1. Quorum!CountVotes(v, r, "approve") = Approved(v, r)
  BY OneCardinality DEF Quorum!CountVotes, Approved, Approvals
<1>2. bar # Quorum!Unsatisfiable => Quorum!Required(v, r, bar) = bar
  BY DEF Quorum!Required, Quorum!Unset
<1>3. Quorum!Cardinality(Quorum!VotedSenders(v, r)) = VotedOn(v, r)
  BY OneCardinality DEF VotedOn
<1>4. Quorum!HasQuorum(v, r, bar) <=> bar # Quorum!Unsatisfiable /\ Approved(v, r) >= bar
  BY <1>1, <1>2 DEF Quorum!HasQuorum
<1>5. CASE bar = Quorum!Unsatisfiable
  BY <1>4, <1>5 DEF Quorum!IsThresholdUnreachable
<1>6. CASE bar # Quorum!Unsatisfiable
  BY <1>1, <1>2, <1>3, <1>4, <1>6 DEF Quorum!IsThresholdUnreachable
<1> QED BY <1>5, <1>6

\* No more participants voted than there are, and as many when all of them did.
LEMMA VotesBounded ==
    ASSUME NEW t, NEW v, QuorumInv(t, v), BallotInv(t, v), RosterInv, NEW r \in DOMAIN v.requests
    PROVE  /\ Approved(v, r) \in Nat /\ VotedOn(v, r) \in 0..Eligible
           /\ Quorum!VotedSenders(v, r) = Quorum!Participants => VotedOn(v, r) = Eligible
<1>1. Quorum!VotedSenders(v, r) \subseteq Quorum!Participants
  BY DEF BallotInv, Quorum!VotedSenders
<1>2. /\ Len(roster) \in Nat /\ IsFiniteSet(Quorum!Participants)
      /\ Cardinality(Quorum!Participants) = Len(roster)
  BY DEF RosterInv
<1>3. /\ IsFiniteSet(Quorum!VotedSenders(v, r))
      /\ Cardinality(Quorum!VotedSenders(v, r)) <= Cardinality(Quorum!Participants)
  BY <1>1, <1>2, FS_Subset
<1>4. IsFiniteSet(Approvals(v, r))
  <2>1. IsFiniteSet(DOMAIN v.ballots) /\ Approvals(v, r) \subseteq DOMAIN v.ballots
    BY DEF BallotInv, Approvals
  <2> QED BY <2>1, FS_Subset
<1>5. Cardinality(Approvals(v, r)) \in Nat /\ Cardinality(Quorum!VotedSenders(v, r)) \in Nat
  BY <1>3, <1>4, FS_CardinalityType
<1> QED BY <1>2, <1>3, <1>5 DEF Approved, VotedOn, Eligible

\* The roster of a Quorum session: validate_session_start refuses a name given twice.
LEMMA RosterHolds ==
    ASSUME Init, mode = "quorum"
    PROVE  RosterInv
<1>1. PICK s \in {r \in Starts[mode] : ~StartRefused(mode, r)} : roster = s.participants
  BY DEF Init
<1>2. s \in Starts[mode] /\ ~StartRefused(mode, s) /\ mode \in Modes
  BY <1>1 DEF Modes
<1>3. roster \in Seq(STRING)
  BY <1>1, <1>2, StartsAssumption
<1>4. DOMAIN roster = 1..Len(roster) /\ Len(roster) \in Nat
  BY <1>3
<1>5. ~StartError("quorum", s)
  BY <1>2 DEF StartRefused
<1>6. Cardinality(ToSet(roster)) = Len(roster)
  BY <1>1, <1>5 DEF StartError, ParticipantsError
<1>7. ToSet(roster) = Quorum!Participants
  BY DEF ToSet, Quorum!Participants
<1>8. IsFiniteSet(Quorum!Participants)
  <2>1. IsFiniteSet(DOMAIN roster)
    BY <1>4, FS_Interval
  <2>2. PICK f : f = [i \in DOMAIN roster |-> roster[i]]
    OBVIOUS
  <2>3. f \in Surjection(DOMAIN roster, Quorum!Participants)
    BY <2>2 DEF Surjection, Quorum!Participants
  <2> QED BY <2>1, <2>3, FS_Surjection
<1> QED BY <1>4, <1>6, <1>7, <1>8 DEF RosterInv

-----------------------------------------------------------------------------
\* The inductive invariant of a session whose feed is what a conforming runtime accepts.
AdviceInv ==
    obedient =>
        /\ mode = "decision" => PhaseInv(proj.transcript, proj.view)
        /\ mode = "quorum" => RosterInv /\ BallotInv(proj.transcript, proj.view)
        /\ mode = "task" => (OwnWords(proj.transcript) => WorkInv(proj.transcript, proj.view))
        /\ mode = "handoff" =>
                /\ OfferInv(proj.transcript, proj.view)
                /\ proj.view.phase # "Committed" => OfferPhase(proj.view)
        /\ mode = "multi_round" => RoundInv(MultiRound!Roster, proj.transcript, proj.view)

LEMMA AdviceInit ==
    ASSUME Init
    PROVE  AdviceInv
<1>1. DOMAIN <<>> = {}
  OBVIOUS
<1>2. CASE mode = "decision"
  <2>1. proj = [transcript |-> <<>>, seen |-> {}, view |-> Decision!DecisionInit]
    BY <1>2 DEF Init, Decision!Init, Decision!Fresh
  <2>2. PhaseInv(<<>>, Decision!DecisionInit)
    BY <1>1 DEF PhaseInv, Decision!DecisionInit, Decision!Phases, Decision!Has
  <2> QED BY <1>2, <2>1, <2>2 DEF AdviceInv
<1>3. CASE mode = "quorum"
  <2>1. proj = [transcript |-> <<>>, seen |-> {}, view |-> Quorum!QuorumInit]
    BY <1>3 DEF Init, Quorum!Init, Quorum!Fresh
  <2>2. BallotInv(<<>>, Quorum!QuorumInit)
    BY <1>1, FS_EmptySet DEF BallotInv, Quorum!QuorumInit
  <2> QED BY <1>3, <2>1, <2>2, RosterHolds DEF AdviceInv
<1>4. CASE mode = "handoff"
  <2>1. proj = [transcript |-> <<>>, seen |-> {}, view |-> Handoff!HandoffInit]
    BY <1>4 DEF Init, Handoff!Init, Handoff!Fresh
  <2>2. OfferInv(<<>>, Handoff!HandoffInit) /\ OfferPhase(Handoff!HandoffInit)
    BY <1>1 DEF OfferInv, OfferPhase, OffersIn, Handoff!HandoffInit
  <2> QED BY <1>4, <2>1, <2>2 DEF AdviceInv
<1>5. CASE mode = "multi_round"
  <2>1. proj = [transcript |-> <<>>, seen |-> {}, view |-> MultiRound!MultiRoundInit]
    BY <1>5 DEF Init, MultiRound!Init, MultiRound!Fresh
  <2>2. PICK v : v = MultiRound!MultiRoundInit
    OBVIOUS
  <2>3. ~v.converged /\ v.contributions = <<>> /\ v.round = 0
    BY <2>2 DEF MultiRound!MultiRoundInit, MultiRound!MultiRoundSeeded
  <2>4. MultiRound!Contributions(<<>>) = {}
    BY <1>1 DEF MultiRound!Contributions
  <2>5. Changes(<<>>) = {} /\ ~Agreed(MultiRound!Roster, <<>>)
    BY <2>4 DEF Changes, Agreed
  <2>6. Contributed(v) = {}
    BY <1>1, <2>3 DEF Contributed
  <2>7. RoundInv(MultiRound!Roster, <<>>, v)
    BY <1>1, <2>3, <2>4, <2>5, <2>6, FS_EmptySet DEF RoundInv
  <2> QED BY <1>5, <2>1, <2>2, <2>7 DEF AdviceInv
<1>6. CASE mode = "task"
  <2>1. proj = [transcript |-> <<>>, seen |-> {}, view |-> Task!TaskInit]
    BY <1>6 DEF Init, Task!Init, Task!Fresh
  <2>2. PICK v : v = Task!TaskInit
    OBVIOUS
  <2>3. v.rejections = <<>> /\ v.slot = Task!Free /\ v.tasks = <<>>
    BY <2>2 DEF Task!TaskInit
  <2>4. Sequence(<<>>)
    BY DEF Sequence
  <2>5. WorkInv(<<>>, v)
    BY <1>1, <2>3, <2>4 DEF WorkInv, Declined, Task!Rejected, Task!Holds
  <2> QED BY <1>6, <2>1, <2>2, <2>5 DEF AdviceInv
<1> QED BY <1>2, <1>3, <1>4, <1>5, <1>6 DEF AdviceInv

LEMMA AdviceKeeps ==
    ASSUME IInv, AdviceInv, NEW e, Enters(e), Conforms(e), UNCHANGED <<obedient, mode, roster, policy>>
    PROVE  AdviceInv'
<1> SUFFICES ASSUME obedient PROVE AdviceInv'
  BY DEF AdviceInv
<1> PICK p : p = proj
  OBVIOUS
<1> PICK q : q = proj'
  OBVIOUS
<1>1. Grown(p.transcript, e, q.transcript) /\ Sequence(p.transcript)
  BY EntersGrows DEF IInv, FeedInv, Shaped
<1>2. EffectIs(e, p.view, q.view)
  BY DEF Enters
<1>3. CASE mode = "decision"
  <2>1. /\ DecisionInv(p.transcript, p.view) /\ PhaseInv(p.transcript, p.view)
        /\ Decision!Conforming(p.transcript, e) /\ q.view = Decision!Effect(p.view, e)
    BY <1>2, <1>3 DEF IInv, ViewInv, AdviceInv, Conforms, EffectIs
  <2>2. PhaseInv(q.transcript, q.view)
    BY <1>1, <2>1, PhaseKeeps
  <2> QED BY <1>3, <2>2 DEF AdviceInv
<1>4. CASE mode = "quorum"
  <2>1. /\ QuorumInv(p.transcript, p.view) /\ BallotInv(p.transcript, p.view) /\ RosterInv
        /\ Quorum!Conforming(p.transcript, e) /\ q.view = Quorum!Effect(p.view, e)
    BY <1>2, <1>4 DEF IInv, ViewInv, AdviceInv, Conforms, EffectIs
  <2>2. BallotInv(q.transcript, q.view)
    BY <1>1, <2>1, BallotKeeps
  <2>3. RosterInv' /\ BallotInv(proj.transcript, proj.view)'
    BY <2>1, <2>2 DEF RosterInv, BallotInv, Eligible, Quorum!Participants
  <2> QED BY <1>4, <2>3 DEF AdviceInv
<1>5. CASE mode = "handoff"
  <2>1. /\ HandoffInv(p.transcript, p.view) /\ OfferInv(p.transcript, p.view)
        /\ p.view.phase # "Committed" => OfferPhase(p.view)
        /\ Handoff!Conforming(p.transcript, e) /\ q.view = Handoff!Effect(p.view, e)
    BY <1>2, <1>5 DEF IInv, ViewInv, AdviceInv, Conforms, EffectIs
  <2>2. OfferInv(q.transcript, q.view) /\ (q.view.phase # "Committed" => OfferPhase(q.view))
    BY <1>1, <2>1, OfferKeeps
  <2> QED BY <1>5, <2>2 DEF AdviceInv
<1>6. CASE mode = "multi_round"
  <2>1. /\ DOMAIN p.view = DOMAIN MultiRound!MultiRoundInit /\ RoundInv(MultiRound!Roster, p.transcript, p.view)
        /\ MultiRound!Conforming(p.transcript, e) /\ q.view = MultiRound!Effect(p.view, e)
    BY <1>2, <1>6 DEF IInv, ViewInv, AdviceInv, Conforms, EffectIs
  <2>2. Sequence(q.transcript)
    BY EnteredShaped DEF IInv, FeedInv, Enters, Shaped
  <2>3. RoundInv(MultiRound!Roster, q.transcript, q.view)
    BY <1>1, <2>1, <2>2, RoundKeeps
  <2>4. RoundInv(MultiRound!Roster, proj.transcript, proj.view)'
    BY <2>3 DEF MultiRound!Roster
  <2> QED BY <1>6, <2>4 DEF AdviceInv
<1>7. CASE mode = "task"
  <2>1. /\ SlotInv(p.view) /\ (OwnWords(p.transcript) => WorkInv(p.transcript, p.view))
        /\ Task!Conforming(p.transcript, e) /\ q.view = Task!Effect(p.view, e)
    BY <1>2, <1>7 DEF IInv, ViewInv, AdviceInv, Conforms, EffectIs
  <2>2. e.type = "TaskAccept" => Task!Unassigned # e.sender
    BY <1>7, NamesAssumption DEF Enters, Fits
  <2>3. OwnWords(q.transcript) => WorkInv(q.transcript, q.view)
    BY <1>1, <2>1, <2>2, WorkKeeps
  <2> QED BY <1>7, <2>3 DEF AdviceInv
<1> QED BY <1>3, <1>4, <1>5, <1>6, <1>7 DEF AdviceInv

\* What an obedient session's projection knows is what the runtime knows.
THEOREM AdviceInvariance == Spec => []AdviceInv
<1>1. Init => AdviceInv
  BY AdviceInit
<1>2. IInv /\ AdviceInv /\ [Next]_vars => AdviceInv'
  <2> SUFFICES ASSUME IInv, AdviceInv, [Next]_vars PROVE AdviceInv'
    OBVIOUS
  <2>1. /\ UNCHANGED <<obedient, mode, roster, policy>>
        /\ UNCHANGED proj \/ \E e : Enters(e) /\ Conforms(e)
    BY ActionCases
  <2>2. CASE UNCHANGED proj
    BY <2>1, <2>2 DEF AdviceInv, RosterInv, BallotInv, Eligible, Quorum!Participants, MultiRound!Roster
  <2>3. CASE \E e : Enters(e) /\ Conforms(e)
    BY <2>1, <2>3, AdviceKeeps
  <2> QED BY <2>1, <2>2, <2>3
<1> QED BY <1>1, <1>2, Invariance, PTL DEF Spec

\* Quorum: the two commitments are never both eligible, one of them is once all ballots
\* are in, a verdict is final, and the bar of a percentage is the least count that is
\* at least that share (has_quorum, is_threshold_unreachable, effective_quorum_threshold).
THEOREM VerdictStands == Spec => VerdictDecides
<1>1. ASSUME IInv, AdviceInv, obedient, mode = "quorum", NEW r \in DOMAIN proj.view.requests
      PROVE  /\ Quorum!Bar(r) = Quorum!Unsatisfiable \/ Quorum!Bar(r) \in Nat \ {0}
             /\ Eligible \in Nat /\ Approved(proj.view, r) \in Nat /\ VotedOn(proj.view, r) \in 0..Eligible
             /\ Quorum!VotedSenders(proj.view, r) = Quorum!Participants => VotedOn(proj.view, r) = Eligible
             /\ policy.type = "percentage" /\ policy.num > 0 /\ Eligible > 0 =>
                    /\ Quorum!Bar(r) \in 1..CountMax
                    /\ Quorum!Bar(r) = CountMax \/ Quorum!Bar(r) * 100 * policy.den >= policy.num * Eligible
                    /\ Quorum!Bar(r) > 1 => (Quorum!Bar(r) - 1) * 100 * policy.den < policy.num * Eligible
  <2>1. /\ QuorumInv(proj.transcript, proj.view) /\ BallotInv(proj.transcript, proj.view) /\ RosterInv
        /\ policy \in Policies \cup {Unbound}
    BY <1>1 DEF IInv, FeedInv, ViewInv, AdviceInv
  <2>2. proj.view.requests[r] \in 1..Eligible /\ Eligible \in Nat
    BY <1>1, <2>1 DEF BallotInv, RosterInv, Eligible
  <2>3. PICK bar : bar = Quorum!EffectiveQuorumThreshold(policy, Eligible, proj.view.requests[r])
    OBVIOUS
  <2>4. Quorum!Bar(r) = bar
    BY <2>3 DEF Quorum!Bar, Quorum!Eligible, Quorum!view, Eligible
  <2>5. /\ bar = Quorum!Unsatisfiable \/ bar \in Nat \ {0}
        /\ policy.type = "percentage" /\ policy.num > 0 /\ Eligible > 0 =>
                /\ bar \in 1..CountMax
                /\ bar = CountMax \/ bar * 100 * policy.den >= policy.num * Eligible
                /\ bar > 1 => (bar - 1) * 100 * policy.den < policy.num * Eligible
    BY <2>1, <2>2, <2>3, BarOf
  <2> QED BY <1>1, <2>1, <2>2, <2>4, <2>5, VotesBounded
<1>2. IInv /\ AdviceInv => (obedient /\ mode = "quorum" => Quorum!VerdictDecides /\ Quorum!BarIsLeast)
  <2> SUFFICES ASSUME IInv, AdviceInv, obedient, mode = "quorum"
               PROVE  Quorum!VerdictDecides /\ Quorum!BarIsLeast
    OBVIOUS
  <2>1. Quorum!BarIsLeast
    BY <1>1 DEF Quorum!BarIsLeast, Quorum!Eligible, Quorum!Requests, Quorum!view, Eligible
  <2>2. ASSUME NEW r \in DOMAIN proj.view.requests
        PROVE  /\ ~(/\ Quorum!HasQuorum(proj.view, r, Quorum!Bar(r))
                    /\ Quorum!IsThresholdUnreachable(proj.view, r, Eligible, Quorum!Bar(r)))
               /\ Quorum!VotedSenders(proj.view, r) = Quorum!Participants =>
                    \/ Quorum!HasQuorum(proj.view, r, Quorum!Bar(r))
                    \/ Quorum!IsThresholdUnreachable(proj.view, r, Eligible, Quorum!Bar(r))
    <3>1. PICK bar : bar = Quorum!Bar(r)
      OBVIOUS
    <3>2. /\ bar = Quorum!Unsatisfiable \/ bar \in Nat \ {0}
          /\ Eligible \in Nat /\ Approved(proj.view, r) \in Nat /\ VotedOn(proj.view, r) \in 0..Eligible
          /\ Quorum!VotedSenders(proj.view, r) = Quorum!Participants => VotedOn(proj.view, r) = Eligible
      BY <1>1, <3>1
    <3>3. /\ Quorum!HasQuorum(proj.view, r, bar) <=> bar # Quorum!Unsatisfiable /\ Approved(proj.view, r) >= bar
          /\ Quorum!IsThresholdUnreachable(proj.view, r, Eligible, bar) <=>
                bar = Quorum!Unsatisfiable \/ Approved(proj.view, r) + (Eligible - VotedOn(proj.view, r)) < bar
      BY <3>2, VerdictIs
    <3> QED BY <3>1, <3>2, <3>3
  <2>3. Quorum!VerdictDecides
    BY <2>2 DEF Quorum!VerdictDecides, Quorum!Requests, Quorum!view, Quorum!Eligible, Eligible
  <2> QED BY <2>1, <2>3
<1>3. IInv /\ AdviceInv /\ [Next]_vars => (obedient /\ mode = "quorum" => Quorum!VerdictKept)
  <2> SUFFICES ASSUME IInv, AdviceInv, [Next]_vars, obedient, mode = "quorum",
                      NEW r \in DOMAIN proj.view.requests
               PROVE  /\ Quorum!HasQuorum(proj.view, r, Quorum!Bar(r)) =>
                            Quorum!HasQuorum(proj'.view, r, Quorum!Bar(r))
                      /\ Quorum!IsThresholdUnreachable(proj.view, r, Eligible, Quorum!Bar(r)) =>
                            Quorum!IsThresholdUnreachable(proj'.view, r, Eligible, Quorum!Bar(r))
    BY DEF Quorum!VerdictKept, Quorum!Requests, Quorum!view, Quorum!Eligible, Eligible
  <2>1. CASE UNCHANGED proj
    BY <2>1
  <2>2. ASSUME NEW e, Enters(e), Conforms(e)
        PROVE  /\ Quorum!HasQuorum(proj.view, r, Quorum!Bar(r)) =>
                    Quorum!HasQuorum(proj'.view, r, Quorum!Bar(r))
               /\ Quorum!IsThresholdUnreachable(proj.view, r, Eligible, Quorum!Bar(r)) =>
                    Quorum!IsThresholdUnreachable(proj'.view, r, Eligible, Quorum!Bar(r))
    <3>1. PICK bar : bar = Quorum!Bar(r)
      OBVIOUS
    <3>2. PICK w : w = proj'.view
      OBVIOUS
    <3>3. PICK v : v = proj.view
      OBVIOUS
    <3>4. /\ bar = Quorum!Unsatisfiable \/ bar \in Nat \ {0}
          /\ Eligible \in Nat /\ Approved(v, r) \in Nat /\ VotedOn(v, r) \in 0..Eligible
      BY <1>1, <3>1, <3>3
    <3>5. Grown(proj.transcript, e, proj'.transcript) /\ Sequence(proj.transcript)
      BY <2>2, EntersGrows DEF IInv, FeedInv, Shaped
    <3>6. /\ QuorumInv(proj.transcript, v) /\ BallotInv(proj.transcript, v) /\ RosterInv
          /\ Quorum!Conforming(proj.transcript, e) /\ w = Quorum!Effect(v, e)
      BY <2>2, <3>2, <3>3 DEF IInv, ViewInv, AdviceInv, Conforms, Enters, EffectIs
    <3>7. r \in DOMAIN w.requests /\ Moves(v, w, r)
      BY <3>3, <3>5, <3>6, BallotKeeps
    <3>8. \/ Approved(w, r) = Approved(v, r) /\ VotedOn(w, r) = VotedOn(v, r)
          \/ /\ Approved(w, r) \in Approved(v, r) .. Approved(v, r) + 1
             /\ VotedOn(w, r) = VotedOn(v, r) + 1
      BY <3>7 DEF Moves, Approved, VotedOn
    <3>9. /\ Quorum!HasQuorum(v, r, bar) <=> bar # Quorum!Unsatisfiable /\ Approved(v, r) >= bar
          /\ Quorum!IsThresholdUnreachable(v, r, Eligible, bar) <=>
                bar = Quorum!Unsatisfiable \/ Approved(v, r) + (Eligible - VotedOn(v, r)) < bar
      BY <3>3, <3>4, VerdictIs
    <3>10. /\ Quorum!HasQuorum(w, r, bar) <=> bar # Quorum!Unsatisfiable /\ Approved(w, r) >= bar
           /\ Quorum!IsThresholdUnreachable(w, r, Eligible, bar) <=>
                bar = Quorum!Unsatisfiable \/ Approved(w, r) + (Eligible - VotedOn(w, r)) < bar
      BY <3>4, <3>7, VerdictIs
    <3>11. /\ Quorum!HasQuorum(v, r, bar) => Quorum!HasQuorum(w, r, bar)
           /\ Quorum!IsThresholdUnreachable(v, r, Eligible, bar) => Quorum!IsThresholdUnreachable(w, r, Eligible, bar)
      BY <3>4, <3>8, <3>9, <3>10
    <3> QED BY <3>1, <3>2, <3>3, <3>11
  <2> QED BY <2>1, <2>2, ActionCases
<1> QED BY <1>2, <1>3, Invariance, AdviceInvariance, PTL DEF Spec, VerdictDecides

\* Decision: the phase follows the history, deliberation before the first vote, voting
\* after it, until the commitment (DecisionProjection, RFC-MACP-0007 rule 6).
THEOREM PhaseFollowsHistory == Spec => [](obedient /\ mode = "decision" => Decision!PhaseAgrees)
<1>1. AdviceInv => (obedient /\ mode = "decision" => Decision!PhaseAgrees)
  BY DEF AdviceInv, PhaseInv, Decision!PhaseAgrees, Decision!Has, Decision!view
<1> QED BY <1>1, AdviceInvariance, PTL

\* Handoff: who may be offered to is what the runtime would allow, and the phase is
\* terminal exactly when no offer is pending (HandoffProjection.can_offer_to, phase).
THEOREM OffersFollowHistory ==
    Spec => [](obedient /\ mode = "handoff" => Handoff!CanOfferAgrees /\ Handoff!PhaseTellsOutcome)
<1>1. IInv /\ AdviceInv => (obedient /\ mode = "handoff" => Handoff!CanOfferAgrees /\ Handoff!PhaseTellsOutcome)
  <2> SUFFICES ASSUME IInv, AdviceInv, obedient, mode = "handoff"
               PROVE  Handoff!CanOfferAgrees /\ Handoff!PhaseTellsOutcome
    OBVIOUS
  <2> PICK t : t = proj.transcript
    OBVIOUS
  <2> PICK v : v = proj.view
    OBVIOUS
  <2>1. /\ HandoffInv(t, v) /\ OfferInv(t, v) /\ (v.phase # "Committed" => OfferPhase(v))
    BY DEF IInv, ViewInv, AdviceInv
  <2>2. Handoff!Offered(t) = DOMAIN v.handoffs
    BY <2>1 DEF HandoffInv, Handoff!Offered, OffersIn
  <2>3. /\ \A i \in OffersIn(t) : v.handoffs[t[i].subject].target = t[i].value
        /\ \A h \in DOMAIN v.handoffs :
            /\ StatusOf(v, h) \in {"offered", "context_sent", "accepted", "declined"}
            /\ Handoff!Declined(t, h) <=> StatusOf(v, h) = "declined"
    BY <2>1 DEF OfferInv
  <2>4. \A h \in DOMAIN v.handoffs : Handoff!TargetOf(t, h) = v.handoffs[h].target
    <3> TAKE h \in DOMAIN v.handoffs
    <3>1. PICK i \in OffersIn(t) : h = t[i].subject
      BY <2>1 DEF HandoffInv
    <3>2. Handoff!Of(t, "HandoffOffer", h) # {}
      BY <3>1 DEF OffersIn, Handoff!Of
    <3>3. PICK j : j = (CHOOSE k \in Handoff!Of(t, "HandoffOffer", h) : TRUE)
      OBVIOUS
    <3>4. j \in OffersIn(t) /\ t[j].subject = h
      BY <3>2, <3>3 DEF OffersIn, Handoff!Of
    <3>5. Handoff!TargetOf(t, h) = t[j].value
      BY <3>3 DEF Handoff!TargetOf
    <3> QED BY <2>3, <3>4, <3>5
  <2>5. \A x : Handoff!MayOffer(t, x) <=> Handoff!CanOfferTo(v, x)
    <3> TAKE x
    <3>1. Handoff!MayOffer(t, x) <=> \A h \in DOMAIN v.handoffs : StatusOf(v, h) = "declined" /\ v.handoffs[h].target # x
      BY <2>2, <2>3, <2>4 DEF Handoff!MayOffer
    <3>2. Handoff!PendingHandoffs(v) = {} <=>
            \A h \in DOMAIN v.handoffs : StatusOf(v, h) \notin {"offered", "context_sent"}
      BY DEF Handoff!PendingHandoffs, Handoff!IsPending, Handoff!Pending, StatusOf
    <3>3. Handoff!HasAcceptedOffer(v) <=> \E h \in DOMAIN v.handoffs : StatusOf(v, h) = "accepted"
      BY DEF Handoff!HasAcceptedOffer, StatusOf
    <3>4. x \notin Handoff!DeclinedTargets(v) <=>
            \A h \in DOMAIN v.handoffs : StatusOf(v, h) = "declined" => v.handoffs[h].target # x
      BY DEF Handoff!DeclinedTargets, StatusOf
    <3> QED BY <2>3, <3>1, <3>2, <3>3, <3>4 DEF Handoff!CanOfferTo
  <2>6. Handoff!CanOfferAgrees
    BY <2>5 DEF Handoff!CanOfferAgrees, Handoff!view
  <2>7. Handoff!PhaseTellsOutcome
    <3> SUFFICES ASSUME v.phase # "Committed"
                 PROVE  /\ v.phase = "Accepted" <=> Handoff!HasAcceptedOffer(v)
                        /\ v.phase = "Declined" <=> DOMAIN v.handoffs # {} /\ Handoff!PendingHandoffs(v) = {}
                                                        /\ ~Handoff!HasAcceptedOffer(v)
                        /\ v.phase = "ContextSharing" <=>
                              \E h \in Handoff!PendingHandoffs(v) : v.handoffs[h].status = "context_sent"
      BY DEF Handoff!PhaseTellsOutcome, Handoff!view
    <3>1. /\ v.phase = "ContextSharing" <=> \E h \in DOMAIN v.handoffs : StatusOf(v, h) = "context_sent"
          /\ v.phase = "Accepted" <=> \E h \in DOMAIN v.handoffs : StatusOf(v, h) = "accepted"
          /\ v.phase = "Declined" <=>
                DOMAIN v.handoffs # {} /\ \A h \in DOMAIN v.handoffs : StatusOf(v, h) = "declined"
      BY <2>1 DEF OfferPhase
    <3> QED BY <2>3, <3>1 DEF Handoff!HasAcceptedOffer, Handoff!PendingHandoffs, Handoff!IsPending, Handoff!Pending, StatusOf
  <2> QED BY <2>6, <2>7
<1> QED BY <1>1, Invariance, AdviceInvariance, PTL

\* Multi-round: the session has converged when its history says so, and the round counts
\* the contributions that changed their sender's value (MultiRoundProjection, round,
\* converged).
THEOREM ConvergenceFollowsHistory ==
    Spec => [](obedient /\ mode = "multi_round" => MultiRound!ConvergenceAgrees)
<1>1. AdviceInv => (obedient /\ mode = "multi_round" => MultiRound!ConvergenceAgrees)
  <2> SUFFICES ASSUME AdviceInv, obedient, mode = "multi_round" PROVE MultiRound!ConvergenceAgrees
    OBVIOUS
  <2> PICK t : t = proj.transcript
    OBVIOUS
  <2> PICK v : v = proj.view
    OBVIOUS
  <2>1. (v.converged <=> MultiRound!Converged(t)) /\ v.round = Cardinality(Changes(t))
    BY AgreedIs DEF AdviceInv, RoundInv
  <2>2. Changes(t) = {i \in MultiRound!Contributions(t) :
                        MultiRound!LatestOf(SubSeq(t, 1, i - 1), t[i].sender) # {t[i].value}}
    BY DEF Changes, Latest
  <2> QED BY <2>1, <2>2, MultiRoundCardinality DEF MultiRound!ConvergenceAgrees, MultiRound!view
<1> QED BY <1>1, AdviceInvariance, PTL

\* What every late joiner of a multi-round session knows stays behind the session.
Joiners == obedient /\ mode = "multi_round" => JoinersInv(MultiRound!Roster, proj.transcript, proj.view)

\* Multi-round: whoever joined after any message of the session, seeded with its roster,
\* reports no convergence the session has not reached, and no other value
\* (MultiRoundProjection seeded with participants and initiator).
THEOREM LateJoinerBehind ==
    Spec => [](obedient /\ mode = "multi_round" => MultiRound!JoinerNeverAhead)
<1>1. Init => Joiners
  <2> SUFFICES ASSUME Init, mode = "multi_round" PROVE JoinersInv(MultiRound!Roster, proj.transcript, proj.view)
    BY DEF Joiners
  <2>1. proj.transcript = <<>>
    BY DEF Init, MultiRound!Init, MultiRound!Fresh
  <2>2. DOMAIN <<>> = {}
    OBVIOUS
  <2> QED BY <2>1, <2>2 DEF JoinersInv
<1>2. IInv /\ AdviceInv /\ Joiners /\ [Next]_vars => Joiners'
  <2> SUFFICES ASSUME IInv, AdviceInv, Joiners, [Next]_vars, obedient, mode = "multi_round" PROVE Joiners'
    BY ActionCases DEF Joiners
  <2>1. roster' = roster
    BY ActionCases
  <2>2. CASE UNCHANGED proj
    <3>1. JoinersInv(MultiRound!Roster, proj.transcript, proj.view)
      BY DEF Joiners
    <3> QED BY <2>1, <2>2, <3>1 DEF Joiners, JoinersInv, JoinerInv, Joined, MultiRound!Roster
  <2>3. ASSUME NEW e, Enters(e), Conforms(e) PROVE Joiners'
    <3> PICK p : p = proj
      OBVIOUS
    <3> PICK q : q = proj'
      OBVIOUS
    <3>1. Grown(p.transcript, e, q.transcript)
      BY <2>3, EntersGrows
    <3>2. /\ DOMAIN p.view = DOMAIN MultiRound!MultiRoundInit /\ RoundInv(MultiRound!Roster, p.transcript, p.view)
          /\ JoinersInv(MultiRound!Roster, p.transcript, p.view)
          /\ MultiRound!Conforming(p.transcript, e) /\ q.view = MultiRound!Effect(p.view, e)
      BY <2>3 DEF IInv, ViewInv, AdviceInv, Joiners, Conforms, Enters, EffectIs
    <3>3. JoinersInv(MultiRound!Roster, q.transcript, q.view)
      BY <3>1, <3>2, JoinersKeep
    <3>4. JoinersInv(MultiRound!Roster, proj.transcript, proj.view)'
      BY <2>1, <3>3 DEF MultiRound!Roster, JoinersInv, JoinerInv, Joined
    <3> QED BY <3>4 DEF Joiners
  <2> QED BY <2>2, <2>3, ActionCases
<1>3. Joiners => (obedient /\ mode = "multi_round" => MultiRound!JoinerNeverAhead)
  <2> SUFFICES ASSUME Joiners, obedient, mode = "multi_round", NEW k \in DOMAIN proj.transcript,
                      NEW joiner, joiner = MultiRound!Replay(Joined(MultiRound!Roster), Suffix(proj.transcript, k)).view
               PROVE  joiner.converged => proj.view.converged /\ joiner.agreed = proj.view.agreed
    BY DEF MultiRound!JoinerNeverAhead, MultiRound!view, Joined, Suffix
  <2> QED BY DEF Joiners, JoinersInv, JoinerInv
<1> QED BY <1>1, <1>2, <1>3, Invariance, AdviceInvariance, PTL DEF Spec

\* Task: as long as messages speak of the session's task and of their senders,
\* can_accept answers as the runtime would, and a negative commitment is offered neither
\* while somebody works nor while somebody might accept (negative_commit_eligible).
THEOREM AcceptsFollowHistory ==
    Spec => [](obedient /\ mode = "task" /\ OwnWords(proj.transcript) =>
                    Task!CanAcceptAgrees /\ Task!NegativeOnlyWhenStuck)
<1>1. IInv /\ AdviceInv => (obedient /\ mode = "task" /\ OwnWords(proj.transcript) =>
                    Task!CanAcceptAgrees /\ Task!NegativeOnlyWhenStuck)
  <2> SUFFICES ASSUME IInv, AdviceInv, obedient, mode = "task", OwnWords(proj.transcript)
               PROVE  Task!CanAcceptAgrees /\ Task!NegativeOnlyWhenStuck
    OBVIOUS
  <2> PICK t : t = proj.transcript
    OBVIOUS
  <2> PICK v : v = proj.view
    OBVIOUS
  <2>1. WorkInv(t, v) /\ SlotInv(v) /\ Sequence(t)
    BY DEF AdviceInv, IInv, ViewInv, FeedInv, Shaped
  <2>2. \A p : /\ Declined(v, p) <=> Task!HasDeclined(v, p)
               /\ Task!HasDeclined(v, p) <=> Task!Rejected(t, p)
    <3>1. \A p : Declined(v, p) <=> Task!HasDeclined(v, p)
      BY DEF Declined, Task!HasDeclined, Task!Some
    <3> QED BY <2>1, <3>1 DEF WorkInv
  <2>3. Task!Held(t) <=> v.slot # Task!Free
    <3>1. ASSUME Task!Held(t) PROVE v.slot # Task!Free
      BY <2>1, <3>1 DEF Task!Held, WorkInv
    <3>2. ASSUME v.slot # Task!Free PROVE Task!Held(t)
      <4>1. Task!Holds(t, v.slot.sender)
        BY <2>1, <3>2 DEF WorkInv
      <4>2. PICK i \in DOMAIN t : t[i].type = "TaskAccept" /\ t[i].sender = v.slot.sender
        BY <4>1 DEF Task!Holds
      <4> QED BY <4>1, <4>2 DEF Task!Held
    <3> QED BY <3>1, <3>2
  <2>4. Task!CanAcceptAgrees
    <3>1. ASSUME NEW p, p # Initiator, t # <<>>, ~Task!Over(t)
          PROVE  Task!MayAccept(t, p) <=> Task!CanAccept(v, p) /\ Task!Requested(t) \in {"", p}
      BY <2>2, <2>3, <3>1 DEF Task!MayAccept, Task!CanAccept
    <3> QED BY <3>1 DEF Task!CanAcceptAgrees, Task!view
  <2>5. Task!NegativeOnlyWhenStuck
    <3>1. ASSUME NEW k \in DOMAIN v.tasks, Task!NegativeCommitEligible(v, k), ~Task!Reported(v, k)
          PROVE  ~Task!IsAccepted(v, k) /\ \A p : ~Task!MayAccept(t, p)
      <4>1. v.tasks[k].requested # "" /\ v.slot = Task!Free /\ Declined(v, v.tasks[k].requested)
        BY <3>1 DEF Task!NegativeCommitEligible, Task!Some, Declined
      <4>2. ~Task!IsAccepted(v, k)
        BY <2>1, <3>1, <4>1 DEF WorkInv, Working, Task!IsAccepted
      <4>3. t # <<>> => Task!Requested(t) = v.tasks[k].requested
        BY <2>1, <3>1 DEF WorkInv, Task!Requested
      <4>4. ASSUME NEW p, Task!MayAccept(t, p) PROVE FALSE
        BY <2>2, <4>1, <4>3, <4>4 DEF Task!MayAccept
      <4> QED BY <4>2, <4>4
    <3> QED BY <3>1 DEF Task!NegativeOnlyWhenStuck, Task!view
  <2> QED BY <2>4, <2>5
<1> QED BY <1>1, Invariance, AdviceInvariance, PTL

-----------------------------------------------------------------------------
\* What the helpers refuse.
\* A multi-round session was started with somebody, by its initiator.
Begun ==
    obedient /\ mode = "multi_round" =>
        /\ MultiRound!Roster # {}
        /\ proj.transcript # <<>> => proj.view.initiator = Initiator

\* Who the initiator is comes from the first message alone.
LEMMA InitiatorWritten ==
    ASSUME NEW v, DOMAIN v = DOMAIN MultiRound!MultiRoundInit, NEW e, NEW w, w = MultiRound!Effect(v, e)
    PROVE  w.initiator = IF e.type = "SessionStart" /\ e.sender # MultiRound!NoOne THEN e.sender ELSE v.initiator
<1>0. ASSUME NEW u, DOMAIN u = DOMAIN v, NEW x
      PROVE  MultiRound!SetPhase(u, x).initiator = u.initiator
  BY <1>0 DEF MultiRound!SetPhase, MultiRound!MultiRoundInit, MultiRound!MultiRoundSeeded
<1>1. CASE e.type = "Commitment"
  <2>1. w = [v EXCEPT !.commitment = e.subject, !.phase = "Committed"]
    BY <1>1 DEF MultiRound!Effect
  <2> QED BY <1>1, <2>1 DEF MultiRound!MultiRoundInit, MultiRound!MultiRoundSeeded
<1>2. CASE e.type = "SessionStart"
  <2>1. w = MultiRound!OnSessionStart(v, e)
    BY <1>2 DEF MultiRound!Effect, MultiRound!MultiRoundStep
  <2>2. PICK u : u = [v EXCEPT !.participants = e.value,
                               !.initiator = IF e.sender = MultiRound!NoOne THEN @ ELSE e.sender]
    OBVIOUS
  <2>3. w = MultiRound!SetPhase(u, "Contributing")
    BY <2>1, <2>2 DEF MultiRound!OnSessionStart
  <2>4. /\ DOMAIN u = DOMAIN v
        /\ u.initiator = IF e.sender = MultiRound!NoOne THEN v.initiator ELSE e.sender
    BY <2>2 DEF MultiRound!MultiRoundInit, MultiRound!MultiRoundSeeded
  <2> QED BY <1>0, <1>2, <2>3, <2>4
<1>3. CASE e.type = "Contribute"
  <2>1. w = MultiRound!OnContribute(v, e)
    BY <1>3 DEF MultiRound!Effect, MultiRound!MultiRoundStep
  <2>2. PICK u : u = MultiRound!Contributed(v, e)
    OBVIOUS
  <2>3. w = v \/ w = MultiRound!CheckConvergence(u)
    BY <2>1, <2>2 DEF MultiRound!OnContribute
  <2>4. DOMAIN u = DOMAIN v /\ u.initiator = v.initiator
    BY <2>2 DEF MultiRound!Contributed, MultiRound!MultiRoundInit, MultiRound!MultiRoundSeeded
  <2>5. PICK y : y = (CHOOSE x \in MultiRound!Values(u) : TRUE)
    OBVIOUS
  <2>6. PICK z : z = [u EXCEPT !.converged = TRUE, !.agreed = y]
    OBVIOUS
  <2>7. w = v \/ w = u \/ w = MultiRound!SetPhase(z, "Converged")
    BY <2>3, <2>5, <2>6 DEF MultiRound!CheckConvergence
  <2>8. DOMAIN z = DOMAIN v /\ z.initiator = u.initiator
    BY <2>4, <2>6 DEF MultiRound!MultiRoundInit, MultiRound!MultiRoundSeeded
  <2> QED BY <1>0, <1>3, <2>4, <2>7, <2>8
<1>4. CASE e.type \notin {"Commitment", "SessionStart", "Contribute"}
  <2>1. MultiRound!Effect(v, e) = MultiRound!MultiRoundStep(v, e)
    BY <1>4 DEF MultiRound!Effect
  <2>2. MultiRound!MultiRoundStep(v, e) = v
    BY <1>4, Zenon DEF MultiRound!MultiRoundStep
  <2> QED BY <1>4, <2>1, <2>2
<1> QED BY <1>1, <1>2, <1>3, <1>4

LEMMA BegunInvariance == ASSUME Initiator # MultiRound!NoOne PROVE Spec => []Begun
<1>1. Init => Begun
  <2> SUFFICES ASSUME Init, mode = "multi_round" PROVE MultiRound!Roster # {} /\ proj.transcript = <<>>
    BY DEF Begun
  <2>1. proj.transcript = <<>>
    BY DEF Init, MultiRound!Init, MultiRound!Fresh
  <2>2. PICK s \in Starts[mode] : roster = s.participants /\ ~StartRefused(mode, s)
    BY DEF Init
  <2>3. roster # <<>>
    BY <2>2 DEF StartRefused, MultiRoundStartError, StartError, ParticipantsError
  <2>4. roster \in Seq(STRING)
    BY <2>2, StartsAssumption DEF Modes
  <2>5. 1 \in DOMAIN roster
    BY <2>3, <2>4
  <2> QED BY <2>1, <2>5 DEF MultiRound!Roster
<1>2. IInv /\ Begun /\ [Next]_vars => Begun'
  <2> SUFFICES ASSUME IInv, Begun, [Next]_vars, obedient, mode = "multi_round"
               PROVE  MultiRound!Roster' # {} /\ (proj'.transcript # <<>> => proj'.view.initiator = Initiator)
    BY ActionCases DEF Begun
  <2>1. MultiRound!Roster # {} /\ (proj.transcript # <<>> => proj.view.initiator = Initiator)
    BY DEF Begun
  <2>2. MultiRound!Roster' = MultiRound!Roster
    BY ActionCases DEF MultiRound!Roster
  <2>3. ASSUME NEW e, Enters(e), Conforms(e) PROVE proj'.view.initiator = Initiator
    <3>1. /\ DOMAIN proj.view = DOMAIN MultiRound!MultiRoundInit /\ proj'.view = MultiRound!Effect(proj.view, e)
          /\ MultiRound!Conforming(proj.transcript, e)
      BY <2>3 DEF IInv, ViewInv, Conforms, Enters, EffectIs
    <3>2. /\ e.type = "SessionStart" <=> proj.transcript = <<>>
          /\ e.type = "SessionStart" => e.sender = Initiator
      BY <3>1 DEF MultiRound!Conforming
    <3>3. PICK v : v = proj.view
      OBVIOUS
    <3>4. PICK w : w = proj'.view
      OBVIOUS
    <3>5. DOMAIN v = DOMAIN MultiRound!MultiRoundInit /\ w = MultiRound!Effect(v, e)
      BY <3>1, <3>3, <3>4
    <3>6. w.initiator = IF e.type = "SessionStart" /\ e.sender # MultiRound!NoOne THEN e.sender ELSE v.initiator
      BY ONLY <3>5, InitiatorWritten
    <3> QED BY <2>1, <3>2, <3>3, <3>4, <3>6
  <2>4. CASE UNCHANGED proj
    BY <2>1, <2>2, <2>4
  <2>5. ASSUME NEW e, Enters(e), Conforms(e)
        PROVE  MultiRound!Roster' # {} /\ (proj'.transcript # <<>> => proj'.view.initiator = Initiator)
    BY <2>1, <2>2, <2>3, <2>5
  <2>6. UNCHANGED proj \/ \E e : Enters(e) /\ Conforms(e)
    BY ActionCases
  <2> QED BY ONLY <2>4, <2>5, <2>6
<1> QED BY <1>1, <1>2, Invariance, PTL DEF Spec

\* The methods of a Decision session, sync and async, and the action of each.
LEMMA DecisionActionIs ==
    ASSUME NEW f \in Flavours, NEW c, c.method \in {"propose", "evaluate", "raise_objection", "vote"},
           NEW a, a = ActionOf(f, "decision", c)
    PROVE  a = DecisionActions[c.method]
<1>1. MethodsOf(f, "decision")[c.method] = c.method
  BY DEF MethodsOf, Flavours, DecisionMethods, AsyncDecisionMethods, Same
<1>2. ActionsOf("decision") = DecisionActions
  BY DEF ActionsOf
<1> QED BY <1>1, <1>2 DEF ActionOf

\* A Decision builder refuses the calls that mean nothing to the runtime, whatever the
\* spelling, and no others.
LEMMA DecisionRefuses ==
    ASSUME NEW f \in Flavours, NEW c, c.method \in {"propose", "evaluate", "raise_objection", "vote"}, Own(c), NEW view
    PROVE  Refused(f, "decision", view, c) <=> ~Meaningful(f, c)
<1> PICK a : a = ActionOf(f, "decision", c)
  OBVIOUS
<1>1. a = DecisionActions[c.method]
  BY DecisionActionIs
<1>2. Refused(f, "decision", view, c) <=> (\E field \in a.required : Blank(c[field])) \/ ValueRefused(a.kind, c)
  BY DEF Refused, ActionRefused, Own
<1>3. PICK e : e = Build(f, "decision", c)
  OBVIOUS
<1>4. e.type = a.type /\ e.value = BuiltValue(a.kind, c)
  BY <1>3 DEF Build, BuildAction, Envelope
<1>5. Meaningful(f, c) <=> /\ \A field \in a.required : ~Blank(c[field])
                           /\ c.method = "evaluate" => ConfidenceIn(c.extra)
                           /\ Decision!WellFormed(e)
  BY <1>3 DEF Meaningful
<1>6. CASE c.method = "propose"
  <2>1. a.type = "Proposal" /\ a.kind = "plain"
    BY <1>1, <1>6 DEF DecisionActions, Action
  <2> QED BY <1>2, <1>4, <1>5, <1>6, <2>1 DEF ValueRefused, Decision!WellFormed
<1>7. CASE c.method = "evaluate"
  <2>1. a.type = "Evaluation" /\ a.kind = "recommendation"
    BY <1>1, <1>7 DEF DecisionActions, Action
  <2> QED BY <1>2, <1>4, <1>5, <1>7, <2>1 DEF ValueRefused, BuiltValue, Recommendations, Decision!WellFormed
<1>8. CASE c.method = "raise_objection"
  <2>1. a.type = "Objection" /\ a.kind = "severity"
    BY <1>1, <1>8 DEF DecisionActions, Action
  <2> QED BY <1>2, <1>4, <1>5, <1>8, <2>1 DEF ValueRefused, BuiltValue, Severities, Decision!WellFormed
<1>9. CASE c.method = "vote"
  <2>1. a.type = "Vote" /\ a.kind = "vote"
    BY <1>1, <1>9 DEF DecisionActions, Action
  <2> QED BY <1>2, <1>4, <1>5, <1>9, <2>1 DEF ValueRefused, BuiltValue, Votes, Decision!WellFormed
<1> QED BY <1>6, <1>7, <1>8, <1>9

\* What a helper refuses, the runtime would refuse, and nothing else, as far as its
\* projection tells (contribute, commit and the builders of a Decision session), for any
\* calls annotated as their instance says.
THEOREM RefusalsAgree ==
    ASSUME Initiator # MultiRound!NoOne, ContributionsTell, SoundIsMeaningful
    PROVE  Spec => []BuildersAgree
<1>1. IInv /\ AdviceInv /\ Begun => BuildersAgree
  <2> SUFFICES ASSUME IInv, AdviceInv, Begun, obedient, proj.transcript # <<>>
               PROVE  BuildersAgree
    BY DEF BuildersAgree
  <2>1. ASSUME mode = "multi_round", NEW c \in Calls[mode], Own(c)
        PROVE  /\ ContributeRefused(proj.view, c)
                    <=> ~MultiRound!MayContribute(proj.transcript, SenderOf(c), c.value)
               /\ c.method = "commit" /\ SenderOf(c) # Initiator => CommitRefused(mode, proj.view, c)
    <3>1. /\ MultiRound!Roster # {} /\ proj.view.initiator = Initiator
          /\ proj.view.participants = MultiRound!Roster
          /\ proj.view.converged <=> MultiRound!Converged(proj.transcript)
      BY <2>1, AgreedIs DEF AdviceInv, RoundInv, Begun
    <3>2. SenderOf(c) # "" /\ c.value # MultiRound!Undecodable /\ ~SenderRefused(c) /\ Initiator # ""
      BY <2>1 DEF Own, MultiRound!NoOne, ContributionsTell
    <3>3. ContributeRefused(proj.view, c) <=> c.value = "" \/ proj.view.converged \/ SenderOf(c) \notin MultiRound!Roster
      BY <3>1, <3>2 DEF ContributeRefused
    <3>4. ContributeRefused(proj.view, c) <=> ~MultiRound!MayContribute(proj.transcript, SenderOf(c), c.value)
      BY <3>1, <3>2, <3>3 DEF MultiRound!MayContribute
    <3>5. SenderOf(c) # Initiator => CommitRefused(mode, proj.view, c)
      BY <2>1, <3>1, <3>2 DEF CommitRefused
    <3> QED BY <3>4, <3>5
  <2>2. ASSUME mode = "decision", NEW f \in Flavours, NEW c \in Calls[mode], Own(c), c.method # "commit"
        PROVE  /\ Refused(f, mode, proj.view, c) <=> ~c.sound
               /\ c.sound => Decision!WellFormed(Build(f, mode, c))
    <3>1. /\ c.method \in {"propose", "evaluate", "raise_objection", "vote"}
          /\ c.sound <=> Meaningful(f, c)
      BY <2>2 DEF SoundIsMeaningful
    <3>2. PICK v : v = proj.view
      OBVIOUS
    <3>3. f \in Flavours /\ Own(c)
      BY <2>2
    <3>4. Refused(f, "decision", v, c) <=> ~Meaningful(f, c)
      BY ONLY <3>1, <3>3, DecisionRefuses
    <3> QED BY <2>2, <3>1, <3>2, <3>4 DEF Meaningful
  <2> QED BY <2>1, <2>2 DEF BuildersAgree
<1> QED BY <1>1, Invariance, AdviceInvariance, BegunInvariance, PTL

-----------------------------------------------------------------------------
\* What the calls say.
\* An obedient session's messages are its peers' and its own calls'.
Says(f, c, e) == c \in Callable(f, mode) /\ ~Refused(f, mode, proj.view, c) /\ e = Build(f, mode, c)

LEMMA SpeakerOf ==
    ASSUME FeedInv, Next, obedient, proj' # proj
    PROVE  \E e : /\ Enters(e) /\ Conforms(e)
                  /\ e \in Peers[mode] \/ \E f \in Flavours : \E c \in Calls[mode] : Says(f, c, e)
<1>1. CASE Message
  <2>1. PICK e \in Peers[mode] : Takes(e)
    BY <1>1 DEF Message
  <2>2. e \in Met(mode)
    BY DEF Met
  <2> QED BY <2>1, <2>2, TakesCases, TakesConforming
<1>2. CASE \E flavour \in Flavours : \E c \in Calls[mode] : Call(flavour, c)
  <2>1. PICK flavour \in Flavours : \E c \in Calls[mode] : Call(flavour, c)
    BY <1>2
  <2>2. PICK c \in Calls[mode] : Call(flavour, c)
    BY <2>1
  <2>3. PICK e : e = Build(flavour, mode, c)
    OBVIOUS
  <2>4. c \in Callable(flavour, mode) /\ Takes(e) /\ ~Refused(flavour, mode, proj.view, c)
    BY <2>2, <2>3 DEF Call
  <2>5. e \in Met(mode)
    BY <2>3, <2>4 DEF Met, Sent
  <2>6. Says(flavour, c, e)
    BY <2>3, <2>4 DEF Says
  <2> QED BY <2>4, <2>5, <2>6, TakesCases, TakesConforming
<1> QED BY <1>1, <1>2 DEF Next

\* The names of the methods, and the action of each.
LEMMA ActionIs ==
    ASSUME NEW f \in Flavours, NEW m \in Modes, NEW c, c.method \in DOMAIN MethodsOf(f, m),
           NEW a, a = ActionOf(f, m, c)
    PROVE  /\ m = "decision" => c.method \in {"propose", "evaluate", "raise_objection", "vote"} /\ a = DecisionActions[c.method]
           /\ m = "quorum" => c.method \in {"request_approval", "approve", "reject", "abstain"} /\ a = QuorumActions[c.method]
           /\ m = "handoff" => c.method \in {"offer", "add_context", "accept_handoff", "decline"} /\ a = HandoffActions[c.method]
           /\ m = "proposal" => c.method \in {"propose", "counter_propose", "accept", "reject", "withdraw"} /\ a = ProposalActions[c.method]
           /\ m = "multi_round" => c.method = "contribute" /\ a = MultiRoundActions[c.method]
<1>1. m = "decision" => c.method \in {"propose", "evaluate", "raise_objection", "vote"} /\ a = DecisionActions[c.method]
  BY DEF MethodsOf, ActionOf, ActionsOf, DecisionMethods, AsyncDecisionMethods, Same
<1>2. m = "quorum" => c.method \in {"request_approval", "approve", "reject", "abstain"} /\ a = QuorumActions[c.method]
  BY DEF MethodsOf, ActionOf, ActionsOf, QuorumMethods, AsyncQuorumMethods, Same
<1>3. m = "handoff" => c.method \in {"offer", "add_context", "accept_handoff", "decline"} /\ a = HandoffActions[c.method]
  BY DEF MethodsOf, ActionOf, ActionsOf, HandoffMethods, AsyncHandoffMethods, Same
<1>4. m = "proposal" => c.method \in {"propose", "counter_propose", "accept", "reject", "withdraw"} /\ a = ProposalActions[c.method]
  BY DEF MethodsOf, ActionOf, ActionsOf, ProposalMethods, AsyncProposalMethods, Same
<1>5. m = "multi_round" => c.method = "contribute" /\ a = MultiRoundActions[c.method]
  BY DEF MethodsOf, ActionOf, ActionsOf, MultiRoundMethods, AsyncMultiRoundMethods, Same
<1> QED BY <1>1, <1>2, <1>3, <1>4, <1>5

\* Task has deprecated names beside the current ones.
TaskAction(name) ==
    CASE name \in {"request_task", "request"} -> Action("TaskRequest", {"subject"}, "plain")
      [] name = "accept_task" -> Action("TaskAccept", {"subject"}, "actor")
      [] name = "reject_task" -> Action("TaskReject", {"subject"}, "actor")
      [] name \in {"update_task", "update"} -> Action("TaskUpdate", {"subject"}, "plain")
      [] name \in {"complete_task", "complete"} -> Action("TaskComplete", {"subject"}, "actor")
      [] name \in {"fail_task", "fail"} -> Flagging(Action("TaskFail", {"subject"}, "actor"))
TaskNames ==
    {"request_task", "request", "accept_task", "reject_task", "update_task", "update",
     "complete_task", "complete", "fail_task", "fail"}

LEMMA TaskActionIs ==
    ASSUME NEW f \in Flavours, NEW c, c.method \in DOMAIN MethodsOf(f, "task")
    PROVE  c.method \in TaskNames /\ ActionOf(f, "task", c) = TaskAction(c.method)
<1>1. PICK g : g = MethodsOf(f, "task")
  OBVIOUS
<1>2. g = Extended(TaskAssignmentMethods, TaskReportMethods) \/ g = AsyncTaskMethods
  BY <1>1 DEF MethodsOf
<1>3. /\ DOMAIN TaskAssignmentMethods = {"request_task", "accept_task", "reject_task", "request"}
      /\ TaskAssignmentMethods["request"] = "request_task"
      /\ \A n \in {"request_task", "accept_task", "reject_task"} : TaskAssignmentMethods[n] = n
  BY DEF TaskAssignmentMethods, Extended, Same, TaskAssignments
<1>4. /\ DOMAIN TaskReportMethods = {"update_task", "complete_task", "fail_task", "update", "complete", "fail"}
      /\ TaskReportMethods["update"] = "update_task" /\ TaskReportMethods["complete"] = "complete_task"
      /\ TaskReportMethods["fail"] = "fail_task"
      /\ \A n \in {"update_task", "complete_task", "fail_task"} : TaskReportMethods[n] = n
  BY DEF TaskReportMethods, Extended, Same, TaskReports
<1>5. DOMAIN AsyncTaskMethods = {"request_task", "accept_task", "reject_task", "update_task", "complete_task", "fail_task"}
      /\ \A n \in DOMAIN AsyncTaskMethods : AsyncTaskMethods[n] = n
  BY DEF AsyncTaskMethods, Same, TaskAssignments, TaskReports
<1>6. /\ c.method \in TaskNames
      /\ g[c.method] = CASE c.method = "request" -> "request_task" [] c.method = "update" -> "update_task"
                         [] c.method = "complete" -> "complete_task" [] c.method = "fail" -> "fail_task"
                         [] OTHER -> c.method
  <2>1. CASE g = Extended(TaskAssignmentMethods, TaskReportMethods)
    BY <1>1, <1>3, <1>4, <2>1 DEF Extended, TaskNames
  <2>2. CASE g = AsyncTaskMethods
    BY <1>1, <1>5, <2>2 DEF TaskNames
  <2> QED BY <1>2, <2>1, <2>2
<1>7. PICK t : t = Extended(TaskAssignments, TaskReports)
  OBVIOUS
<1>8. ActionOf(f, "task", c) = t[g[c.method]]
  BY <1>1, <1>7 DEF ActionOf, ActionsOf
<1>9. \A n \in {"request_task", "accept_task", "reject_task", "update_task", "complete_task", "fail_task"} : t[n] = TaskAction(n)
  BY <1>7 DEF Extended, TaskAssignments, TaskReports, TaskAction
<1> QED BY <1>6, <1>8, <1>9 DEF TaskNames, TaskAction

\* The envelope of a call that is no commitment.
LEMMA EnvelopeIs ==
    ASSUME NEW f, NEW m, NEW c, c.method # "commit", NEW a, a = ActionOf(f, m, c), NEW e, e = Build(f, m, c)
    PROVE  /\ e.type = a.type /\ e.value = BuiltValue(a.kind, c) /\ e.flag = (a.flag /\ c.flag)
           /\ e.sender = SenderOf(c) /\ e.subject = c.subject /\ e.id = c.id
<1>1. e = BuildAction(m, a, c)
  BY DEF Build
<1> QED BY <1>1 DEF BuildAction, Envelope

LEMMA CommitmentIs ==
    ASSUME NEW f, NEW m, NEW c, c.method = "commit", NEW e, e = Build(f, m, c)
    PROVE  e.type = "Commitment" /\ e.flag = OutcomeOf(c) /\ e.sender = SenderOf(c) /\ e.id = c.id
<1>1. e = BuildCommit(m, c)
  BY DEF Build
<1> QED BY <1>1 DEF BuildCommit, Envelope

LEMMA Unrefused ==
    ASSUME NEW f, NEW m, NEW v, NEW c, ~Refused(f, m, v, c)
    PROVE  Own(c)
<1>1. CASE c.method = "commit"
  BY <1>1 DEF Refused, CommitRefused, Own
<1>2. CASE c.method = "contribute"
  BY <1>2 DEF Refused, ContributeRefused, Own
<1>3. CASE c.method \notin {"commit", "contribute"}
  <2>1. PICK a : a = ActionOf(f, m, c)
    OBVIOUS
  <2>2. Refused(f, m, v, c) <=> ActionRefused(a, c)
    BY <1>3, <2>1 DEF Refused
  <2> QED BY <2>2 DEF ActionRefused, Own
<1> QED BY <1>1, <1>2, <1>3

\* What the last entry of a sequence is.
LEMMA LastIs ==
    ASSUME NEW s, Sequence(s), NEW x, NEW r, r = Append(s, x)
    PROVE  Sequence(r) /\ Len(r) \in DOMAIN r /\ r[Len(r)] = x
BY AppendSequence DEF Grown

-----------------------------------------------------------------------------
\* Decision.
LEMMA DecisionPhaseLeaves ==
    ASSUME NEW v, DOMAIN v = DOMAIN Decision!DecisionInit, NEW x, NEW w, w = Decision!SetPhase(v, x)
    PROVE  w.evaluations = v.evaluations /\ w.objections = v.objections /\ w.proposals = v.proposals
BY DEF Decision!SetPhase, Decision!DecisionInit

LEMMA ProposalWrites ==
    ASSUME NEW v, DOMAIN v = DOMAIN Decision!DecisionInit, NEW e, e.type = "Proposal", NEW w, w = Decision!Effect(v, e)
    PROVE  /\ w.proposals[e.subject].sender = e.sender
           /\ w.evaluations = v.evaluations /\ w.objections = v.objections
<1>1. w = Decision!OnProposal(v, e)
  BY DEF Decision!Effect, Decision!DecisionStep
<1>2. PICK x : x = [option |-> e.value, sender |-> e.sender]
  OBVIOUS
<1>3. PICK u : u = [v EXCEPT !.proposals = Decision!Put(@, e.subject, x)]
  OBVIOUS
<1>4. w = u \/ w = Decision!SetPhase(u, "Evaluation")
  BY <1>1, <1>2, <1>3 DEF Decision!OnProposal
<1>5. /\ DOMAIN u = DOMAIN v /\ u.proposals = Decision!Put(v.proposals, e.subject, x)
      /\ u.evaluations = v.evaluations /\ u.objections = v.objections
  BY <1>3 DEF Decision!DecisionInit
<1>6. u.proposals[e.subject] = x /\ x.sender = e.sender
  BY <1>2, <1>5 DEF Decision!Put
<1> QED BY <1>4, <1>5, <1>6, DecisionPhaseLeaves

LEMMA EvaluationWrites ==
    ASSUME NEW v, DOMAIN v = DOMAIN Decision!DecisionInit, NEW e, e.type = "Evaluation", NEW w, w = Decision!Effect(v, e)
    PROVE  /\ \E x : x.sender = e.sender /\ x.value = e.value /\ w.evaluations = Append(v.evaluations, x)
           /\ w.objections = v.objections
<1>1. w = Decision!OnEvaluation(v, e)
  BY DEF Decision!Effect, Decision!DecisionStep
<1>2. PICK x : x = [subject |-> e.subject, value |-> e.value, sender |-> e.sender]
  OBVIOUS
<1>3. PICK u : u = [v EXCEPT !.evaluations = Append(@, x)]
  OBVIOUS
<1>4. w = Decision!SetPhase(u, "Evaluation")
  BY <1>1, <1>2, <1>3 DEF Decision!OnEvaluation
<1>5. DOMAIN u = DOMAIN v /\ u.evaluations = Append(v.evaluations, x) /\ u.objections = v.objections
  BY <1>3 DEF Decision!DecisionInit
<1>6. x.sender = e.sender /\ x.value = e.value
  BY <1>2
<1> QED BY <1>4, <1>5, <1>6, DecisionPhaseLeaves

LEMMA ObjectionWrites ==
    ASSUME NEW v, DOMAIN v = DOMAIN Decision!DecisionInit, NEW e, e.type = "Objection", NEW w, w = Decision!Effect(v, e)
    PROVE  /\ \E x : /\ x.subject = e.subject /\ (e.value = "critical" => x.severity = "critical")
                     /\ w.objections = Append(v.objections, x)
           /\ w.evaluations = v.evaluations
<1>1. w = Decision!OnObjection(v, e)
  BY DEF Decision!Effect, Decision!DecisionStep
<1>2. PICK x : x = [subject |-> e.subject, sender |-> e.sender,
                    severity |-> IF e.value = "" THEN "medium" ELSE e.value]
  OBVIOUS
<1>3. w = [v EXCEPT !.objections = Append(@, x)]
  BY <1>1, <1>2 DEF Decision!OnObjection
<1>4. w.objections = Append(v.objections, x) /\ w.evaluations = v.evaluations
  BY <1>3 DEF Decision!DecisionInit
<1>5. x.subject = e.subject /\ (e.value = "critical" => x.severity = "critical")
  BY <1>2
<1> QED BY <1>4, <1>5

\* Nothing else changes the evaluations or the objections.
LEMMA OtherDecisionWrites ==
    ASSUME NEW v, DOMAIN v = DOMAIN Decision!DecisionInit, NEW e, e.type \notin {"Proposal", "Evaluation", "Objection"},
           NEW w, w = Decision!Effect(v, e)
    PROVE  w.evaluations = v.evaluations /\ w.objections = v.objections
<1>1. CASE e.type = "Commitment"
  <2>1. w = [v EXCEPT !.commitment = e.subject, !.phase = "Committed"]
    BY <1>1 DEF Decision!Effect
  <2> QED BY <2>1 DEF Decision!DecisionInit
<1>2. CASE e.type = "Vote"
  <2>1. w = Decision!OnVote(v, e)
    BY <1>2 DEF Decision!Effect, Decision!DecisionStep
  <2>2. PICK k : k = <<e.subject, e.sender>>
    OBVIOUS
  <2>3. PICK u : u = [v EXCEPT !.votes = Decision!Put(@, k, e.value)]
    OBVIOUS
  <2>4. PICK z : z = Decision!RecordAnomaly(v, "duplicate_vote", e)
    OBVIOUS
  <2>5. w = v \/ w = z \/ w = Decision!SetPhase(u, "Voting")
    BY <2>1, <2>2, <2>3, <2>4 DEF Decision!OnVote
  <2>6. DOMAIN u = DOMAIN v /\ u.evaluations = v.evaluations /\ u.objections = v.objections
    BY <2>3 DEF Decision!DecisionInit
  <2>7. z.evaluations = v.evaluations /\ z.objections = v.objections
    BY <2>4 DEF Decision!RecordAnomaly, Decision!DecisionInit
  <2> QED BY <2>5, <2>6, <2>7, DecisionPhaseLeaves
<1>3. CASE e.type \notin {"Commitment", "Vote"}
  <2>1. Decision!Effect(v, e) = Decision!DecisionStep(v, e)
    BY <1>3 DEF Decision!Effect
  <2>2. Decision!DecisionStep(v, e) = v
    BY <1>3, Zenon DEF Decision!DecisionStep
  <2> QED BY <2>1, <2>2
<1> QED BY <1>1, <1>2, <1>3

\* The totals a new vote shows up in.
LEMMA VoteTells ==
    ASSUME NEW w, IsFiniteSet(DOMAIN w.votes), NEW p, NEW s, <<p, s>> \in DOMAIN w.votes, NEW x, w.votes[<<p, s>>] = x
    PROVE  /\ x = "APPROVE" => Decision!VoteTotals(w)[p] > 0
           /\ x # "ABSTAIN" => Decision!VoteRatio(w, p).of > 0
<1>0. \A S : S \in SUBSET DOMAIN w.votes /\ <<p, s>> \in S => Decision!Cardinality(S) > 0
  <2> SUFFICES ASSUME NEW S, S \in SUBSET DOMAIN w.votes, <<p, s>> \in S PROVE Decision!Cardinality(S) > 0
    OBVIOUS
  <2>1. IsFiniteSet(S)
    BY FS_Subset
  <2>2. Cardinality(S) \in Nat /\ Cardinality(S) # 0
    BY <2>1, FS_CardinalityType, FS_EmptySet
  <2> QED BY <2>2, OneCardinality
<1>1. ASSUME x = "APPROVE" PROVE Decision!VoteTotals(w)[p] > 0
  <2>1. p \in {k[1] : k \in DOMAIN w.votes}
    BY DEF Decision!VotesOn
  <2>2. <<p, s>> \in Decision!Approvals(w, p) /\ Decision!Approvals(w, p) \in SUBSET DOMAIN w.votes
    BY <1>1 DEF Decision!Approvals, Decision!VotesOn, Decision!IsPositiveVote
  <2>3. Decision!VoteTotals(w)[p] = Decision!Cardinality(Decision!Approvals(w, p))
    BY <2>1 DEF Decision!VoteTotals
  <2> QED BY <1>0, <2>2, <2>3
<1>2. ASSUME x # "ABSTAIN" PROVE Decision!VoteRatio(w, p).of > 0
  <2>1. PICK S : S = Decision!Counted(w, Decision!VotesOn(w, p))
    OBVIOUS
  <2>2. <<p, s>> \in S /\ S \in SUBSET DOMAIN w.votes
    BY <1>2, <2>1 DEF Decision!Counted, Decision!VotesOn
  <2>3. Decision!VoteRatio(w, p).of = Decision!Cardinality(S)
    BY <2>1 DEF Decision!VoteRatio
  <2> QED BY <1>0, <2>2, <2>3
<1> QED BY <1>1, <1>2

LEMMA DecisionShown ==
    ASSUME NEW t, NEW v, DecisionInv(t, v), PhaseInv(t, v), Sequence(v.evaluations), Sequence(v.objections),
           NEW f \in Flavours, NEW c, c.method \in DOMAIN MethodsOf(f, "decision"),
           c.who = SenderOf(c), c.means = MeaningOf("decision", c),
           NEW e, e = Build(f, "decision", c), Decision!Conforming(t, e), NEW w, w = Decision!Effect(v, e)
    PROVE  Decision!Shows(c, w)
<1> PICK a : a = ActionOf(f, "decision", c)
  OBVIOUS
<1>1. /\ c.method \in {"propose", "evaluate", "raise_objection", "vote"} /\ a = DecisionActions[c.method]
      /\ c.method # "commit"
  BY ActionIs DEF Modes
<1>2. /\ e.type = a.type /\ e.value = BuiltValue(a.kind, c) /\ e.sender = c.who /\ e.subject = c.subject
  BY <1>1, EnvelopeIs
<1>3. DOMAIN v = DOMAIN Decision!DecisionInit
  BY DEF DecisionInv
<1>a. Sequence(v.evaluations) /\ Sequence(v.objections)
  OBVIOUS
<1>4. CASE c.method = "propose"
  <2>1. e.type = "Proposal"
    BY <1>1, <1>2, <1>4 DEF DecisionActions, Action
  <2>2. w.proposals[e.subject].sender = e.sender
    BY <1>3, <2>1, ProposalWrites
  <2>3. w.proposals[c.subject].sender = c.who
    BY <1>2, <2>2
  <2> QED BY <1>4, <2>3 DEF Decision!Shows
<1>5. CASE c.method = "evaluate"
  <2>1. e.type = "Evaluation" /\ a.kind = "recommendation"
    BY <1>1, <1>2, <1>5 DEF DecisionActions, Action
  <2>2. e.value = Upper(c.value)
    BY <1>2, <2>1 DEF BuiltValue
  <2>3. c.means = Upper(c.value)
    BY <1>5 DEF MeaningOf
  <2>4. PICK x : x.sender = e.sender /\ x.value = e.value /\ w.evaluations = Append(v.evaluations, x)
    BY <1>3, <2>1, EvaluationWrites
  <2>5. PICK s : s = w.evaluations
    OBVIOUS
  <2>6. PICK r : r = v.evaluations
    OBVIOUS
  <2>7. Sequence(r) /\ s = Append(r, x)
    BY <1>a, <2>4, <2>5, <2>6
  <2>8. Len(s) \in DOMAIN s /\ s[Len(s)] = x
    BY ONLY <2>7, LastIs
  <2>9. s[Len(s)].sender = c.who /\ (s[Len(s)].value = "REVIEW" <=> c.means = "REVIEW")
    BY <1>2, <2>2, <2>3, <2>4, <2>8
  <2>10. Len(s) \in Decision!ReviewEvaluations(w) <=> s[Len(s)].value = "REVIEW"
    BY <2>5, <2>8 DEF Decision!ReviewEvaluations
  <2> QED BY <1>5, <2>5, <2>9, <2>10 DEF Decision!Shows
<1>6. CASE c.method = "raise_objection"
  <2>1. e.type = "Objection" /\ a.kind = "severity"
    BY <1>1, <1>2, <1>6 DEF DecisionActions, Action
  <2>2. e.value = Lower(c.value)
    BY <1>2, <2>1 DEF BuiltValue
  <2>3. c.means = Lower(c.value)
    BY <1>6 DEF MeaningOf
  <2>4. PICK x : /\ x.subject = e.subject /\ (e.value = "critical" => x.severity = "critical")
                 /\ w.objections = Append(v.objections, x)
    BY <1>3, <2>1, ObjectionWrites
  <2>5. PICK s : s = w.objections
    OBVIOUS
  <2>6. PICK r : r = v.objections
    OBVIOUS
  <2>7. Sequence(r) /\ s = Append(r, x)
    BY <1>a, <2>4, <2>5, <2>6
  <2>8. Len(s) \in DOMAIN s /\ s[Len(s)] = x
    BY ONLY <2>7, LastIs
  <2>9. s[Len(s)].subject = c.subject /\ (c.means = "critical" => s[Len(s)].severity = "critical")
    BY <1>2, <2>2, <2>3, <2>4, <2>8
  <2>10. c.means = "critical" => Decision!HasBlockingObjection(w, c.subject)
    BY <2>5, <2>8, <2>9 DEF Decision!HasBlockingObjection
  <2> QED BY <1>6, <2>10 DEF Decision!Shows
<1>7. CASE c.method = "vote"
  <2>1. e.type = "Vote" /\ a.kind = "vote"
    BY <1>1, <1>2, <1>7 DEF DecisionActions, Action
  <2>2. e.value = Upper(c.value)
    BY <1>2, <2>1 DEF BuiltValue
  <2>3. c.means = Upper(c.value)
    BY <1>7 DEF MeaningOf
  <2>4. PICK k : k = <<e.subject, e.sender>>
    OBVIOUS
  <2>5. Decision!Proposed(t, e.subject) /\ ~Decision!Voted(t, e.subject, e.sender)
    BY <2>1 DEF Decision!Conforming, Decision!Accepts
  <2>6. e.subject \in DOMAIN v.proposals
    BY <2>5 DEF Decision!Proposed, DecisionInv
  <2>7. k \notin DOMAIN v.votes
    BY <2>4, <2>5 DEF PhaseInv
  <2>8. w.votes = Decision!Put(v.votes, k, e.value)
    BY <1>3, <2>1, <2>4, <2>6, <2>7, DecisionEffect
  <2>9. DOMAIN w.votes = DOMAIN v.votes \cup {k} /\ w.votes[k] = e.value
    BY <2>8 DEF Decision!Put
  <2>10. IsFiniteSet(DOMAIN w.votes)
    BY <2>9, FS_AddElement DEF DecisionInv
  <2>11. <<c.subject, c.who>> \in DOMAIN w.votes /\ w.votes[<<c.subject, c.who>>] = c.means
    BY <1>2, <2>2, <2>3, <2>4, <2>9
  <2>12. /\ c.means = "APPROVE" => Decision!VoteTotals(w)[c.subject] > 0
         /\ c.means # "ABSTAIN" => Decision!VoteRatio(w, c.subject).of > 0
    BY ONLY <2>10, <2>11, VoteTells
  <2> QED BY <1>7, <2>11, <2>12 DEF Decision!Shows
<1> QED BY <1>1, <1>4, <1>5, <1>6, <1>7

-----------------------------------------------------------------------------
\* Quorum.  Each ballot counted is in the history.
CastIn(t, v) ==
    \A k \in DOMAIN v.ballots : \E i \in DOMAIN t : t[i].type \in DOMAIN Quorum!Choice /\ t[i].sender = k[2]

LEMMA CastKeeps ==
    ASSUME NEW t, NEW v, QuorumInv(t, v), CastIn(t, v), NEW e, NEW u, Grown(t, e, u), NEW w, w = Quorum!Effect(v, e)
    PROVE  CastIn(u, w)
<1> PICK k : k = <<e.subject, e.sender>>
  OBVIOUS
<1> PICK n : n = Len(t) + 1
  OBVIOUS
<1>1. n \in DOMAIN u /\ u[n] = e /\ \A i \in DOMAIN t : i \in DOMAIN u /\ u[i] = t[i]
  BY DEF Grown
<1>2. \/ w.ballots = v.ballots
      \/ e.type \in DOMAIN Quorum!Choice /\ w.ballots = Quorum!Put(v.ballots, k, Quorum!Choice[e.type])
  BY QuorumEffect DEF QuorumInv
<1>3. ASSUME NEW x \in DOMAIN v.ballots
      PROVE  \E i \in DOMAIN u : u[i].type \in DOMAIN Quorum!Choice /\ u[i].sender = x[2]
  BY <1>1 DEF CastIn
<1>4. CASE w.ballots = v.ballots
  BY <1>3, <1>4 DEF CastIn
<1>5. CASE e.type \in DOMAIN Quorum!Choice /\ w.ballots = Quorum!Put(v.ballots, k, Quorum!Choice[e.type])
  <2>1. DOMAIN w.ballots = DOMAIN v.ballots \cup {k}
    BY <1>5 DEF Quorum!Put
  <2>2. u[n].type \in DOMAIN Quorum!Choice /\ u[n].sender = k[2]
    BY <1>1, <1>5
  <2> QED BY <1>1, <1>3, <2>1, <2>2 DEF CastIn
<1> QED BY <1>2, <1>4, <1>5

LEMMA QuorumShown ==
    ASSUME NEW t, Sequence(t), NEW v, QuorumInv(t, v), CastIn(t, v),
           NEW f \in Flavours, NEW c, c.method \in DOMAIN MethodsOf(f, "quorum"),
           c.who = SenderOf(c), c.means = MeaningOf("quorum", c),
           NEW e, e = Build(f, "quorum", c), Quorum!Conforming(t, e), NEW w, w = Quorum!Effect(v, e)
    PROVE  Quorum!Shows(c, w)
<1> PICK a : a = ActionOf(f, "quorum", c)
  OBVIOUS
<1>1. /\ c.method \in {"request_approval", "approve", "reject", "abstain"} /\ a = QuorumActions[c.method]
      /\ c.method # "commit"
  BY ActionIs DEF Modes
<1>2. /\ e.type = a.type /\ e.value = BuiltValue(a.kind, c) /\ e.sender = c.who /\ e.subject = c.subject
  BY <1>1, EnvelopeIs
<1>3. DOMAIN v = DOMAIN Quorum!QuorumInit
  BY DEF QuorumInv
<1>4. CASE c.method = "request_approval"
  <2>1. e.type = "ApprovalRequest" /\ a.kind = "plain"
    BY <1>1, <1>2, <1>4 DEF QuorumActions, Action
  <2>2. e.value = c.value
    BY <1>2, <2>1 DEF BuiltValue
  <2>3. c.means = c.value
    BY <1>4 DEF MeaningOf
  <2>4. PICK k : k = <<e.subject, e.sender>>
    OBVIOUS
  <2>5. w.requests = Quorum!Put(v.requests, e.subject, e.value)
    BY <1>3, <2>1, <2>4, QuorumEffect
  <2>6. w.requests[c.subject] = c.means
    BY <1>2, <2>2, <2>3, <2>5 DEF Quorum!Put
  <2> QED BY <1>4, <2>6 DEF Quorum!Shows
<1>5. CASE c.method \in {"approve", "reject", "abstain"}
  <2>1. e.type \in DOMAIN Quorum!Choice /\ Quorum!Choice[e.type] = c.method
    BY <1>1, <1>2, <1>5 DEF QuorumActions, Action, Quorum!Choice
  <2>2. c.means = c.method
    BY <1>5 DEF MeaningOf
  <2>3. PICK k : k = <<e.subject, e.sender>>
    OBVIOUS
  <2>4. /\ t # <<>> /\ t[1].type = "ApprovalRequest" /\ t[1].subject = e.subject
        /\ \A i \in DOMAIN t : t[i].type \in DOMAIN Quorum!Choice => t[i].sender # e.sender
    BY <2>1 DEF Quorum!Conforming
  <2>5. 1 \in DOMAIN t
    BY <2>4 DEF Sequence
  <2>6. e.subject \in DOMAIN v.requests
    BY <2>4, <2>5 DEF QuorumInv
  <2>7. k \notin DOMAIN v.ballots
    BY <2>3, <2>4 DEF CastIn
  <2>8. w.ballots = Quorum!Put(v.ballots, k, Quorum!Choice[e.type])
    BY <1>3, <2>1, <2>3, <2>6, <2>7, QuorumEffect
  <2>9. w.ballots[<<c.subject, c.who>>] = c.means
    BY <1>2, <2>1, <2>2, <2>3, <2>8 DEF Quorum!Put
  <2> QED BY <1>5, <2>9 DEF Quorum!Shows
<1> QED BY <1>1, <1>4, <1>5

-----------------------------------------------------------------------------
\* Multi-round.
LEMMA MultiRoundShown ==
    ASSUME NEW t, NEW v, DOMAIN v = DOMAIN MultiRound!MultiRoundInit, RoundInv(MultiRound!Roster, t, v),
           NEW f \in Flavours, NEW c, c.method \in DOMAIN MethodsOf(f, "multi_round"),
           c.who = SenderOf(c), c.means = MeaningOf("multi_round", c),
           NEW e, e = Build(f, "multi_round", c), MultiRound!Conforming(t, e), NEW w, w = MultiRound!Effect(v, e)
    PROVE  MultiRound!Shows(c, w)
<1> PICK a : a = ActionOf(f, "multi_round", c)
  OBVIOUS
<1>1. c.method = "contribute" /\ a = MultiRoundActions[c.method] /\ c.method # "commit"
  BY ActionIs DEF Modes
<1>2. /\ e.type = a.type /\ e.value = BuiltValue(a.kind, c) /\ e.sender = c.who
  BY <1>1, EnvelopeIs
<1>3. e.type = "Contribute" /\ a.kind = "plain"
  BY <1>1, <1>2 DEF MultiRoundActions, Action
<1>4. e.value = c.value
  BY <1>2, <1>3 DEF BuiltValue
<1>5. c.means = c.value
  BY <1>1 DEF MeaningOf
<1>6. MultiRound!MayContribute(t, e.sender, e.value)
  BY <1>3 DEF MultiRound!Conforming
<1>7. /\ t # <<>> /\ e.sender \in MultiRound!Roster /\ e.value # MultiRound!Undecodable
      /\ ~MultiRound!Converged(t)
  BY <1>6 DEF MultiRound!MayContribute
<1>8. ~v.converged /\ MultiRound!IsParticipant(v, e.sender)
  BY <1>7, AgreedIs DEF RoundInv, MultiRound!IsParticipant
<1>9. \/ v.contributions[e.sender] = e.value /\ w.contributions = v.contributions
      \/ w.contributions = MultiRound!Put(v.contributions, e.sender, e.value)
  BY <1>3, <1>7, <1>8, ContributionWrites
<1>10. w.contributions[e.sender] = e.value
  BY <1>9 DEF MultiRound!Put
<1> QED BY <1>2, <1>4, <1>5, <1>10 DEF MultiRound!Shows

-----------------------------------------------------------------------------
\* Proposal.  A proposal has a status, and the phase is the commitment's after one alone.
StatusInv(t, v) ==
    /\ \A p \in DOMAIN v.proposals : "status" \in DOMAIN v.proposals[p]
    /\ v.phase = "Committed" => \E i \in DOMAIN t : t[i].type = "Commitment"

OpenRecord(r, s, x) == r = [sender |-> s, supersedes |-> x, status |-> "open"]

Opening(v, e, w) ==
    /\ DOMAIN w.proposals = DOMAIN v.proposals \cup {e.subject}
    /\ \A p \in DOMAIN v.proposals : p # e.subject => w.proposals[p] = v.proposals[p]
    /\ e.type = "Proposal" => OpenRecord(w.proposals[e.subject], e.sender, "")
    /\ e.type = "CounterProposal" => OpenRecord(w.proposals[e.subject], e.sender, e.value)

LEMMA OpeningWrites ==
    ASSUME NEW v, DOMAIN v = DOMAIN Proposal!ProposalInit, NEW e, Opens(e), NEW w, w = Proposal!Effect(v, e)
    PROVE  Opening(v, e, w)
<1>1. PICK x : /\ w = Proposal!OnPropose(v, e, x)
               /\ e.type = "Proposal" => x = ""
               /\ e.type = "CounterProposal" => x = e.value
  BY DEF Proposal!Effect, Proposal!ProposalStep, Opens
<1>2. PICK y : y = [sender |-> e.sender, supersedes |-> x, status |-> "open"]
  OBVIOUS
<1>3. w = [v EXCEPT !.proposals = Proposal!Put(@, e.subject, y)]
  BY <1>1, <1>2 DEF Proposal!OnPropose
<1>4. w.proposals = Proposal!Put(v.proposals, e.subject, y)
  BY <1>3 DEF Proposal!ProposalInit
<1>5. OpenRecord(y, e.sender, x)
  BY <1>2 DEF OpenRecord
<1>6. /\ DOMAIN w.proposals = DOMAIN v.proposals \cup {e.subject} /\ w.proposals[e.subject] = y
      /\ \A p \in DOMAIN v.proposals : p # e.subject => w.proposals[p] = v.proposals[p]
  BY <1>4 DEF Proposal!Put
<1> QED BY <1>1, <1>5, <1>6 DEF Opening

\* Afterwards a proposal is marked or left alone.
LEMMA MarkingWrites ==
    ASSUME NEW v, DOMAIN v = DOMAIN Proposal!ProposalInit, NEW e, ~Opens(e), NEW w, w = Proposal!Effect(v, e)
    PROVE  /\ DOMAIN w.proposals = DOMAIN v.proposals
           /\ \A p \in DOMAIN v.proposals :
                "status" \in DOMAIN v.proposals[p] => "status" \in DOMAIN w.proposals[p]
           /\ e.type = "Withdraw" /\ e.subject \in DOMAIN v.proposals =>
                w.proposals = [v.proposals EXCEPT ![e.subject].status = "withdrawn"]
<1>1. CASE e.type = "Commitment"
  <2>1. w = [v EXCEPT !.commitment = e.subject, !.phase = "Committed"]
    BY <1>1 DEF Proposal!Effect
  <2> QED BY <1>1, <2>1 DEF Proposal!ProposalInit
<1>2. CASE e.type = "Accept"
  <2>1. w = Proposal!OnAccept(v, e)
    BY <1>2 DEF Proposal!Effect, Proposal!ProposalStep
  <2>2. PICK x : x = [proposal |-> e.subject, sender |-> e.sender]
    OBVIOUS
  <2>3. w = [v EXCEPT !.accepts = Append(@, x), !.latest = Proposal!Put(@, e.sender, e.subject)]
    BY <2>1, <2>2 DEF Proposal!OnAccept
  <2> QED BY <1>2, <2>3 DEF Proposal!ProposalInit
<1>3. CASE e.type = "Reject"
  <2>1. w = Proposal!OnReject(v, e)
    BY <1>3 DEF Proposal!Effect, Proposal!ProposalStep
  <2>2. PICK x : x = [proposal |-> e.subject, sender |-> e.sender, terminal |-> e.flag]
    OBVIOUS
  <2>3. PICK u : u = [v EXCEPT !.rejections = Append(@, x)]
    OBVIOUS
  <2>4. DOMAIN u = DOMAIN v /\ u.proposals = v.proposals
    BY <2>3 DEF Proposal!ProposalInit
  <2>5. PICK y : y = [u EXCEPT !.proposals[e.subject].status = "rejected"]
    OBVIOUS
  <2>6. w = u \/ w = Proposal!SetPhase(y, "TerminalRejected")
    BY <2>1, <2>2, <2>3, <2>5 DEF Proposal!OnReject
  <2>7. DOMAIN y = DOMAIN v /\ y.proposals = [v.proposals EXCEPT ![e.subject].status = "rejected"]
    BY <2>4, <2>5 DEF Proposal!ProposalInit
  <2>8. w.proposals = v.proposals \/ w.proposals = [v.proposals EXCEPT ![e.subject].status = "rejected"]
    BY <2>4, <2>6, <2>7, ProposalPhase
  <2> QED BY <1>3, <2>8
<1>4. CASE e.type = "Withdraw"
  <2>1. w = Proposal!OnWithdraw(v, e)
    BY <1>4 DEF Proposal!Effect, Proposal!ProposalStep
  <2>2. CASE ~Proposal!Known(v, e)
    BY <2>1, <2>2 DEF Proposal!OnWithdraw, Proposal!Known
  <2>3. CASE Proposal!Known(v, e)
    <3>1. w = [v EXCEPT !.proposals[e.subject].status = "withdrawn"]
      BY <2>1, <2>3 DEF Proposal!OnWithdraw
    <3>2. w.proposals = [v.proposals EXCEPT ![e.subject].status = "withdrawn"]
      BY <3>1 DEF Proposal!ProposalInit
    <3> QED BY <3>2
  <2> QED BY <2>2, <2>3
<1>5. CASE e.type \notin {"Commitment", "Accept", "Reject", "Withdraw"}
  <2>1. Proposal!Effect(v, e) = Proposal!ProposalStep(v, e)
    BY <1>5 DEF Proposal!Effect
  <2>2. Proposal!ProposalStep(v, e) = v
    BY <1>5, Zenon DEF Proposal!ProposalStep, Opens
  <2> QED BY <1>5, <2>1, <2>2
<1> QED BY <1>1, <1>2, <1>3, <1>4, <1>5

LEMMA StatusKeeps ==
    ASSUME NEW t, NEW v, ProposalInv(t, v), StatusInv(t, v), NEW e, NEW u, Grown(t, e, u), NEW w, w = Proposal!Effect(v, e)
    PROVE  StatusInv(u, w)
<1> PICK n : n = Len(t) + 1
  OBVIOUS
<1>1. n \in DOMAIN u /\ u[n] = e /\ \A i \in DOMAIN t : i \in DOMAIN u /\ u[i] = t[i]
  BY DEF Grown
<1>2. DOMAIN v = DOMAIN Proposal!ProposalInit
  BY DEF ProposalInv
<1>3. ProposalMoves(v, e, w)
  BY <1>2, ProposalEffect
<1>4. w.phase = "Committed" => v.phase = "Committed" \/ e.type = "Commitment"
  BY <1>3 DEF ProposalMoves
<1>5. w.phase = "Committed" => \E i \in DOMAIN u : u[i].type = "Commitment"
  BY <1>1, <1>4 DEF StatusInv
<1>6. CASE Opens(e)
  <2>1. Opening(v, e, w)
    BY <1>2, <1>6, OpeningWrites
  <2>2. PICK x : OpenRecord(w.proposals[e.subject], e.sender, x)
    BY <1>6, <2>1 DEF Opening, Opens
  <2>3. "status" \in DOMAIN w.proposals[e.subject]
    BY <2>2 DEF OpenRecord
  <2> QED BY <1>5, <2>1, <2>3 DEF StatusInv, Opening
<1>7. CASE ~Opens(e)
  <2>1. /\ DOMAIN w.proposals = DOMAIN v.proposals
        /\ \A p \in DOMAIN v.proposals :
                "status" \in DOMAIN v.proposals[p] => "status" \in DOMAIN w.proposals[p]
    BY <1>2, <1>7, MarkingWrites
  <2> QED BY <1>5, <2>1 DEF StatusInv
<1> QED BY <1>6, <1>7

LEMMA ProposalShown ==
    ASSUME NEW t, NEW v, ProposalInv(t, v), StatusInv(t, v),
           NEW f \in Flavours, NEW c, c.method \in DOMAIN MethodsOf(f, "proposal"), c.flag \in BOOLEAN,
           c.who = SenderOf(c), c.means = MeaningOf("proposal", c),
           NEW e, e = Build(f, "proposal", c), Proposal!Conforming(t, e), NEW w, w = Proposal!Effect(v, e)
    PROVE  Proposal!Shows(c, w)
<1> PICK a : a = ActionOf(f, "proposal", c)
  OBVIOUS
<1>1. /\ c.method \in {"propose", "counter_propose", "accept", "reject", "withdraw"} /\ a = ProposalActions[c.method]
      /\ c.method # "commit"
  BY ActionIs DEF Modes
<1>2. /\ e.type = a.type /\ e.value = BuiltValue(a.kind, c) /\ e.sender = c.who /\ e.subject = c.subject
      /\ e.flag = (a.flag /\ c.flag)
  BY <1>1, EnvelopeIs
<1>3. DOMAIN v = DOMAIN Proposal!ProposalInit
  BY DEF ProposalInv
<1>4. ProposalMoves(v, e, w)
  BY <1>3, ProposalEffect
<1>5. v.phase # "Committed"
  BY DEF StatusInv, Proposal!Conforming
<1>6. e.type \in {"Accept", "Reject", "Withdraw"} => e.subject \in DOMAIN v.proposals
  BY DEF Proposal!Conforming, Proposal!Opened, ProposalInv, Opens
<1>7. CASE c.method = "propose"
  <2>1. e.type = "Proposal" /\ Opens(e)
    BY <1>1, <1>2, <1>7 DEF ProposalActions, Action, Opens
  <2>2. c.means = ""
    BY <1>7 DEF MeaningOf
  <2>3. OpenRecord(w.proposals[e.subject], e.sender, "")
    BY <1>3, <2>1, OpeningWrites DEF Opening
  <2> QED BY <1>2, <1>7, <2>2, <2>3 DEF Proposal!Shows, OpenRecord
<1>11. CASE c.method = "counter_propose"
  <2>1. e.type = "CounterProposal" /\ Opens(e) /\ a.kind = "plain"
    BY <1>1, <1>2, <1>11 DEF ProposalActions, Action, Opens
  <2>2. e.value = c.value
    BY <1>2, <2>1 DEF BuiltValue
  <2>3. c.means = c.value
    BY <1>11 DEF MeaningOf
  <2>4. OpenRecord(w.proposals[e.subject], e.sender, e.value)
    BY <1>3, <2>1, OpeningWrites DEF Opening
  <2> QED BY <1>2, <1>11, <2>2, <2>3, <2>4 DEF Proposal!Shows, OpenRecord
<1>8. CASE c.method = "accept"
  <2>1. e.type = "Accept"
    BY <1>1, <1>2, <1>8 DEF ProposalActions, Action
  <2>2. w.latest = Proposal!Put(v.latest, e.sender, e.subject)
    BY <1>4, <2>1 DEF ProposalMoves
  <2>3. w.latest[c.who] = c.subject
    BY <1>2, <2>2 DEF Proposal!Put
  <2> QED BY <1>8, <2>3 DEF Proposal!Shows, OpenRecord
<1>9. CASE c.method = "reject"
  <2>1. e.type = "Reject" /\ a.flag = TRUE
    BY <1>1, <1>2, <1>9 DEF ProposalActions, Action, Flagging
  <2>2. c.flag => w.phase = "TerminalRejected"
    BY <1>2, <1>4, <1>5, <1>6, <2>1 DEF ProposalMoves
  <2> QED BY <1>9, <2>2 DEF Proposal!Shows
<1>10. CASE c.method = "withdraw"
  <2>1. e.type = "Withdraw"
    BY <1>1, <1>2, <1>10 DEF ProposalActions, Action
  <2>2. w.proposals = [v.proposals EXCEPT ![e.subject].status = "withdrawn"]
    BY <1>3, <1>6, <2>1, MarkingWrites DEF Opens
  <2>3. e.subject \in DOMAIN v.proposals /\ "status" \in DOMAIN v.proposals[e.subject]
    BY <1>6, <2>1 DEF StatusInv
  <2>4. w.proposals[c.subject].status = "withdrawn"
    BY <1>2, <2>2, <2>3
  <2> QED BY <1>10, <2>4 DEF Proposal!Shows
<1> QED BY <1>1, <1>7, <1>8, <1>9, <1>10, <1>11

-----------------------------------------------------------------------------
\* Handoff.
LEMMA HandoffActionTells ==
    ASSUME NEW n, NEW a, a = HandoffActions[n]
    PROVE  /\ n = "offer" => a.type = "HandoffOffer" /\ a.kind = "plain"
           /\ n = "add_context" => a.type = "HandoffContext" /\ a.kind = "plain"
           /\ n = "accept_handoff" => a.type = "HandoffAccept" /\ a.kind = "actor" /\ a.flag = FALSE
           /\ n = "decline" => a.type = "HandoffDecline" /\ a.kind = "actor"
BY DEF HandoffActions, Action

LEMMA HandoffShown ==
    ASSUME NEW t, NEW v, HandoffInv(t, v), OfferInv(t, v),
           NEW f \in Flavours, NEW c, c.method \in DOMAIN MethodsOf(f, "handoff"),
           c.who = SenderOf(c), c.means = MeaningOf("handoff", c), c.method = "decline" => c.value \in {"", c.who},
           NEW e, e = Build(f, "handoff", c), Handoff!Conforming(t, e), NEW w, w = Handoff!Effect(v, e)
    PROVE  Handoff!Shows(c, w)
<1> PICK a : a = ActionOf(f, "handoff", c)
  OBVIOUS
<1>1. /\ c.method \in {"offer", "add_context", "accept_handoff", "decline"} /\ a = HandoffActions[c.method]
      /\ c.method # "commit"
  BY ActionIs DEF Modes
<1>e. a = ActionOf(f, "handoff", c) /\ e = Build(f, "handoff", c)
  OBVIOUS
<1>f. c.who = SenderOf(c)
  OBVIOUS
<1>2. /\ e.type = a.type /\ e.value = BuiltValue(a.kind, c) /\ e.sender = c.who /\ e.subject = c.subject
  BY ONLY <1>1, <1>e, <1>f, EnvelopeIs
<1>a. e.flag = (a.flag /\ c.flag)
  BY ONLY <1>1, <1>e, <1>f, EnvelopeIs
<1>b. w = Handoff!Effect(v, e)
  OBVIOUS
<1>c. PICK n : n = c.method
  OBVIOUS
<1>d. /\ n = "offer" => a.type = "HandoffOffer" /\ a.kind = "plain"
      /\ n = "add_context" => a.type = "HandoffContext" /\ a.kind = "plain"
      /\ n = "accept_handoff" => a.type = "HandoffAccept" /\ a.kind = "actor" /\ a.flag = FALSE
      /\ n = "decline" => a.type = "HandoffDecline" /\ a.kind = "actor"
  BY <1>1, <1>c, HandoffActionTells
<1>3. DOMAIN v = DOMAIN Handoff!HandoffInit /\ \A h \in DOMAIN v.handoffs : HandoffRecord(v.handoffs[h])
  BY DEF HandoffInv
<1>4. v.phase # "Committed"
  BY DEF OfferInv, Handoff!Conforming
<1>5. e.type \in {"HandoffContext", "HandoffAccept", "HandoffDecline"} =>
        e.subject \in DOMAIN v.handoffs /\ StatusOf(v, e.subject) \in {"offered", "context_sent"}
  <2> SUFFICES ASSUME e.type \in {"HandoffContext", "HandoffAccept", "HandoffDecline"}
               PROVE  e.subject \in DOMAIN v.handoffs /\ StatusOf(v, e.subject) \in {"offered", "context_sent"}
    OBVIOUS
  <2>1. e.subject \in Handoff!Offered(t) /\ ~Handoff!Settled(t, e.subject)
    BY DEF Handoff!Conforming
  <2>2. e.subject \in DOMAIN v.handoffs
    BY <2>1 DEF Handoff!Offered, HandoffInv, OffersIn
  <2> QED BY <2>1, <2>2 DEF Handoff!Settled, OfferInv
<1>6. CASE c.method = "offer"
  <2>1. e.type = "HandoffOffer" /\ a.kind = "plain"
    BY <1>2, <1>c, <1>d, <1>6
  <2>2. e.value = c.value
    BY <1>2, <2>1 DEF BuiltValue
  <2>3. c.means = c.value
    BY <1>6 DEF MeaningOf
  <2>4. w.handoffs[e.subject].target = e.value
    BY ONLY <1>b, <1>3, <1>4, <2>1, OfferWrites
  <2> QED BY <1>2, <1>6, <2>2, <2>3, <2>4 DEF Handoff!Shows
<1>7. CASE c.method = "add_context"
  <2>1. e.type = "HandoffContext" /\ a.kind = "plain"
    BY <1>2, <1>c, <1>d, <1>7
  <2>2. e.value = c.value
    BY <1>2, <2>1 DEF BuiltValue
  <2>3. c.means = c.value
    BY <1>7 DEF MeaningOf
  <2>4. w.handoffs[e.subject].context = e.value
    BY <1>3, <1>4, <1>5, <2>1, ContextWrites
  <2> QED BY <1>2, <1>7, <2>2, <2>3, <2>4 DEF Handoff!Shows
<1>8. c.method \in {"accept_handoff", "decline"} => a.kind = "actor"
  BY <1>c, <1>d
<1>9. c.method \in {"accept_handoff", "decline"} => e.value = IF c.value = "" THEN c.who ELSE c.value
  BY <1>2, <1>8 DEF BuiltValue, OrElse
<1>10. c.method \in {"accept_handoff", "decline"} => c.means = IF c.value = "" THEN c.who ELSE c.value
  BY DEF MeaningOf
<1>11. CASE c.method = "accept_handoff"
  <2>1. e.type = "HandoffAccept" /\ a.flag = FALSE
    BY <1>2, <1>c, <1>d, <1>11
  <2>2. w.handoffs[e.subject].acceptedBy = e.value /\ w.handoffs[e.subject].implicit = e.flag
    BY ONLY <1>b, <1>3, <1>4, <1>5, <2>1, AnswerWrites
  <2> QED BY <1>2, <1>9, <1>10, <1>11, <2>1, <2>2, <1>a DEF Handoff!Shows
<1>12. CASE c.method = "decline"
  <2>1. e.type = "HandoffDecline"
    BY <1>2, <1>c, <1>d, <1>12
  <2>2. Marks(v, w, e.subject, "declined") /\ w.handoffs[e.subject].declinedBy = e.value
    BY ONLY <1>b, <1>3, <1>4, <1>5, <2>1, AnswerWrites
  <2>3. e.subject \in Handoff!Offered(t) /\ e.sender = Handoff!TargetOf(t, e.subject)
    BY <2>1 DEF Handoff!Conforming
  <2>4. PICK i : i = CHOOSE j \in Handoff!Of(t, "HandoffOffer", e.subject) : TRUE
    OBVIOUS
  <2>5. Handoff!Of(t, "HandoffOffer", e.subject) # {}
    BY <2>3 DEF Handoff!Offered, Handoff!Of
  <2>6. i \in OffersIn(t) /\ t[i].subject = e.subject
    BY <2>4, <2>5 DEF Handoff!Of, OffersIn
  <2>7. e.sender = t[i].value
    BY <2>3, <2>4 DEF Handoff!TargetOf
  <2>8. v.handoffs[e.subject].target = e.sender
    BY <2>6, <2>7 DEF OfferInv
  <2>9. /\ e.subject \in DOMAIN w.handoffs /\ w.handoffs[e.subject].status = "declined"
        /\ w.handoffs[e.subject].target = e.sender
    BY <1>5, <2>1, <2>2, <2>8 DEF Marks, StatusOf
  <2>10. ~Handoff!CanOfferTo(w, e.sender)
    BY <2>9 DEF Handoff!CanOfferTo, Handoff!DeclinedTargets
  <2>11. c.means = c.who
    BY <1>10, <1>12
  <2> QED BY <1>2, <1>9, <1>10, <1>12, <2>2, <2>10, <2>11 DEF Handoff!Shows
<1> QED BY <1>1, <1>6, <1>7, <1>11, <1>12

-----------------------------------------------------------------------------
\* Task.  What each message does to the reports and the phase.
Reporting(v, e, w) ==
    /\ w.phase = "Committed" => v.phase = "Committed" \/ e.type = "Commitment"
    /\ e.type = "TaskComplete" => \E x : x.assignee = Task!About(e) /\ w.completions = Append(v.completions, x)
    /\ e.type # "TaskComplete" => w.completions = v.completions
    /\ e.type = "TaskFail" =>
        \E x : x.assignee = Task!About(e) /\ x.retryable = e.flag /\ w.failures = Append(v.failures, x)
    /\ e.type # "TaskFail" => w.failures = v.failures
    /\ e.subject \in DOMAIN v.tasks =>
        /\ e.type = "TaskUpdate" => w.tasks[e.subject].progress = e.value
        /\ e.type = "TaskComplete" /\ v.phase # "Committed" => w.phase = "Completed"

LEMMA PhaseLeavesReports ==
    ASSUME NEW v, DOMAIN v = DOMAIN Task!TaskInit, NEW phase, phase # "Committed", NEW w, w = Task!SetPhase(v, phase)
    PROVE  /\ w.completions = v.completions /\ w.failures = v.failures
           /\ w.phase = IF v.phase = "Committed" THEN "Committed" ELSE phase
BY DEF Task!SetPhase, Task!TaskInit

LEMMA ReportTells ==
    ASSUME NEW v, SlotInv(v), NEW e, NEW w, w = Task!Effect(v, e)
    PROVE  Reporting(v, e, w)
<1>1. DOMAIN v = DOMAIN Task!TaskInit /\ \A k \in DOMAIN v.tasks : DOMAIN v.tasks[k] = TaskFields
  BY DEF SlotInv
<1>2. CASE e.type = "Commitment"
  <2>1. w = [v EXCEPT !.commitment = e.subject, !.phase = "Committed"]
    BY <1>2 DEF Task!Effect
  <2> QED BY <1>1, <1>2, <2>1 DEF Task!TaskInit, Reporting
<1>3. CASE e.type = "TaskRequest"
  <2>1. w = Task!OnTaskRequest(v, e)
    BY <1>3 DEF Task!Effect, Task!TaskStep
  <2>2. PICK x : x = Task!NewTask(e)
    OBVIOUS
  <2>3. PICK u : u = [v EXCEPT !.tasks = Task!Put(@, e.subject, x), !.slot = IF @.task = e.subject THEN Task!Free ELSE @]
    OBVIOUS
  <2>4. w = Task!SetPhase(u, "Requested")
    BY <2>1, <2>2, <2>3 DEF Task!OnTaskRequest
  <2>5. DOMAIN u = DOMAIN v /\ u.completions = v.completions /\ u.failures = v.failures /\ u.phase = v.phase
    BY <1>1, <2>3 DEF Task!TaskInit
  <2> QED BY <1>1, <1>3, <2>4, <2>5, PhaseLeavesReports DEF Reporting
<1>4. CASE e.type = "TaskAccept"
  <2>1. w = Task!OnTaskAccept(v, e)
    BY <1>4 DEF Task!Effect, Task!TaskStep
  <2>2. PICK a : a = Task!About(e)
    OBVIOUS
  <2>3. PICK x : x = [sender |-> e.sender, task |-> e.subject]
    OBVIOUS
  <2>4. PICK u : u = [v EXCEPT !.slot = x, !.tasks[e.subject].assignee = a, !.tasks[e.subject].status = "accepted"]
    OBVIOUS
  <2>5. PICK z : z = [v EXCEPT !.anomalies = Append(@, Discarded("duplicate_task_accept", e))]
    OBVIOUS
  <2>6. w = v \/ w = z \/ w = Task!SetPhase(u, "InProgress")
    BY <2>1, <2>2, <2>3, <2>4, <2>5 DEF Task!OnTaskAccept, Task!RecordAnomaly, Discarded
  <2>7. /\ DOMAIN u = DOMAIN v /\ u.completions = v.completions /\ u.failures = v.failures /\ u.phase = v.phase
        /\ z.completions = v.completions /\ z.failures = v.failures /\ z.phase = v.phase
    BY <1>1, <2>4, <2>5 DEF Task!TaskInit
  <2> QED BY <1>1, <1>4, <2>6, <2>7, PhaseLeavesReports DEF Reporting
<1>5. CASE e.type = "TaskReject"
  <2>1. w = Task!OnTaskReject(v, e)
    BY <1>5 DEF Task!Effect, Task!TaskStep
  <2>2. PICK held : held = (v.slot # Task!Free /\ v.slot.sender = e.sender)
    OBVIOUS
  <2>3. PICK marked : marked = IF held /\ Task!Known(v, e) THEN [v.tasks EXCEPT ![e.subject].status = "rejected"] ELSE v.tasks
    OBVIOUS
  <2>4. PICK x : x = Task!Rejection(v, e, held)
    OBVIOUS
  <2>5. PICK y : y = IF held THEN [marked EXCEPT ![v.slot.task].assignee = Task!Unassigned] ELSE marked
    OBVIOUS
  <2>6. w = [v EXCEPT !.rejections = Append(@, x), !.slot = IF held THEN Task!Free ELSE @, !.tasks = y]
    BY <2>1, <2>2, <2>3, <2>4, <2>5 DEF Task!OnTaskReject
  <2>7. w.completions = v.completions /\ w.failures = v.failures /\ w.phase = v.phase
    BY <1>1, <2>6 DEF Task!TaskInit
  <2> QED BY <1>5, <2>7 DEF Reporting
<1>6. CASE e.type = "TaskUpdate"
  <2>1. w = Task!OnTaskUpdate(v, e)
    BY <1>6 DEF Task!Effect, Task!TaskStep
  <2>2. PICK x : x = [task |-> e.subject, progress |-> e.value]
    OBVIOUS
  <2>3. PICK u : u = [v EXCEPT !.updates = Append(@, x)]
    OBVIOUS
  <2>4. /\ DOMAIN u = DOMAIN v /\ u.tasks = v.tasks
        /\ u.completions = v.completions /\ u.failures = v.failures /\ u.phase = v.phase
    BY <1>1, <2>3 DEF Task!TaskInit
  <2>5. CASE ~Task!Known(v, e)
    <3>1. w = u
      BY <2>1, <2>2, <2>3, <2>5 DEF Task!OnTaskUpdate
    <3> QED BY <1>6, <2>4, <2>5, <3>1 DEF Reporting, Task!Known
  <2>6. CASE Task!Known(v, e)
    <3>1. w = [u EXCEPT !.tasks[e.subject].status = "in_progress", !.tasks[e.subject].progress = e.value]
      BY <2>1, <2>2, <2>3, <2>6 DEF Task!OnTaskUpdate
    <3>2. w.completions = v.completions /\ w.failures = v.failures /\ w.phase = v.phase
      BY <1>1, <2>4, <3>1 DEF Task!TaskInit
    <3>3. w.tasks[e.subject].progress = e.value
      <4>1. PICK r : r = v.tasks[e.subject]
        OBVIOUS
      <4>2. PICK y : y = [r EXCEPT !.status = "in_progress"]
        OBVIOUS
      <4>3. PICK z : z = [y EXCEPT !.progress = e.value]
        OBVIOUS
      <4>4. DOMAIN r = TaskFields
        BY <1>1, <2>6, <4>1 DEF Task!Known
      <4>5. z.progress = e.value
        BY <4>2, <4>3, <4>4 DEF TaskFields
      <4>6. w.tasks[e.subject] = z
        BY <1>1, <2>4, <2>6, <3>1, <4>1, <4>2, <4>3 DEF Task!TaskInit, Task!Known
      <4> QED BY <4>5, <4>6
    <3> QED BY <1>6, <3>2, <3>3 DEF Reporting
  <2> QED BY <2>5, <2>6
<1>7. CASE e.type = "TaskComplete"
  <2>1. w = Task!OnTaskComplete(v, e)
    BY <1>7 DEF Task!Effect, Task!TaskStep
  <2>2. PICK x : x = [task |-> e.subject, assignee |-> Task!About(e)]
    OBVIOUS
  <2>3. PICK u : u = [v EXCEPT !.completions = Append(@, x)]
    OBVIOUS
  <2>4. /\ DOMAIN u = DOMAIN v /\ u.completions = Append(v.completions, x) /\ u.failures = v.failures
        /\ u.phase = v.phase /\ x.assignee = Task!About(e)
    BY <1>1, <2>2, <2>3 DEF Task!TaskInit
  <2>5. CASE ~Task!Known(v, e)
    <3>1. w = u
      BY <2>1, <2>2, <2>3, <2>5 DEF Task!OnTaskComplete
    <3> QED BY <1>7, <2>4, <2>5, <3>1 DEF Reporting, Task!Known
  <2>6. CASE Task!Known(v, e)
    <3>1. PICK y : y = [u EXCEPT !.tasks[e.subject].status = "completed", !.tasks[e.subject].progress = 100]
      OBVIOUS
    <3>2. w = Task!SetPhase(y, "Completed")
      BY <2>1, <2>2, <2>3, <2>6, <3>1 DEF Task!OnTaskComplete
    <3>3. /\ DOMAIN y = DOMAIN v /\ y.completions = u.completions /\ y.failures = v.failures /\ y.phase = v.phase
      BY <1>1, <2>4, <3>1 DEF Task!TaskInit
    <3>4. /\ w.completions = y.completions /\ w.failures = y.failures
          /\ w.phase = IF y.phase = "Committed" THEN "Committed" ELSE "Completed"
      BY <1>1, <3>2, <3>3, PhaseLeavesReports
    <3> QED BY <1>7, <2>4, <3>3, <3>4 DEF Reporting
  <2> QED BY <2>5, <2>6
<1>8. CASE e.type = "TaskFail"
  <2>1. w = Task!OnTaskFail(v, e)
    BY <1>8 DEF Task!Effect, Task!TaskStep
  <2>2. PICK x : x = [task |-> e.subject, assignee |-> Task!About(e), retryable |-> e.flag]
    OBVIOUS
  <2>3. PICK u : u = [v EXCEPT !.failures = Append(@, x)]
    OBVIOUS
  <2>4. /\ DOMAIN u = DOMAIN v /\ u.failures = Append(v.failures, x) /\ u.completions = v.completions
        /\ u.phase = v.phase /\ x.assignee = Task!About(e) /\ x.retryable = e.flag
    BY <1>1, <2>2, <2>3 DEF Task!TaskInit
  <2>5. CASE ~Task!Known(v, e)
    <3>1. w = u
      BY <2>1, <2>2, <2>3, <2>5 DEF Task!OnTaskFail
    <3> QED BY <1>8, <2>4, <2>5, <3>1 DEF Reporting, Task!Known
  <2>6. CASE Task!Known(v, e)
    <3>1. PICK y : y = [u EXCEPT !.tasks[e.subject].status = "failed"]
      OBVIOUS
    <3>2. w = Task!SetPhase(y, "Failed")
      BY <2>1, <2>2, <2>3, <2>6, <3>1 DEF Task!OnTaskFail
    <3>3. /\ DOMAIN y = DOMAIN v /\ y.completions = v.completions /\ y.failures = u.failures /\ y.phase = v.phase
      BY <1>1, <2>4, <3>1 DEF Task!TaskInit
    <3>4. /\ w.completions = y.completions /\ w.failures = y.failures
          /\ w.phase = IF y.phase = "Committed" THEN "Committed" ELSE "Failed"
      BY <1>1, <3>2, <3>3, PhaseLeavesReports
    <3> QED BY <1>8, <2>4, <3>3, <3>4 DEF Reporting
  <2> QED BY <2>5, <2>6
<1>9. CASE e.type \notin {"Commitment", "TaskRequest", "TaskAccept", "TaskReject", "TaskUpdate", "TaskComplete", "TaskFail"}
  <2>1. Task!Effect(v, e) = Task!TaskStep(v, e)
    BY <1>9 DEF Task!Effect
  <2>2. Task!TaskStep(v, e) = v
    BY <1>9, Zenon DEF Task!TaskStep
  <2> QED BY <1>9, <2>1, <2>2 DEF Reporting
<1> QED BY <1>2, <1>3, <1>4, <1>5, <1>6, <1>7, <1>8, <1>9

\* The reports are lists, and the phase is the commitment's after one alone.
ReportInv(t, v) ==
    /\ Sequence(v.completions) /\ Sequence(v.failures)
    /\ v.phase = "Committed" => \E i \in DOMAIN t : t[i].type = "Commitment"

LEMMA ReportKeeps ==
    ASSUME NEW t, NEW v, SlotInv(v), ReportInv(t, v), NEW e, NEW u, Grown(t, e, u), NEW w, w = Task!Effect(v, e)
    PROVE  ReportInv(u, w)
<1>1. Reporting(v, e, w)
  BY ReportTells
<1>2. Len(t) + 1 \in DOMAIN u /\ u[Len(t) + 1] = e /\ \A i \in DOMAIN t : i \in DOMAIN u /\ u[i] = t[i]
  BY DEF Grown
<1>3. w.phase = "Committed" => \E i \in DOMAIN u : u[i].type = "Commitment"
  BY <1>1, <1>2 DEF Reporting, ReportInv
<1>4. Sequence(w.completions)
  <2>1. PICK r : r = v.completions
    OBVIOUS
  <2>2. Sequence(r)
    BY <2>1 DEF ReportInv
  <2>3. \A x : Sequence(Append(r, x))
    BY <2>2, AppendSequence
  <2> QED BY <1>1, <2>1, <2>2, <2>3 DEF Reporting
<1>5. Sequence(w.failures)
  <2>1. PICK r : r = v.failures
    OBVIOUS
  <2>2. Sequence(r)
    BY <2>1 DEF ReportInv
  <2>3. \A x : Sequence(Append(r, x))
    BY <2>2, AppendSequence
  <2> QED BY <1>1, <2>1, <2>2, <2>3 DEF Reporting
<1> QED BY <1>3, <1>4, <1>5 DEF ReportInv

LEMMA TaskActionTells ==
    ASSUME NEW n, NEW a, a = TaskAction(n)
    PROVE  /\ n \in {"request_task", "request"} => a.type = "TaskRequest" /\ a.kind = "plain"
           /\ n = "accept_task" => a.type = "TaskAccept" /\ a.kind = "actor"
           /\ n = "reject_task" => a.type = "TaskReject" /\ a.kind = "actor"
           /\ n \in {"update_task", "update"} => a.type = "TaskUpdate" /\ a.kind = "plain"
           /\ n \in {"complete_task", "complete"} => a.type = "TaskComplete" /\ a.kind = "actor"
           /\ n \in {"fail_task", "fail"} => a.type = "TaskFail" /\ a.kind = "actor" /\ a.flag = TRUE
BY DEF TaskAction, Action, Flagging

\* A conforming accept finds the slot free.
LEMMA AcceptFindsFree ==
    ASSUME NEW t, NEW v, WorkInv(t, v), NEW p, Task!MayAccept(t, p)
    PROVE  v.slot = Task!Free
<1> SUFFICES ASSUME v.slot # Task!Free PROVE FALSE
  OBVIOUS
<1>1. Task!Holds(t, v.slot.sender)
  BY DEF WorkInv
<1>2. PICK i \in DOMAIN t : t[i].type = "TaskAccept" /\ t[i].sender = v.slot.sender
  BY <1>1 DEF Task!Holds
<1>3. Task!Held(t)
  BY <1>1, <1>2 DEF Task!Held
<1> QED BY <1>3 DEF Task!MayAccept

\* An accept assigns the task or changes nothing of it.
LEMMA AcceptAssigns ==
    ASSUME NEW v, SlotInv(v), NEW e, e.type = "TaskAccept", NEW w, w = Task!Effect(v, e)
    PROVE  (w.tasks = v.tasks /\ w.slot = v.slot) \/ w.tasks[e.subject].assignee = Task!About(e)
<1>1. /\ DOMAIN w = DOMAIN v /\ DOMAIN w.tasks = DOMAIN v.tasks
      /\ \/ w.tasks = v.tasks /\ w.slot = v.slot
         \/ /\ v.slot = Task!Free /\ e.subject \in DOMAIN v.tasks
            /\ w.slot = [sender |-> e.sender, task |-> e.subject]
            /\ DOMAIN w.tasks[e.subject] = TaskFields /\ w.tasks[e.subject].assignee = Task!About(e)
            /\ \A t \in DOMAIN v.tasks : t # e.subject => w.tasks[t] = v.tasks[t]
  BY TaskAcceptEffect
<1> QED BY <1>1

LEMMA TaskShown ==
    ASSUME NEW t, NEW v, SlotInv(v), WorkInv(t, v), ReportInv(t, v),
           NEW f \in Flavours, NEW c, c.method \in DOMAIN MethodsOf(f, "task"), c.flag \in BOOLEAN,
           c.who = SenderOf(c), c.means = MeaningOf("task", c),
           NEW e, e = Build(f, "task", c), Task!Conforming(t, e), t # <<>> => e.subject = t[1].subject,
           e.type = "TaskAccept" => Task!Unassigned # e.sender,
           NEW w, w = Task!Effect(v, e)
    PROVE  Task!Shows(c, w)
<1> PICK a : a = ActionOf(f, "task", c)
  OBVIOUS
<1> PICK n : n = c.method
  OBVIOUS
<1>1. n \in TaskNames /\ a = TaskAction(n) /\ c.method # "commit"
  BY TaskActionIs DEF TaskNames
<1>a. a = ActionOf(f, "task", c) /\ e = Build(f, "task", c)
  OBVIOUS
<1>b. c.who = SenderOf(c)
  OBVIOUS
<1>c. w = Task!Effect(v, e) /\ SlotInv(v)
  OBVIOUS
<1>2. /\ e.type = a.type /\ e.value = BuiltValue(a.kind, c) /\ e.sender = c.who /\ e.subject = c.subject
      /\ e.flag = (a.flag /\ c.flag)
  BY ONLY <1>1, <1>a, <1>b, EnvelopeIs
<1>3. /\ n \in {"request_task", "request"} => a.type = "TaskRequest" /\ a.kind = "plain"
      /\ n = "accept_task" => a.type = "TaskAccept" /\ a.kind = "actor"
      /\ n = "reject_task" => a.type = "TaskReject" /\ a.kind = "actor"
      /\ n \in {"update_task", "update"} => a.type = "TaskUpdate" /\ a.kind = "plain"
      /\ n \in {"complete_task", "complete"} => a.type = "TaskComplete" /\ a.kind = "actor"
      /\ n \in {"fail_task", "fail"} => a.type = "TaskFail" /\ a.kind = "actor" /\ a.flag = TRUE
  BY ONLY <1>1, TaskActionTells
<1>4. a.kind = "actor" => Task!About(e) = IF c.value = "" THEN c.who ELSE c.value
  BY <1>2 DEF BuiltValue, OrElse, Task!About
<1>5. a.kind = "plain" => e.value = c.value
  BY <1>2 DEF BuiltValue
<1>6. c.means = IF n \in {"request_task", "request", "update_task", "update"} THEN c.value
                ELSE IF c.value = "" THEN c.who ELSE c.value
  BY <1>1 DEF MeaningOf, TaskNames
<1>7. Reporting(v, e, w)
  BY ONLY <1>c, ReportTells
<1>8. v.phase # "Committed"
  BY DEF ReportInv, Task!Conforming
<1>9. e.type \in {"TaskUpdate", "TaskComplete", "TaskFail"} => e.subject \in DOMAIN v.tasks
  <2> SUFFICES ASSUME e.type \in {"TaskUpdate", "TaskComplete", "TaskFail"} PROVE e.subject \in DOMAIN v.tasks
    OBVIOUS
  <2>1. t # <<>>
    BY DEF Task!Conforming
  <2> QED BY <2>1 DEF WorkInv
<1>10. CASE n \in {"request_task", "request"}
  <2>1. e.type = "TaskRequest"
    BY <1>2, <1>3, <1>10
  <2>2. w.tasks[e.subject].requested = e.value
    BY ONLY <1>c, <2>1, RequestWrites
  <2> QED BY <1>2, <1>3, <1>5, <1>6, <1>10, <2>2 DEF Task!Shows
<1>11. CASE n = "accept_task"
  <2>1. e.type = "TaskAccept"
    BY <1>2, <1>3, <1>11
  <2>2. Task!MayAccept(t, e.sender) /\ t # <<>>
    BY <2>1 DEF Task!Conforming, Task!MayAccept
  <2>3. v.slot = Task!Free /\ e.subject \in DOMAIN v.tasks
    BY <2>2, AcceptFindsFree DEF WorkInv
  <2>4. w.slot = [sender |-> e.sender, task |-> e.subject]
    BY ONLY <1>c, <2>1, <2>3, AcceptWrites
  <2>5. w.slot.sender = e.sender /\ w.slot # v.slot
    BY <2>1, <2>3, <2>4 DEF Task!Free
  <2>a. \/ w.tasks = v.tasks /\ w.slot = v.slot
        \/ w.tasks[e.subject].assignee = Task!About(e)
    BY ONLY <1>c, <2>1, AcceptAssigns
  <2>6. w.tasks[e.subject].assignee = Task!About(e)
    BY ONLY <2>5, <2>a
  <2> QED BY <1>2, <1>3, <1>4, <1>6, <1>11, <2>5, <2>6 DEF Task!Shows
<1>12. CASE n = "reject_task"
  <2>1. e.type = "TaskReject"
    BY <1>2, <1>3, <1>12
  <2>2. PICK x : x.assignee = Task!About(e) /\ w.rejections = Append(v.rejections, x)
    BY ONLY <1>c, <2>1, RejectWrites
  <2>3. PICK r, s : r = v.rejections /\ s = w.rejections
    OBVIOUS
  <2>4. Sequence(r) /\ s = Append(r, x)
    BY <2>2, <2>3 DEF WorkInv
  <2>5. Len(s) \in DOMAIN s /\ s[Len(s)] = x
    BY ONLY <2>4, LastIs
  <2>6. x.assignee = c.means
    BY <1>3, <1>4, <1>6, <1>12, <2>2
  <2>7. Task!HasDeclined(w, c.means)
    BY <2>3, <2>5, <2>6 DEF Task!HasDeclined, Task!Some
  <2> QED BY <1>12, <2>7 DEF Task!Shows, Task!CanAccept
<1>13. CASE n \in {"update_task", "update"}
  <2>1. e.type = "TaskUpdate"
    BY <1>2, <1>3, <1>13
  <2>2. w.tasks[e.subject].progress = e.value
    BY <1>7, <1>9, <2>1 DEF Reporting
  <2> QED BY <1>2, <1>3, <1>5, <1>6, <1>13, <2>2 DEF Task!Shows
<1>14. CASE n \in {"complete_task", "complete"}
  <2>1. e.type = "TaskComplete"
    BY <1>2, <1>3, <1>14
  <2>2. PICK x : x.assignee = Task!About(e) /\ w.completions = Append(v.completions, x)
    BY <1>7, <2>1 DEF Reporting
  <2>3. PICK r, s : r = v.completions /\ s = w.completions
    OBVIOUS
  <2>4. Sequence(r) /\ s = Append(r, x)
    BY <2>2, <2>3 DEF ReportInv
  <2>5. s[Len(s)] = x
    BY ONLY <2>4, LastIs
  <2>6. w.phase = "Completed"
    BY <1>7, <1>8, <1>9, <2>1 DEF Reporting
  <2> QED BY <1>3, <1>4, <1>6, <1>14, <2>2, <2>3, <2>5, <2>6 DEF Task!Shows
<1>15. CASE n \in {"fail_task", "fail"}
  <2>1. e.type = "TaskFail" /\ e.flag = c.flag
    BY <1>2, <1>3, <1>15
  <2>2. PICK x : x.assignee = Task!About(e) /\ x.retryable = e.flag /\ w.failures = Append(v.failures, x)
    BY <1>7, <2>1 DEF Reporting
  <2>3. PICK r, s : r = v.failures /\ s = w.failures
    OBVIOUS
  <2>4. Sequence(r) /\ s = Append(r, x)
    BY <2>2, <2>3 DEF ReportInv
  <2>5. s[Len(s)] = x
    BY ONLY <2>4, LastIs
  <2> QED BY <1>3, <1>4, <1>6, <1>15, <2>1, <2>2, <2>3, <2>5 DEF Task!Shows
<1> QED BY <1>1, <1>10, <1>11, <1>12, <1>13, <1>14, <1>15 DEF TaskNames

-----------------------------------------------------------------------------
\* What was said: an obedient session's history holds its peers' messages and its own
\* calls', a task's begins with the request, and the projection's lists are lists.
SaidInv ==
    obedient =>
        /\ \A i \in DOMAIN proj.transcript : proj.transcript[i] \in Peers[mode] \cup Sent(mode)
        /\ mode = "decision" => Sequence(proj.view.evaluations) /\ Sequence(proj.view.objections)
        /\ mode = "quorum" => CastIn(proj.transcript, proj.view)
        /\ mode = "task" =>
            /\ ReportInv(proj.transcript, proj.view)
            /\ proj.transcript # <<>> => proj.transcript[1].type = "TaskRequest"
        /\ mode = "proposal" => StatusInv(proj.transcript, proj.view)

LEMMA SaidInit ==
    ASSUME Init
    PROVE  SaidInv
<1>1. DOMAIN <<>> = {} /\ Sequence(<<>>)
  BY DEF Sequence
<1>2. proj.transcript = <<>>
  BY DEF Init, Decision!Init, Decision!Fresh, Quorum!Init, Quorum!Fresh, Task!Init, Task!Fresh, Modes,
         Handoff!Init, Handoff!Fresh, Proposal!Init, Proposal!Fresh, MultiRound!Init, MultiRound!Fresh
<1>3. CASE mode = "decision"
  <2>1. proj.view = Decision!DecisionInit
    BY <1>3 DEF Init, Decision!Init, Decision!Fresh
  <2>2. proj.view.evaluations = <<>> /\ proj.view.objections = <<>>
    BY <2>1 DEF Decision!DecisionInit
  <2> QED BY <1>1, <1>2, <1>3, <2>2 DEF SaidInv
<1>4. CASE mode = "quorum"
  <2>1. proj.view = Quorum!QuorumInit
    BY <1>4 DEF Init, Quorum!Init, Quorum!Fresh
  <2>2. proj.view.ballots = <<>>
    BY <2>1 DEF Quorum!QuorumInit
  <2> QED BY <1>1, <1>2, <1>4, <2>2 DEF SaidInv, CastIn
<1>5. CASE mode = "task"
  <2>1. proj.view = Task!TaskInit
    BY <1>5 DEF Init, Task!Init, Task!Fresh
  <2>2. proj.view.completions = <<>> /\ proj.view.failures = <<>> /\ proj.view.phase # "Committed"
    BY <2>1 DEF Task!TaskInit
  <2> QED BY <1>1, <1>2, <1>5, <2>2 DEF SaidInv, ReportInv
<1>6. CASE mode = "proposal"
  <2>1. proj.view = Proposal!ProposalInit
    BY <1>6 DEF Init, Proposal!Init, Proposal!Fresh
  <2>2. proj.view.proposals = <<>> /\ proj.view.phase # "Committed"
    BY <2>1 DEF Proposal!ProposalInit
  <2> QED BY <1>1, <1>2, <1>6, <2>2 DEF SaidInv, StatusInv
<1>7. CASE mode \in {"handoff", "multi_round"}
  BY <1>1, <1>2, <1>7 DEF SaidInv
<1>8. mode \in Modes
  BY DEF Init
<1> QED BY <1>3, <1>4, <1>5, <1>6, <1>7, <1>8 DEF Modes

\* A Decision projection's lists stay lists.
LEMMA ListsKeep ==
    ASSUME NEW v, DOMAIN v = DOMAIN Decision!DecisionInit, Sequence(v.evaluations), Sequence(v.objections),
           NEW e, NEW w, w = Decision!Effect(v, e)
    PROVE  Sequence(w.evaluations) /\ Sequence(w.objections)
<1> PICK r, s : r = v.evaluations /\ s = v.objections
  OBVIOUS
<1>1. Sequence(r) /\ Sequence(s)
  OBVIOUS
<1>2. \A x : Sequence(Append(r, x)) /\ Sequence(Append(s, x))
  BY <1>1, AppendSequence
<1>3. CASE e.type = "Proposal"
  BY <1>1, <1>3, ProposalWrites
<1>4. CASE e.type = "Evaluation"
  <2>1. /\ \E x : x.sender = e.sender /\ x.value = e.value /\ w.evaluations = Append(v.evaluations, x)
        /\ w.objections = v.objections
    BY <1>4, EvaluationWrites
  <2> QED BY <1>1, <1>2, <2>1
<1>5. CASE e.type = "Objection"
  <2>1. /\ \E x : /\ x.subject = e.subject /\ (e.value = "critical" => x.severity = "critical")
                  /\ w.objections = Append(v.objections, x)
        /\ w.evaluations = v.evaluations
    BY <1>5, ObjectionWrites
  <2> QED BY <1>1, <1>2, <2>1
<1>6. CASE e.type \notin {"Proposal", "Evaluation", "Objection"}
  BY <1>1, <1>6, OtherDecisionWrites
<1> QED BY <1>3, <1>4, <1>5, <1>6

LEMMA SaidKeeps ==
    ASSUME IInv, SaidInv, NEW e \in Peers[mode] \cup Sent(mode), Enters(e), Conforms(e),
           UNCHANGED <<obedient, mode, roster, policy>>
    PROVE  SaidInv'
<1> SUFFICES ASSUME obedient PROVE SaidInv'
  BY DEF SaidInv
<1> PICK p : p = proj
  OBVIOUS
<1> PICK q : q = proj'
  OBVIOUS
<1> PICK M : M = Peers[mode] \cup Sent(mode)
  OBVIOUS
<1>1. Grown(p.transcript, e, q.transcript) /\ Sequence(p.transcript)
  BY EntersGrows DEF IInv, FeedInv, Shaped
<1>2. EffectIs(e, p.view, q.view)
  BY DEF Enters
<1>3. \A i \in DOMAIN p.transcript : p.transcript[i] \in M
  BY DEF SaidInv
<1>4. \A i \in DOMAIN q.transcript : q.transcript[i] \in M
  BY <1>1, <1>3 DEF Grown
<1>5. (Peers[mode] \cup Sent(mode))' = M
  BY DEF Sent, Callable
<1>6. CASE mode = "decision"
  <2>1. /\ DOMAIN p.view = DOMAIN Decision!DecisionInit /\ q.view = Decision!Effect(p.view, e)
        /\ Sequence(p.view.evaluations) /\ Sequence(p.view.objections)
    BY <1>2, <1>6 DEF IInv, ViewInv, SaidInv, DecisionInv, EffectIs
  <2>2. Sequence(q.view.evaluations) /\ Sequence(q.view.objections)
    BY <2>1, ListsKeep
  <2> QED BY <1>4, <1>5, <1>6, <2>2 DEF SaidInv
<1>7. CASE mode = "quorum"
  <2>1. QuorumInv(p.transcript, p.view) /\ CastIn(p.transcript, p.view) /\ q.view = Quorum!Effect(p.view, e)
    BY <1>2, <1>7 DEF IInv, ViewInv, SaidInv, EffectIs
  <2>2. CastIn(q.transcript, q.view)
    BY <1>1, <2>1, CastKeeps
  <2> QED BY <1>4, <1>5, <1>7, <2>2 DEF SaidInv
<1>8. CASE mode = "task"
  <2>1. /\ SlotInv(p.view) /\ ReportInv(p.transcript, p.view) /\ q.view = Task!Effect(p.view, e)
        /\ p.transcript # <<>> => p.transcript[1].type = "TaskRequest"
        /\ Task!Conforming(p.transcript, e)
    BY <1>2, <1>8 DEF IInv, ViewInv, SaidInv, EffectIs, Conforms
  <2>2. ReportInv(q.transcript, q.view)
    BY <1>1, <2>1, ReportKeeps
  <2>3. CASE p.transcript = <<>>
    <3>1. e.type = "TaskRequest"
      BY <2>1, <2>3 DEF Task!Conforming
    <3>2. q.transcript[1] = e
      BY <1>1, <2>3 DEF Grown
    <3> QED BY <1>4, <1>5, <1>8, <2>2, <3>1, <3>2 DEF SaidInv
  <2>4. CASE p.transcript # <<>>
    <3>1. 1 \in 1..Len(p.transcript)
      BY <1>1, <2>4 DEF Sequence
    <3>2. q.transcript[1].type = "TaskRequest"
      BY <1>1, <2>1, <2>4, <3>1 DEF Grown
    <3> QED BY <1>4, <1>5, <1>8, <2>2, <3>2 DEF SaidInv
  <2> QED BY <2>3, <2>4
<1>9. CASE mode = "proposal"
  <2>1. ProposalInv(p.transcript, p.view) /\ StatusInv(p.transcript, p.view) /\ q.view = Proposal!Effect(p.view, e)
    BY <1>2, <1>9 DEF IInv, ViewInv, SaidInv, EffectIs
  <2>2. StatusInv(q.transcript, q.view)
    BY <1>1, <2>1, StatusKeeps
  <2> QED BY <1>4, <1>5, <1>9, <2>2 DEF SaidInv
<1>10. CASE mode \in {"handoff", "multi_round"}
  BY <1>4, <1>5, <1>10 DEF SaidInv
<1>11. mode \in Modes
  BY DEF IInv, FeedInv
<1> QED BY <1>6, <1>7, <1>8, <1>9, <1>10, <1>11 DEF Modes

\* An obedient session's history holds nothing but what its peers and its calls say.
THEOREM SaidInvariance == Spec => []SaidInv
<1>1. Init => SaidInv
  BY SaidInit
<1>2. IInv /\ SaidInv /\ [Next]_vars => SaidInv'
  <2> SUFFICES ASSUME IInv, SaidInv, [Next]_vars PROVE SaidInv'
    OBVIOUS
  <2>1. UNCHANGED <<obedient, mode, roster, policy>>
    BY ActionCases
  <2>2. CASE UNCHANGED proj
    BY <2>1, <2>2 DEF SaidInv, Sent, Callable
  <2>3. CASE proj' # proj /\ obedient
    <3>1. FeedInv /\ Next
      BY <2>3 DEF IInv, vars
    <3>2. PICK e : /\ Enters(e) /\ Conforms(e)
                   /\ e \in Peers[mode] \/ \E f \in Flavours : \E c \in Calls[mode] : Says(f, c, e)
      BY <2>3, <3>1, SpeakerOf
    <3>3. e \in Peers[mode] \cup Sent(mode)
      BY <3>2 DEF Says, Sent
    <3> QED BY <2>1, <3>2, <3>3, SaidKeeps
  <2>4. CASE ~obedient
    BY <2>1, <2>4 DEF SaidInv
  <2> QED BY <2>2, <2>3, <2>4
<1> QED BY <1>1, <1>2, Invariance, PTL DEF Spec

LEMMA OwnWordsHold ==
    ASSUME OneTask, IInv, SaidInv, obedient, mode = "task"
    PROVE  OwnWords(proj.transcript)
<1> PICK t : t = proj.transcript
  OBVIOUS
<1> PICK words : words = {e \in Peers["task"] \cup Sent("task") : e.type # "Commitment"}
  OBVIOUS
<1>1. /\ \A d, e \in words : d.subject = e.subject
      /\ \A e \in words : e.type = "TaskReject" => e.value \in {"", e.sender}
  BY DEF OneTask
<1>2. \A i \in DOMAIN t : t[i].type # "Commitment" => t[i] \in words
  BY DEF SaidInv
<1>3. ASSUME NEW i \in DOMAIN t PROVE 1 \in DOMAIN t /\ t[1].type = "TaskRequest"
  <2>1. t # <<>> /\ 1 \in DOMAIN t
    BY <1>3 DEF IInv, FeedInv, Shaped, Sequence
  <2> QED BY <2>1 DEF SaidInv
<1> QED BY <1>1, <1>2, <1>3 DEF OwnWords

\* A commitment commits, in every mode.
LEMMA Committing ==
    ASSUME NEW v, "phase" \in DOMAIN v, NEW e, e.type = "Commitment", NEW w,
           \/ w = Decision!Effect(v, e) \/ w = Quorum!Effect(v, e) \/ w = Task!Effect(v, e)
           \/ w = Handoff!Effect(v, e) \/ w = Proposal!Effect(v, e) \/ w = MultiRound!Effect(v, e)
    PROVE  w.phase = "Committed"
<1>1. w = [v EXCEPT !.commitment = e.subject, !.phase = "Committed"]
  BY DEF Decision!Effect, Quorum!Effect, Task!Effect, Handoff!Effect, Proposal!Effect, MultiRound!Effect
<1> QED BY <1>1

\* A call's envelope shows in the view as the session's mode says.
Shown(c, v) ==
    /\ mode = "decision" => Decision!Shows(c, v)
    /\ mode = "quorum" => Quorum!Shows(c, v)
    /\ mode = "task" => Task!Shows(c, v)
    /\ mode = "handoff" => Handoff!Shows(c, v)
    /\ mode = "proposal" => Proposal!Shows(c, v)
    /\ mode = "multi_round" => MultiRound!Shows(c, v)

LEMMA ActionsShow ==
    ASSUME IInv, AdviceInv, SaidInv, CallsMean, OneTask, obedient,
           NEW e, Enters(e), Conforms(e), NEW f \in Flavours, NEW c \in Calls[mode], Says(f, c, e), c.method # "commit"
    PROVE  Shown(c, proj'.view)
<1> PICK t : t = proj.transcript
  OBVIOUS
<1> PICK v : v = proj.view
  OBVIOUS
<1> PICK w : w = proj'.view
  OBVIOUS
<1>1. /\ f \in Flavours /\ c.method \in DOMAIN MethodsOf(f, mode) /\ e = Build(f, mode, c) /\ c.flag \in BOOLEAN
      /\ c.who = SenderOf(c) /\ c.means = MeaningOf(mode, c) /\ (c.method = "decline" => c.value \in {"", c.who})
  <2>0. mode \in Modes
    BY DEF IInv, FeedInv
  <2>1. c \in Callable(f, mode) /\ ~Refused(f, mode, proj.view, c) /\ e = Build(f, mode, c)
    BY DEF Says
  <2>2. Own(c)
    BY <2>1, Unrefused
  <2>3. c.method \in DOMAIN MethodsOf(f, mode)
    <3>1. CASE mode = "decision"
      BY <2>1, <3>1 DEF Callable
    <3> QED BY <2>1 DEF Callable
  <2> QED BY <2>0, <2>1, <2>2, <2>3 DEF CallsMean
<1>2. EffectIs(e, v, w)
  BY DEF Enters
<1>3. CASE mode = "decision"
  <2>1. /\ f \in Flavours /\ c.method \in DOMAIN MethodsOf(f, "decision") /\ e = Build(f, "decision", c)
        /\ c.who = SenderOf(c) /\ c.means = MeaningOf("decision", c)
    BY <1>1, <1>3
  <2>2. /\ DecisionInv(t, v) /\ PhaseInv(t, v) /\ Sequence(v.evaluations) /\ Sequence(v.objections)
        /\ Decision!Conforming(t, e) /\ w = Decision!Effect(v, e)
    BY <1>2, <1>3 DEF IInv, ViewInv, AdviceInv, SaidInv, Conforms, EffectIs
  <2>3. Decision!Shows(c, w)
    BY ONLY <2>1, <2>2, DecisionShown
  <2> QED BY <1>3, <2>3 DEF Shown
<1>4. CASE mode = "quorum"
  <2>1. /\ f \in Flavours /\ c.method \in DOMAIN MethodsOf(f, "quorum") /\ e = Build(f, "quorum", c)
        /\ c.who = SenderOf(c) /\ c.means = MeaningOf("quorum", c)
    BY <1>1, <1>4
  <2>2. /\ Sequence(t) /\ QuorumInv(t, v) /\ CastIn(t, v)
        /\ Quorum!Conforming(t, e) /\ w = Quorum!Effect(v, e)
    BY <1>2, <1>4 DEF IInv, ViewInv, FeedInv, Shaped, SaidInv, Conforms, EffectIs
  <2>3. Quorum!Shows(c, w)
    BY ONLY <2>1, <2>2, QuorumShown
  <2> QED BY <1>4, <2>3 DEF Shown
<1>5. CASE mode = "task"
  <2>1. /\ f \in Flavours /\ c.method \in DOMAIN MethodsOf(f, "task") /\ e = Build(f, "task", c)
        /\ c.who = SenderOf(c) /\ c.means = MeaningOf("task", c) /\ c.flag \in BOOLEAN
    BY <1>1, <1>5
  <2>2. OwnWords(t)
    BY <1>5, OwnWordsHold
  <2>3. /\ SlotInv(v) /\ WorkInv(t, v) /\ ReportInv(t, v) /\ Task!Conforming(t, e) /\ w = Task!Effect(v, e)
    BY <1>2, <1>5, <2>2 DEF IInv, ViewInv, AdviceInv, SaidInv, Conforms, EffectIs
  <2>4. e.type = "TaskAccept" => Task!Unassigned # e.sender
    BY <1>5, NamesAssumption DEF Enters, Fits
  <2>5. t # <<>> => e.subject = t[1].subject
    <3>1. PICK words : words = {d \in Peers["task"] \cup Sent("task") : d.type # "Commitment"}
      OBVIOUS
    <3>2. \A x, y \in words : x.subject = y.subject
      BY <3>1 DEF OneTask
    <3>3. e.type # "Commitment"
      <4>1. PICK a, n : a = ActionOf(f, "task", c) /\ n = c.method
        OBVIOUS
      <4>2. n \in TaskNames /\ a = TaskAction(n)
        BY <2>1, <4>1, TaskActionIs
      <4>3. e.type = a.type
        <5>1. a = ActionOf(f, "task", c) /\ e = Build(f, "task", c) /\ c.method # "commit"
          BY <2>1, <4>1
        <5> QED BY ONLY <5>1, EnvelopeIs
      <4>4. /\ n \in {"request_task", "request"} => a.type = "TaskRequest" /\ a.kind = "plain"
            /\ n = "accept_task" => a.type = "TaskAccept" /\ a.kind = "actor"
            /\ n = "reject_task" => a.type = "TaskReject" /\ a.kind = "actor"
            /\ n \in {"update_task", "update"} => a.type = "TaskUpdate" /\ a.kind = "plain"
            /\ n \in {"complete_task", "complete"} => a.type = "TaskComplete" /\ a.kind = "actor"
            /\ n \in {"fail_task", "fail"} => a.type = "TaskFail" /\ a.kind = "actor" /\ a.flag = TRUE
        BY ONLY <4>2, TaskActionTells
      <4> QED BY ONLY <4>2, <4>3, <4>4 DEF TaskNames
    <3>4. e \in words
      BY <1>5, <2>1, <3>1, <3>3 DEF Says, Sent
    <3>5. t # <<>> => t[1].type = "TaskRequest" /\ 1 \in DOMAIN t
      BY <1>5 DEF SaidInv, IInv, FeedInv, Shaped, Sequence
    <3>6. t # <<>> => t[1] \in words
      BY <1>5, <3>1, <3>5 DEF SaidInv
    <3> QED BY <3>2, <3>4, <3>6
  <2>6. Task!Shows(c, w)
    BY ONLY <2>1, <2>3, <2>4, <2>5, TaskShown
  <2> QED BY <1>5, <2>6 DEF Shown
<1>6. CASE mode = "handoff"
  <2>1. /\ f \in Flavours /\ c.method \in DOMAIN MethodsOf(f, "handoff") /\ e = Build(f, "handoff", c)
        /\ c.who = SenderOf(c) /\ c.means = MeaningOf("handoff", c) /\ (c.method = "decline" => c.value \in {"", c.who})
    BY <1>1, <1>6
  <2>2. HandoffInv(t, v) /\ OfferInv(t, v) /\ Handoff!Conforming(t, e) /\ w = Handoff!Effect(v, e)
    BY <1>2, <1>6 DEF IInv, ViewInv, AdviceInv, Conforms, EffectIs
  <2>3. Handoff!Shows(c, w)
    BY ONLY <2>1, <2>2, HandoffShown
  <2> QED BY <1>6, <2>3 DEF Shown
<1>7. CASE mode = "proposal"
  <2>1. /\ f \in Flavours /\ c.method \in DOMAIN MethodsOf(f, "proposal") /\ e = Build(f, "proposal", c)
        /\ c.who = SenderOf(c) /\ c.means = MeaningOf("proposal", c) /\ c.flag \in BOOLEAN
    BY <1>1, <1>7
  <2>2. ProposalInv(t, v) /\ StatusInv(t, v) /\ Proposal!Conforming(t, e) /\ w = Proposal!Effect(v, e)
    BY <1>2, <1>7 DEF IInv, ViewInv, SaidInv, Conforms, EffectIs
  <2>3. Proposal!Shows(c, w)
    BY ONLY <2>1, <2>2, ProposalShown
  <2> QED BY <1>7, <2>3 DEF Shown
<1>8. CASE mode = "multi_round"
  <2>1. /\ f \in Flavours /\ c.method \in DOMAIN MethodsOf(f, "multi_round") /\ e = Build(f, "multi_round", c)
        /\ c.who = SenderOf(c) /\ c.means = MeaningOf("multi_round", c)
    BY <1>1, <1>8
  <2>2. /\ DOMAIN v = DOMAIN MultiRound!MultiRoundInit /\ RoundInv(MultiRound!Roster, t, v)
        /\ MultiRound!Conforming(t, e) /\ w = MultiRound!Effect(v, e)
    BY <1>2, <1>8 DEF IInv, ViewInv, AdviceInv, Conforms, EffectIs
  <2>3. MultiRound!Shows(c, w)
    BY ONLY <2>1, <2>2, MultiRoundShown
  <2> QED BY <1>8, <2>3 DEF Shown
<1>9. mode \in Modes
  BY DEF IInv, FeedInv
<1> QED BY ONLY <1>3, <1>4, <1>5, <1>6, <1>7, <1>8, <1>9 DEF Modes

LEMMA ViewHasPhase ==
    ASSUME IInv
    PROVE  "phase" \in DOMAIN proj.view
BY DEF IInv, FeedInv, Modes, ViewInv, DecisionInv, Decision!DecisionInit, QuorumInv, Quorum!QuorumInit,
       SlotInv, Task!TaskInit, HandoffInv, Handoff!HandoffInit, ProposalInv, Proposal!ProposalInit,
       MultiRound!MultiRoundInit, MultiRound!MultiRoundSeeded

LEMMA CallAnswered ==
    ASSUME IInv, AdviceInv, SaidInv, CallsMean, OneTask, Next, obedient, proj' # proj, NEW c \in Calls[mode],
           proj'.transcript[Len(proj'.transcript)].id = c.id
    PROVE  Answered(c)
<1> PICK last : last = proj'.transcript[Len(proj'.transcript)]
  OBVIOUS
<1>1. PICK e : /\ Enters(e) /\ Conforms(e)
               /\ e \in Peers[mode] \/ \E f \in Flavours : \E d \in Calls[mode] : Says(f, d, e)
  BY SpeakerOf DEF IInv
<1>2. last = e
  BY <1>1, EntersGrows DEF Grown
<1>3. mode \in Modes
  BY DEF IInv, FeedInv
<1>a. e.id = c.id
  BY <1>2
<1>b. /\ \A x \in Peers[mode] : x.id # c.id
      /\ \A x \in Calls[mode] : x.id = c.id => x = c
  BY <1>3 DEF CallsMean
<1>4. e \notin Peers[mode]
  BY <1>a, <1>b
<1>5. PICK f \in Flavours : \E d \in Calls[mode] : Says(f, d, e)
  BY <1>1, <1>4
<1>6. PICK d \in Calls[mode] : Says(f, d, e)
  BY <1>5
<1>7. e = Build(f, mode, d) /\ ~Refused(f, mode, proj.view, d)
  BY <1>6 DEF Says
<1>8. e.sender = SenderOf(d) /\ e.id = d.id
  <2>1. CASE d.method = "commit"
    BY <1>7, <2>1, CommitmentIs
  <2>2. CASE d.method # "commit"
    <3>1. PICK a : a = ActionOf(f, mode, d)
      OBVIOUS
    <3>2. d.method # "commit" /\ a = ActionOf(f, mode, d) /\ e = Build(f, mode, d)
      BY <1>7, <2>2, <3>1
    <3> QED BY ONLY <3>2, EnvelopeIs
  <2> QED BY <2>1, <2>2
<1>9. d = c
  BY <1>a, <1>b, <1>8
<1>10. c.who = SenderOf(c) /\ c.means = MeaningOf(mode, c)
  BY <1>3, <1>7, <1>9, Unrefused DEF CallsMean
<1>11. last.sender = c.who
  BY <1>2, <1>8, <1>9, <1>10
<1>12. c.method = "commit" => proj'.view.phase = "Committed" /\ last.flag = c.means
  <2> SUFFICES ASSUME c.method = "commit" PROVE proj'.view.phase = "Committed" /\ last.flag = c.means
    OBVIOUS
  <2>1. e.type = "Commitment" /\ e.flag = OutcomeOf(c)
    BY <1>7, <1>9, CommitmentIs
  <2>2. PICK v, w : v = proj.view /\ w = proj'.view
    OBVIOUS
  <2>3. \/ w = Decision!Effect(v, e) \/ w = Quorum!Effect(v, e) \/ w = Task!Effect(v, e)
        \/ w = Handoff!Effect(v, e) \/ w = Proposal!Effect(v, e) \/ w = MultiRound!Effect(v, e)
    BY <1>1, <1>3, <2>2 DEF Modes, Enters, EffectIs
  <2>4. "phase" \in DOMAIN v
    BY <2>2, ViewHasPhase
  <2>5. w.phase = "Committed"
    BY ONLY <2>1, <2>3, <2>4, Committing
  <2>6. c.means = (c.extra = "true" \/ (c.extra = "unset" /\ Lower(c.value) \notin Negative))
    BY <1>10 DEF MeaningOf
  <2>7. OutcomeOf(c) = (c.extra = "true" \/ (c.extra = "unset" /\ Lower(c.value) \notin Negative))
    BY DEF OutcomeOf, InferOutcomePositive
  <2> QED BY <1>2, <2>1, <2>2, <2>5, <2>6, <2>7
<1>13. c.method # "commit" => Shown(c, proj'.view)
  BY <1>1, <1>6, <1>9, ActionsShow
<1> QED BY <1>3, <1>11, <1>12, <1>13 DEF Answered, Shown, Modes

\* What a call says through a helper, sync or async, and in whose name, is what a
\* coordinator reads in the projection once the runtime accepted it, in every mode and for
\* any calls annotated as their instance says (the session classes' methods, _sender_for,
\* the builders and the projections' handlers together).
THEOREM CallsTakeEffect ==
    ASSUME CallsMean, OneTask
    PROVE  Spec => CallsTake
<1>1. IInv /\ AdviceInv /\ SaidInv /\ [Next]_vars =>
        \A c \in Calls[mode] :
            obedient /\ proj' # proj /\ proj'.transcript[Len(proj'.transcript)].id = c.id => Answered(c)
  <2> SUFFICES ASSUME IInv, AdviceInv, SaidInv, [Next]_vars, NEW c \in Calls[mode], obedient, proj' # proj,
                      proj'.transcript[Len(proj'.transcript)].id = c.id
               PROVE  Answered(c)
    OBVIOUS
  <2>1. Next
    BY DEF vars
  <2> QED BY <2>1, CallAnswered
<1> QED BY <1>1, Invariance, AdviceInvariance, SaidInvariance, PTL DEF Spec, CallsTake

\* What a projection tells its coordinator is what the runtime would say on the same
\* history, in every mode, when everybody speaks of the one task of a Task session
\* (can_accept, can_offer_to, phase, converged, round).
THEOREM AdviceStands == ASSUME OneTask PROVE Spec => []AdviceAgrees
<1>1. IInv /\ SaidInv => (obedient /\ mode = "task" => OwnWords(proj.transcript))
  BY OwnWordsHold
<1>2. /\ obedient /\ mode = "decision" => Decision!PhaseAgrees
      /\ obedient /\ mode = "handoff" => Handoff!CanOfferAgrees /\ Handoff!PhaseTellsOutcome
      /\ obedient /\ mode = "multi_round" => MultiRound!ConvergenceAgrees
      /\ obedient /\ mode = "multi_round" => MultiRound!JoinerNeverAhead
      /\ obedient /\ mode = "task" => OwnWords(proj.transcript)
      /\ obedient /\ mode = "task" /\ OwnWords(proj.transcript) =>
            Task!CanAcceptAgrees /\ Task!NegativeOnlyWhenStuck
      => AdviceAgrees
  BY DEF AdviceAgrees
<1> QED BY <1>1, <1>2, PhaseFollowsHistory, OffersFollowHistory, ConvergenceFollowsHistory, LateJoinerBehind,
      AcceptsFollowHistory, Invariance, SaidInvariance, PTL
=============================================================================
