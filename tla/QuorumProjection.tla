-------------------------- MODULE QuorumProjection --------------------------
(***************************************************************************)
(* QuorumProjection of quorum.py.  subject is the request_id; value of an  *)
(* ApprovalRequest is its required_approvals; ballots is keyed by          *)
(* <<request_id, sender>>.                                                 *)
(***************************************************************************)
EXTENDS ProjectionView

QuorumParsed == {"ApprovalRequest", "Approve", "Reject", "Abstain"}
Choice == [Approve |-> "approve", Reject |-> "reject", Abstain |-> "abstain"]

QuorumInit ==
    [phase |-> "Pending", commitment |-> NoCommitment, anomalies |-> <<>>,
     requests |-> <<>>, ballots |-> <<>>]

OnRequest(v, e) ==
    SetPhase([v EXCEPT !.requests = Put(@, e.subject, e.value)], "Voting")

\* One ballot a sender, across the three types; the first one stands.
SetBallot_PerType(v, e) ==
    IF e.subject \notin DOMAIN v.requests THEN v
    ELSE IF <<e.subject, e.sender>> \in DOMAIN v.ballots
            /\ v.ballots[<<e.subject, e.sender>>] = Choice[e.type]
    THEN RecordAnomaly(v, "duplicate_ballot", e)
    ELSE [v EXCEPT !.ballots = Put(@, <<e.subject, e.sender>>, Choice[e.type])]
SetBallot_Silent(v, e) ==
    IF e.subject \notin DOMAIN v.requests \/ <<e.subject, e.sender>> \in DOMAIN v.ballots THEN v
    ELSE [v EXCEPT !.ballots = Put(@, <<e.subject, e.sender>>, Choice[e.type])]
SetBallot(v, e) ==
    IF e.subject \notin DOMAIN v.requests THEN v
    ELSE IF <<e.subject, e.sender>> \in DOMAIN v.ballots
    THEN RecordAnomaly(v, "duplicate_ballot", e)
    ELSE [v EXCEPT !.ballots = Put(@, <<e.subject, e.sender>>, Choice[e.type])]

QuorumStep(v, e) ==
    CASE e.type = "ApprovalRequest" -> OnRequest(v, e)
      [] e.type \in DOMAIN Choice -> SetBallot(v, e)
      [] OTHER -> v

-----------------------------------------------------------------------------
\* Queries.  bar is the effective_threshold argument: Unset for the payload's
\* required_approvals, Unsatisfiable for a policy no count can meet.
Unset == -1
Unsatisfiable == -2

VotedSenders(v, r) == {k[2] : k \in {q \in DOMAIN v.ballots : q[1] = r}}
CountVotes(v, r, choice) ==
    Cardinality({k \in DOMAIN v.ballots : k[1] = r /\ v.ballots[k] = choice})

Required(v, r, bar) == IF bar = Unset THEN v.requests[r] ELSE bar

HasQuorum(v, r, bar) ==
    /\ r \in DOMAIN v.requests /\ bar # Unsatisfiable
    /\ CountVotes(v, r, "approve") >= Required(v, r, bar)

\* A ballot of any type uses up its sender's chance to approve.
IsThresholdUnreachable_AtBar(v, r, eligible, bar) ==
    /\ r \in DOMAIN v.requests
    /\ bar = Unsatisfiable
        \/ CountVotes(v, r, "approve") + (eligible - Cardinality(VotedSenders(v, r)))
                <= Required(v, r, bar)
IsThresholdUnreachable(v, r, eligible, bar) ==
    /\ r \in DOMAIN v.requests
    /\ bar = Unsatisfiable
        \/ CountVotes(v, r, "approve") + (eligible - Cardinality(VotedSenders(v, r)))
                < Required(v, r, bar)

=============================================================================
