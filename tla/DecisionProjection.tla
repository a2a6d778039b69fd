------------------------- MODULE DecisionProjection -------------------------
(***************************************************************************)
(* DecisionProjection of projections.py: the view a Decision session's     *)
(* accepted history derives, and the queries a coordinator asks of it.     *)
(* subject is the proposal_id; value is an option, a recommendation, a     *)
(* severity or a vote; votes is keyed by <<proposal_id, sender>>.          *)
(***************************************************************************)
EXTENDS ProjectionView

Phases == {"Proposal", "Evaluation", "Voting", "Committed"}
DecisionParsed == {"Proposal", "Evaluation", "Objection", "Vote"}

DecisionInit ==
    [phase |-> "Proposal", commitment |-> NoCommitment, anomalies |-> <<>>,
     proposals |-> <<>>, evaluations |-> <<>>, objections |-> <<>>, votes |-> <<>>]

\* Opens the evaluation window, and only from the initial phase.
OnProposal(v, e) ==
    LET w == [v EXCEPT !.proposals = Put(@, e.subject, [option |-> e.value, sender |-> e.sender])]
    IN  IF v.phase = "Proposal" THEN SetPhase(w, "Evaluation") ELSE w

OnEvaluation(v, e) ==
    SetPhase([v EXCEPT !.evaluations =
                    Append(@, [subject |-> e.subject, value |-> e.value, sender |-> e.sender])],
               "Evaluation")

OnObjection(v, e) ==
    [v EXCEPT !.objections =
        Append(@, [subject |-> e.subject, sender |-> e.sender,
                   severity |-> IF e.value = "" THEN "medium" ELSE e.value])]

\* The first vote of a sender on a proposal stands; a vote on a proposal this
\* projection never saw is dropped without a trace.
OnVote(v, e) ==
    IF e.subject \notin DOMAIN v.proposals THEN v
    ELSE IF <<e.subject, e.sender>> \in DOMAIN v.votes
    THEN RecordAnomaly(v, "duplicate_vote", e)
    ELSE SetPhase([v EXCEPT !.votes = Put(@, <<e.subject, e.sender>>, e.value)], "Voting")

DecisionStep(v, e) ==
    CASE e.type = "Proposal"   -> OnProposal(v, e)
      [] e.type = "Evaluation" -> OnEvaluation(v, e)
      [] e.type = "Objection"  -> OnObjection(v, e)
      [] e.type = "Vote"       -> OnVote(v, e)
      [] OTHER                 -> v

-----------------------------------------------------------------------------
\* Queries.  Comparisons fold case, which accepted history never needs.
IsPositiveVote(vote) == vote \in {"APPROVE", "APPROVED", "YES", "ACCEPT", "ACCEPTED"}
VotesOn(v, p) == {k \in DOMAIN v.votes : k[1] = p}
Counted(v, keys) == {k \in keys : v.votes[k] # "ABSTAIN"}
Approvals(v, p) == {k \in VotesOn(v, p) : IsPositiveVote(v.votes[k])}

\* Only proposals somebody voted on have a total, and it may be zero.
VoteTotals(v) == [p \in {k[1] : k \in DOMAIN v.votes} |-> Cardinality(Approvals(v, p))]

\* More than half of the votes that count, over all proposals; none if nobody has it.
MajorityWinner(v) ==
    {p \in DOMAIN VoteTotals(v) : 2 * VoteTotals(v)[p] > Cardinality(Counted(v, DOMAIN v.votes))}

HasBlockingObjection(v, p) ==
    \E i \in DOMAIN v.objections : v.objections[i].severity = "critical" /\ v.objections[i].subject = p

\* The reviews, by their places among the evaluations; the others as a list.
ReviewEvaluations(v) == {i \in DOMAIN v.evaluations : v.evaluations[i].value = "REVIEW"}
QualifyingEvaluations(v) == SelectSeq(v.evaluations, LAMBDA e : e.value # "REVIEW")

\* A fraction; no vote that counts is none of none.
VoteRatio(v, p) ==
    [approvals |-> Cardinality(Approvals(v, p)), of |-> Cardinality(Counted(v, VotesOn(v, p)))]
=============================================================================
