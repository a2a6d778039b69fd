-------------------------- MODULE DecisionSession --------------------------
(***************************************************************************)
(* A Decision session's projection under any feed at all: what it keeps    *)
(* even when the feed carries what a runtime would have refused.           *)
(***************************************************************************)
EXTENDS DecisionProjection, DecisionRuntime

CONSTANTS
    NoId,              \* the empty message_id
    Envelopes,         \* the envelopes of the instance
    MaxLength          \* bound on the transcript

VARIABLE proj

DecisionMode == "decision"

INSTANCE EnvelopeFeed
    WITH Mode <- DecisionMode, ParsedTypes <- DecisionParsed, ModeStep <- DecisionStep, InitView <- DecisionInit

Before(i, type, subject) ==
    \E j \in 1..i - 1 : proj.transcript[j].type = type /\ proj.transcript[j].subject = subject

\* Every vote on a proposal seen by then is counted or leaves an anomaly, and a
\* vote counted is for a proposal that is known: no vote disappears silently.
VotesAccounted ==
    /\ Cardinality({i \in DOMAIN proj.transcript :
            proj.transcript[i].type = "Vote" /\ Before(i, "Proposal", proj.transcript[i].subject)})
        = Cardinality(DOMAIN view.votes) + Len(view.anomalies)
    /\ \A k \in DOMAIN view.votes : k[1] \in DOMAIN view.proposals

\* A conforming runtime (external).
Conforming(t, e) ==
    e.ok /\ e.mode = DecisionMode /\ (\A i \in DOMAIN t : t[i].id # e.id) /\ Accepts(t, e)

\* What call says, as whom and meaning what, the projection answers when asked.
Shows(call, v) ==
    CASE call.method = "propose" -> v.proposals[call.subject].sender = call.who
      [] call.method = "evaluate" ->
            LET last == Len(v.evaluations)
            IN  /\ v.evaluations[last].sender = call.who
                /\ last \in ReviewEvaluations(v) <=> call.means = "REVIEW"
      [] call.method = "raise_objection" ->
            call.means = "critical" => HasBlockingObjection(v, call.subject)
      [] call.method = "vote" ->
            /\ v.votes[<<call.subject, call.who>>] = call.means
            /\ call.means = "APPROVE" => VoteTotals(v)[call.subject] > 0
            /\ call.means # "ABSTAIN" => VoteRatio(v, call.subject).of > 0

\* The phase follows the runtime's: deliberation before the first vote, voting after it,
\* never back (RFC-MACP-0007 rule 6), until the commitment.
PhaseAgrees ==
    LET has(type) == \E i \in DOMAIN proj.transcript : proj.transcript[i].type = type
    IN  /\ view.phase = "Committed" <=> has("Commitment")
        /\ view.phase = "Voting" <=> has("Vote") /\ ~has("Commitment")
        /\ view.phase = "Proposal" <=> ~has("Proposal") /\ ~has("Commitment")

\* A vote once counted is never replaced or withdrawn, and the commitment's phase is
\* never left, whatever the feed carries.
VoteKept ==
    /\ \A k \in DOMAIN view.votes :
        k \in DOMAIN proj'.view.votes /\ proj'.view.votes[k] = view.votes[k]
    /\ view.phase = "Committed" => proj'.view.phase = "Committed"
=============================================================================
