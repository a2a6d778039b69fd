---------------------------- MODULE QuorumSession ----------------------------
(***************************************************************************)
(* A Quorum session as its initiator follows it: the projection applies    *)
(* what the feed carries, and the readiness helpers are asked with the bar *)
(* of the policy bound at SessionStart.                                    *)
(***************************************************************************)
EXTENDS QuorumPolicy

CONSTANTS
    NoId,              \* the empty message_id
    Envelopes,         \* the envelopes of the instance
    MaxLength          \* bound on the transcript

VARIABLES
    proj,
    roster,            \* the participants declared at SessionStart, as a list
    policy             \* the threshold of the bound policy, fixed at SessionStart

QuorumMode == "quorum"

INSTANCE EnvelopeFeed
    WITH Mode <- QuorumMode, ParsedTypes <- QuorumParsed, ModeStep <- QuorumStep, InitView <- QuorumInit

\* The initiator counts the list it passed, the runtime the participants that may vote.
Participants == {roster[i] : i \in DOMAIN roster}
Eligible == Len(roster)
Requests == DOMAIN view.requests
Bar(r) == EffectiveQuorumThreshold(policy, Eligible, view.requests[r])

\* A conforming runtime (external): one request, within the participant count;
\* one ballot a participant; a commitment once the count says so, and nothing after.
Conforming(t, e) ==
    /\ \A i \in DOMAIN t : t[i].type # "Commitment"
    /\ e.ok /\ e.mode = QuorumMode
    /\ e.type = "ApprovalRequest" => t = <<>> /\ e.value \in 1..Cardinality(Participants)
    /\ e.type \in DOMAIN Choice =>
        /\ t # <<>> /\ t[1].type = "ApprovalRequest" /\ t[1].subject = e.subject
        /\ e.sender \in Participants
        /\ \A i \in DOMAIN t : t[i].type \in DOMAIN Choice => t[i].sender # e.sender
    /\ e.type = "Commitment" => \E r \in Requests : HasQuorum(view, r, Bar(r))
                                    \/ IsThresholdUnreachable(view, r, Eligible, Bar(r))

-----------------------------------------------------------------------------
Shows(call, v) ==
    IF call.method = "request_approval" THEN v.requests[call.subject] = call.means
    ELSE v.ballots[<<call.subject, call.who>>] = call.means

\* The first ballot of a sender stands whatever it sends later, of any of the
\* three types (QuorumProjection._set_ballot, docs/modes/quorum.md).
BallotKept ==
    \A k \in DOMAIN view.ballots :
        k \in DOMAIN proj'.view.ballots /\ proj'.view.ballots[k] = view.ballots[k]

\* A ballot on a known request is counted or leaves an anomaly: none disappears.
BallotsOn(r) == {i \in DOMAIN proj.transcript :
                    proj.transcript[i].type \in DOMAIN Choice /\ proj.transcript[i].subject = r}
Opening(r) == {i \in DOMAIN proj.transcript :
                    proj.transcript[i].type = "ApprovalRequest" /\ proj.transcript[i].subject = r}

BallotsAccounted ==
    \A r \in Requests :
        Cardinality({i \in BallotsOn(r) : \E j \in Opening(r) : j < i})
            = Cardinality(VotedSenders(view, r))
                + Cardinality({i \in DOMAIN view.anomalies : view.anomalies[i].subject = r})

\* The positive and the negative commitment are never both eligible, and one of them
\* is as soon as every participant has cast its ballot: the session is never left
\* without a commitment its initiator may issue, nor with a choice of two.
VerdictDecides ==
    \A r \in Requests :
        LET met == HasQuorum(view, r, Bar(r))
            unreachable == IsThresholdUnreachable(view, r, Eligible, Bar(r))
        IN  ~(met /\ unreachable) /\ (VotedSenders(view, r) = Participants => met \/ unreachable)

\* A verdict is final: a later ballot never takes it back, so a coordinator that
\* acts on it once need not ask again.
VerdictKept ==
    \A r \in Requests :
        /\ HasQuorum(view, r, Bar(r)) => HasQuorum(view', r, Bar(r))
        /\ IsThresholdUnreachable(view, r, Eligible, Bar(r))
                => IsThresholdUnreachable(view', r, Eligible, Bar(r))

\* The bar of a percentage is the least positive count that is at least that share of
\* the participants (RFC-MACP-0012: exact integer arithmetic, rounded up), up to the
\* runtime's ceiling of a count.
BarIsLeast ==
    policy.type = "percentage" /\ policy.num > 0 /\ Eligible > 0 =>
        \A r \in Requests :
            /\ Bar(r) \in 1..CountMax
            /\ Bar(r) = CountMax \/ Bar(r) * 100 * policy.den >= policy.num * Eligible
            /\ Bar(r) > 1 => (Bar(r) - 1) * 100 * policy.den < policy.num * Eligible
=============================================================================
