-------------------------- MODULE ProposalSession --------------------------
(***************************************************************************)
(* A Proposal session as one of its projections follows it.                *)
(***************************************************************************)
EXTENDS ProposalProjection

CONSTANTS
    NoId,              \* the empty message_id
    Envelopes,         \* the envelopes of the instance
    MaxLength          \* bound on the transcript

VARIABLES
    proj,
    roster             \* the participants declared at SessionStart, as a list

Participants == {roster[i] : i \in DOMAIN roster}
ProposalMode == "proposal"

INSTANCE EnvelopeFeed
    WITH Mode <- ProposalMode, ParsedTypes <- ProposalParsed, ModeStep <- ProposalStep, InitView <- ProposalInit

\* A conforming runtime (external), RFC-MACP-0008 as proposal.py and
\* tests/conformance/proposal_reject_paths.json cite it: new ids, answers about known
\* proposals and accepts of those not withdrawn, withdrawals by the proposer, a
\* commitment once everybody accepts one proposal or somebody ended the negotiation.
Opened(t, p) == \E i \in DOMAIN t : t[i].type \in {"Proposal", "CounterProposal"} /\ t[i].subject = p
Withdrawn(t, p) == \E i \in DOMAIN t : t[i].type = "Withdraw" /\ t[i].subject = p
OpenedBy(t, p, s) ==
    \E i \in DOMAIN t : t[i].type \in {"Proposal", "CounterProposal"} /\ t[i].subject = p /\ t[i].sender = s
LastAccept(t, s, p) ==
    \E i \in DOMAIN t : /\ t[i].type = "Accept" /\ t[i].sender = s /\ t[i].subject = p
                        /\ \A j \in i + 1..Len(t) : ~(t[j].type = "Accept" /\ t[j].sender = s)
Rejected(t) == \E i \in DOMAIN t : t[i].type = "Reject" /\ t[i].flag
Agreed(t, p) == ~Withdrawn(t, p) /\ \A s \in Participants : LastAccept(t, s, p)

Conforming(t, e) ==
    /\ e.ok /\ e.mode = ProposalMode
    /\ \A i \in DOMAIN t : t[i].type # "Commitment" /\ t[i].id # e.id
    /\ e.type \in {"Proposal", "CounterProposal"} => ~Opened(t, e.subject)
    /\ e.type = "CounterProposal" => Opened(t, e.value)
    /\ e.type \in {"Accept", "Reject", "Withdraw"} => Opened(t, e.subject)
    /\ e.type = "Accept" => ~Withdrawn(t, e.subject)
    /\ e.type = "Withdraw" => OpenedBy(t, e.subject, e.sender)
    /\ e.type = "Commitment" => Rejected(t) \/ \E i \in DOMAIN t : Agreed(t, t[i].subject)

Shows(call, v) ==
    CASE call.method \in {"propose", "counter_propose"} ->
            v.proposals[call.subject] = [sender |-> call.who, supersedes |-> call.means, status |-> "open"]
      [] call.method = "accept" -> v.latest[call.who] = call.subject
      [] call.method = "reject" -> call.flag => v.phase = "TerminalRejected"
      [] call.method = "withdraw" -> v.proposals[call.subject].status = "withdrawn"

\* The positions at which a sender accepted something, in the transcript.
AcceptsOf(s) ==
    {i \in DOMAIN proj.transcript : proj.transcript[i].type = "Accept"
                                        /\ proj.transcript[i].sender = s}
Senders == {e.sender : e \in Envelopes}

\* accepted_proposal names p exactly when somebody accepted and the last accept of
\* everyone who did names p: no earlier position of a sender lingers
\* (RFC-MACP-0008 5.5, docs/modes/proposal.md).
AcceptedIsLatest ==
    \A p \in {e.subject : e \in Envelopes} :
        p \in AcceptedProposal(view) <=>
            /\ \E s \in Senders : AcceptsOf(s) # {}
            /\ \A s \in Senders : \A i \in AcceptsOf(s) :
                    (\A j \in AcceptsOf(s) : j <= i) => proj.transcript[i].subject = p

\* The phase says TerminalRejected only after a terminal Reject of a proposal that
\* had been seen by then, and keeps saying so until the commitment: a participant
\* is not torn down by a Reject of something it never saw, nor revived.
TerminalIsSeen ==
    view.phase # "Committed" =>
        (view.phase = "TerminalRejected" <=>
            \E i, j \in DOMAIN proj.transcript :
                /\ j < i /\ proj.transcript[i].type = "Reject" /\ proj.transcript[i].flag
                /\ proj.transcript[j].type \in {"Proposal", "CounterProposal"}
                /\ proj.transcript[j].subject = proj.transcript[i].subject)
=============================================================================
