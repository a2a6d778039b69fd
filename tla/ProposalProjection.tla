------------------------- MODULE ProposalProjection -------------------------
(***************************************************************************)
(* ProposalProjection of proposal.py.  subject is the proposal_id; value   *)
(* of a CounterProposal is the proposal it supersedes; flag of a Reject is *)
(* terminal.  latest is _latest_accept_by_sender.                          *)
(***************************************************************************)
EXTENDS ProjectionView

ProposalParsed == {"Proposal", "CounterProposal", "Accept", "Reject", "Withdraw"}

ProposalInit ==
    [phase |-> "Negotiating", commitment |-> NoCommitment, anomalies |-> <<>>,
     proposals |-> <<>>, accepts |-> <<>>, rejections |-> <<>>, latest |-> <<>>]

Known(v, e) == e.subject \in DOMAIN v.proposals

\* A counter-proposal leaves the one it supersedes open.
OnPropose(v, e, supersedes) ==
    [v EXCEPT !.proposals =
        Put(@, e.subject, [sender |-> e.sender, supersedes |-> supersedes, status |-> "open"])]

\* A later accept of the same sender replaces its earlier one.
OnAccept_FirstWins(v, e) ==
    [v EXCEPT !.accepts = Append(@, [proposal |-> e.subject, sender |-> e.sender]),
              !.latest = IF e.sender \in DOMAIN @ THEN @ ELSE Put(@, e.sender, e.subject)]
OnAccept(v, e) ==
    [v EXCEPT !.accepts = Append(@, [proposal |-> e.subject, sender |-> e.sender]),
              !.latest = Put(@, e.sender, e.subject)]

\* Recorded always; only a terminal one of a known proposal ends the negotiation.
OnReject_Ungated(v, e) ==
    LET w == [v EXCEPT !.rejections =
                Append(@, [proposal |-> e.subject, sender |-> e.sender, terminal |-> e.flag])]
    IN  IF e.flag THEN SetPhase(w, "TerminalRejected") ELSE w
OnReject(v, e) ==
    LET w == [v EXCEPT !.rejections =
                Append(@, [proposal |-> e.subject, sender |-> e.sender, terminal |-> e.flag])]
    IN  IF ~e.flag \/ ~Known(v, e) THEN w
        ELSE SetPhase([w EXCEPT !.proposals[e.subject].status = "rejected"], "TerminalRejected")

OnWithdraw(v, e) ==
    IF Known(v, e) THEN [v EXCEPT !.proposals[e.subject].status = "withdrawn"] ELSE v

ProposalStep(v, e) ==
    CASE e.type = "Proposal"        -> OnPropose(v, e, "")
      [] e.type = "CounterProposal" -> OnPropose(v, e, e.value)
      [] e.type = "Accept"          -> OnAccept(v, e)
      [] e.type = "Reject"          -> OnReject(v, e)
      [] e.type = "Withdraw"        -> OnWithdraw(v, e)
      [] OTHER -> v

-----------------------------------------------------------------------------
\* Queries.
Accepting(v) == {v.latest[s] : s \in DOMAIN v.latest}

\* None (here: the empty set) unless all accepting senders agree.
AcceptedProposal(v) == IF Cardinality(Accepting(v)) = 1 THEN Accepting(v) ELSE {}
=============================================================================
