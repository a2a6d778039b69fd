----------------------- MODULE MCParticipantDispatch -----------------------
(* Histories of a Decision, a Proposal and a Handoff session, the last with *)
(* an offer accepted or one declined and a second made, ended by a          *)
(* commitment, a cancellation, or one racing the other.                     *)
EXTENDS ParticipantDispatch

E(id, type, phase) == [id |-> id, type |-> type, phase |-> phase]

Decision == <<E(1, "Proposal", "Evaluation"), E(2, "Evaluation", "Evaluation"),
              E(3, "Vote", "Voting"), E(4, "Vote", "Voting")>>
Handoff == <<E(1, "HandoffOffer", "OfferPending"), E(2, "HandoffContext", "ContextSharing"),
             E(3, "HandoffAccept", "Accepted")>>
Reoffer == <<E(1, "HandoffOffer", "OfferPending"), E(2, "HandoffDecline", "Declined"),
             E(3, "HandoffOffer", "OfferPending")>>
Committed == E(8, "Commitment", "Committed")
Cancelled == E(9, "SessionCancel", "same")

MCScripts ==
    {Append(Decision, Committed), Append(Decision, Cancelled),
     Decision \o <<Committed, Cancelled>>, Append(Handoff, Committed),
     Handoff \o <<Cancelled>>, <<Cancelled>>, Append(Reoffer, Committed), Append(Reoffer, Cancelled),
     <<E(1, "Proposal", "same"), E(2, "Reject", "TerminalRejected"), Cancelled>>}

\* Over gRPC or polling, in a mode with a projection or without one.
Kind(overGrpc, projected) == [raw |-> overGrpc, projected |-> projected]
MCKinds == {Kind(r, p) : r \in BOOLEAN, p \in BOOLEAN}

\* These histories are such as a session has.
ASSUME HistoriesEnd == CommitmentsEnd
=============================================================================
