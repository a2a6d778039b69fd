--------------------------- MODULE MCDecisionFeed ---------------------------
(***************************************************************************)
(* The feeds of ProjectionFeed on a Decision session: a proposal of a      *)
(* peer, an evaluation, votes of both sides (one of them twice, as two     *)
(* envelopes) and a commitment, against a runtime that admits what         *)
(* RFC-MACP-0007 allows as the projections' comments cite it.              *)
(***************************************************************************)
EXTENDS ProjectionFeed, DecisionProjection

CONSTANTS me, peer

Msg(id, type, sender, value) ==
    [id |-> id, mode |-> Mode, type |-> type, sender |-> sender,
     subject |-> IF type = "Commitment" THEN "c1" ELSE "p1", value |-> value, ok |-> TRUE]

MCMessages ==
    {Msg("m1", "Proposal", peer, "x"), Msg("m2", "Evaluation", peer, "APPROVE"),
     Msg("m3", "Vote", peer, "APPROVE"), Msg("m4", "Vote", me, "REJECT"),
     Msg("m5", "Vote", me, "APPROVE"), Msg("m6", "Commitment", peer, "")}

Of(log0, types) == {i \in DOMAIN log0 : log0[i].type \in types}

\* One proposal before everything else, deliberation before the first vote, one
\* vote a sender, nothing after the commitment.
MCAdmissible(log0, m) ==
    /\ Of(log0, {"Commitment"}) = {}
    /\ m.type = "Proposal" => Of(log0, {"Proposal"}) = {}
    /\ m.type # "Proposal" => Of(log0, {"Proposal"}) # {}
    /\ m.type = "Evaluation" => Of(log0, {"Vote"}) = {}
    /\ m.type = "Vote" => \A i \in Of(log0, {"Vote"}) : log0[i].sender # m.sender

\* A consumer that has read everything the runtime accepted, with no RPC pending.
CaughtUp == AtLoop /\ stream = Len(log) /\ Len(proj.transcript) = Len(log)

\* The double feed corrupts no derived state: once everything accepted is
\* applied, votes and phase are those of accepted history.
DoubleFeedIsSafe ==
    CaughtUp =>
        LET history == Replay(Fresh(DecisionInit), log).view
        IN  proj.view.votes = history.votes /\ proj.view.phase = history.phase
=============================================================================
