-------------------------- MODULE MCDecisionAgents --------------------------
(* Three agents, an initiator among them, and the ways to wire them.        *)
EXTENDS DecisionAgents

MCNoId == <<>>

Half == [num |-> 1, den |-> 2]
Boot(policy, kickoff) == [start_policy |-> None, policy |-> policy, kickoff |-> kickoff]
Wiring(evaluators, opinion, quorum, authority) ==
    [present |-> Agents, evaluators |-> evaluators, opinion |-> opinion, quorum |-> quorum,
     authority |-> authority, proposers |-> {}, threshold |-> Half, action |-> "selected",
     boot |-> Boot("", "p1")]
Without(b, w) == [w EXCEPT !.present = @ \ {b}]

Likes == [p \in {"p1"} |-> "approve"]
LikesBoth == [p \in {"p1", "p2"} |-> "APPROVE"]
Prefers == [p \in {"p1", "p2"} |-> IF p = "p1" THEN "Approve" ELSE "BLOCK"]
OnlyReviews == [p \in {"p1", "p2"} |-> IF p = "p1" THEN "review" ELSE "APPROVE"]

\* One evaluator, each bar, with and without others who may commit; two evaluators; an
\* agent that never starts; a second proposal racing the vote; a named policy; no kickoff.
MCWirings ==
    {Wiring({e}, Likes, q, {"i"}) : e \in {"a", "i"}, q \in 1..3}
    \cup {Wiring({"a"}, Likes, q, Agents) : q \in 2..3}
    \cup {Without("b", Wiring({"a"}, Likes, q, {"i"})) : q \in 2..3}
    \cup {Wiring({"a", "i"}, Likes, 2, {"i"}), Wiring({"a"}, [Likes EXCEPT !["p1"] = "BLOCK"], 1, Agents)}
    \cup {Without("b", [Wiring({"a"}, o, q, {"i"}) EXCEPT !.proposers = {"b"}]) :
            o \in {LikesBoth, Prefers}, q \in 2..3}
    \cup {[Wiring({"a"}, OnlyReviews, 2, {"i"}) EXCEPT !.proposers = {"b"}]}
    \cup {[Wiring({"a"}, Likes, 2, {"i"}) EXCEPT !.boot = Boot("procurement-v3", "p1"), !.action = "declined"],
          [Wiring({"a"}, Likes, 1, {"i"}) EXCEPT !.boot = [Boot("x", None) EXCEPT !.start_policy = ""],
                                                 !.proposers = {"i"}, !.action = "declined"]}

\* The docstring's session: three participants, each of whom evaluates, votes and commits.
EveryoneEvaluates == {Wiring({"i", "a", "b"}, Likes, 3, {"i", "a", "b"})}
=============================================================================
