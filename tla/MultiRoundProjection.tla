------------------------ MODULE MultiRoundProjection ------------------------
(***************************************************************************)
(* MultiRoundProjection of multi_round.py.  value is the set of            *)
(* participants of a SessionStart and the contributed value of a           *)
(* Contribute, Undecodable when _contribute_value reads none from it (it   *)
(* never raises).  An empty set of participants is "not known".            *)
(***************************************************************************)
EXTENDS ProjectionView

MultiRoundParsed == {"SessionStart"}
Undecodable == "undecodable"
NoOne == ""

\* __init__ with the participants and initiator it was seeded with, if any.
MultiRoundSeeded(participants, initiator) ==
    [phase |-> "Pending", commitment |-> NoCommitment, anomalies |-> <<>>,
     participants |-> participants, initiator |-> initiator, contributions |-> <<>>,
     round |-> 0, converged |-> FALSE, agreed |-> Undecodable]

MultiRoundInit == MultiRoundSeeded({}, NoOne)

\* An envelope built without a resolved sender does not erase a known initiator.
OnSessionStart(v, e) ==
    SetPhase([v EXCEPT !.participants = e.value,
                       !.initiator = IF e.sender = NoOne THEN @ ELSE e.sender],
             "Contributing")

\* The latest values of those participants that have contributed.
Values(v) == {v.contributions[p] : p \in v.participants \cap DOMAIN v.contributions}

\* Every participant has contributed, and all their latest values are equal.
AllEqual(v) ==
    /\ v.participants # {} /\ v.participants \subseteq DOMAIN v.contributions
    /\ Cardinality(Values(v)) = 1

CheckConvergence(v) ==
    IF AllEqual(v)
    THEN SetPhase([v EXCEPT !.converged = TRUE, !.agreed = CHOOSE x \in Values(v) : TRUE],
                  "Converged")
    ELSE v

IsParticipant(v, sender) == v.participants = {} \/ sender \in v.participants

\* A value that is new or changed advances the round; sent again it does not.
Contributed(v, e) ==
    IF e.sender \in DOMAIN v.contributions /\ v.contributions[e.sender] = e.value THEN v
    ELSE [v EXCEPT !.round = @ + 1, !.contributions = Put(@, e.sender, e.value)]

\* Convergence is sticky: a later contribution changes nothing.
OnContribute(v, e) ==
    IF e.value = Undecodable \/ v.converged \/ ~IsParticipant(v, e.sender) THEN v
    ELSE CheckConvergence(Contributed(v, e))

MultiRoundStep(v, e) ==
    CASE e.type = "SessionStart" -> OnSessionStart(v, e)
      [] e.type = "Contribute"   -> OnContribute(v, e)
      [] OTHER -> v
=============================================================================
