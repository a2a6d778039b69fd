---------------------------- MODULE QuorumPolicy ----------------------------
(***************************************************************************)
(* effective_quorum_threshold of policy.py: the approval bar a Quorum      *)
(* session needs under its bound policy.  A threshold is a record          *)
(* [type, num, den], its value the rational num / den (den = 1 for an      *)
(* integer); "none" stands for rules without one or that do not parse.     *)
(***************************************************************************)
EXTENDS QuorumProjection

CONSTANT CountMax          \* the runtime's u32 ceiling of a count

CeilDiv(a, b) == -((-a) \div b)

AtLeastOne(k) == IF k < 1 THEN 1 ELSE IF k > CountMax THEN CountMax ELSE k

EffectiveQuorumThreshold(t, participants, required) ==
    CASE t.type = "none" \/ t.num <= 0 -> required
      [] t.type = "percentage" /\ t.num > 0 ->
            IF participants = 0 THEN Unsatisfiable
            ELSE AtLeastOne(CeilDiv(t.num * participants, 100 * t.den))
      [] t.type \in {"n_of_m", "count"} /\ t.num > 0 -> AtLeastOne(CeilDiv(t.num, t.den))
      [] OTHER -> Unsatisfiable
=============================================================================
