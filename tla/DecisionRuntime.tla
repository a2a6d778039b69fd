-------------------------- MODULE DecisionRuntime --------------------------
(***************************************************************************)
(* External: what a conforming runtime accepts in a Decision session after *)
(* the history t, RFC-MACP-0007 as projections.py and                      *)
(* tests/conformance/decision_reject_paths.json cite it.  It compares      *)
(* values case-sensitively; the binding of a Commitment to the session's   *)
(* policy is the caller's to state.                                        *)
(***************************************************************************)
EXTENDS Naturals, Sequences

Has(t, type) == \E i \in DOMAIN t : t[i].type = type

Proposed(t, p) == \E i \in DOMAIN t : t[i].type = "Proposal" /\ t[i].subject = p
Voted(t, p, s) == \E i \in DOMAIN t : t[i].type = "Vote" /\ t[i].subject = p /\ t[i].sender = s

WellFormed(e) ==
    CASE e.type = "Vote" -> e.value \in {"APPROVE", "REJECT", "ABSTAIN"}
      [] e.type = "Evaluation" -> e.value \in {"APPROVE", "REVIEW", "BLOCK", "REJECT"}
      [] e.type = "Objection" -> e.value \in {"critical", "high", "medium", "low"}
      [] OTHER -> TRUE

\* Rules 1, 2, 3 and 6: unique proposals, messages about known ones, one vote of a
\* sender on each, and no deliberation once voting began; nothing after a commitment.
Accepts(t, e) ==
    /\ WellFormed(e) /\ ~Has(t, "Commitment")
    /\ e.type \in {"Proposal", "Evaluation", "Objection"} => ~Has(t, "Vote")
    /\ e.type = "Proposal" => ~Proposed(t, e.subject)
    /\ e.type \in {"Evaluation", "Objection", "Vote"} => Proposed(t, e.subject)
    /\ e.type = "Vote" => ~Voted(t, e.subject, e.sender)
=============================================================================
