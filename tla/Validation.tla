----------------------------- MODULE Validation -----------------------------
(***************************************************************************)
(* validation.py and what envelope.py infers from an action's name, on the *)
(* spellings an instance uses.                                             *)
(***************************************************************************)
Blank(text) == text \in {"", " "}

Upper(text) ==
    CASE text \in {"approve", "Approve"} -> "APPROVE" [] text = "review" -> "REVIEW" [] OTHER -> text
Lower(text) ==
    CASE text = "CRITICAL" -> "critical" [] text = "TASK.FAILED" -> "task.failed" [] OTHER -> text

Votes == {"APPROVE", "REJECT", "ABSTAIN"}
Recommendations == {"APPROVE", "REVIEW", "BLOCK", "REJECT"}
Severities == {"critical", "high", "medium", "low"}

\* A confidence is "low", "in" or "high" of [0, 1], or "nan".
ConfidenceIn(confidence) == confidence = "in"

\* The last component of an action's name, as the suffix lists know them.
Negative == {"rejected", "task.failed", "declined"}
Positive == {"selected", "accepted", "completed", "approved"}
InferOutcomePositive(action) == Lower(action) \notin Negative
=============================================================================
