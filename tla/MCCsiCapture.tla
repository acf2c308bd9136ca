----------------------------- MODULE MCCsiCapture -----------------------------
(* Instance of CsiCapture for TLC: three buffers, one more than address registers. *)
EXTENDS CsiCapture, TLC

CONSTANTS b1, b2, b3

MCBuffers == {b1, b2, b3}

\* One start with late handlers or a fault, or two starts.
Budget(start, late, fault) ==
  [k \in BudgetKinds |-> CASE k = "start" -> start [] k = "late" -> late [] k = "fault" -> fault]
MCBudgets == {Budget(1, 2, 0), Budget(1, 1, 1), Budget(2, 0, 0)}
=============================================================================
