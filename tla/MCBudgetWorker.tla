--------------------------- MODULE MCBudgetWorker ---------------------------
(* Three budgets, so that one may change again before it was applied.      *)
EXTENDS BudgetWorker
=============================================================================
