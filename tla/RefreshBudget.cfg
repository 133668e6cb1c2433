CONSTANTS
  Tabs = {t1, t2}
  Limit = 2
  Window = 3
  MaxTime = 7
SPECIFICATION BudgetSpec
INVARIANTS
  BudgetTypeOK
  WithinBudgetInTurn
  RefusedOnlyWhenSpent
\* The clock stops at its bound.
CHECK_DEADLOCK FALSE
