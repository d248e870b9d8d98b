SPECIFICATION SessionSpec
CONSTANTS
  p = p  q = q  a1 = a1  a2 = a2
  None = None
  Floating <- MCFloating
  Auxiliary <- MCAuxiliary
  Goals <- MCGoals
  ReportsEffort = TRUE
  Budgets <- MCBudgets
  Unrenderable <- MCUnrenderable
INVARIANTS
  Exact
  EachOnScreenOnce
PROPERTY IsEnumeration
CHECK_DEADLOCK FALSE
