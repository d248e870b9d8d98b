SPECIFICATION Spec
CONSTANTS
  None = None
  Formulas <- MCFormulas
  Height <- MCHeight
  Commands <- MCCommands
  Indices <- MCIndices
INVARIANTS
  LoweringIsExact
  VerdictIsExact
  EvaluatorAgrees
CHECK_DEADLOCK FALSE
