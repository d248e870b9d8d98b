SPECIFICATION MCSpec
CONSTANTS
  c1 = c1  c2 = c2  x = x  y = y  w1 = w1  w2 = w2
  None = None
  Config <- MCConfig
  Content <- MCContent
  Witness <- MCWitness
  Commands <- MCCommands
  MinLen = 1
  MaxLen = 3
  Exports <- MCExports
  StateIndices <- MCStateIndices
  MaxMinted = 4
INVARIANTS
  SweepComplete
  ConfigsComplete
  EvaluatorOnScreen
PROPERTIES
  NoRepeat
  KeepsConfig
  ForkComplete
  ButtonsKeepTheirWord
  EveryCallAnswered
CHECK_DEADLOCK FALSE
