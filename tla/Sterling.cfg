SPECIFICATION Spec
CONSTANTS
  tab1 = tab1  tab2 = tab2
  None = None
  Pages <- MCPages
  Trace <- MCTrace
  Typed <- MCTyped
  Audiences <- MCAudiences
  MaxSockets = 2
  MaxAsks = 2
INVARIANTS
  PageInStep
  AnswersTheDatumAsked
PROPERTY EveryWaitEnds
CHECK_DEADLOCK FALSE
