SPECIFICATION Spec
CONSTANTS
  w1 = w1  w2 = w2  w3 = w3
  None = None
  Workers <- MCWorkers
  Count = 4
  Order <- MCOrder
  Result <- MCResult
  Triggers <- MCTriggers
INVARIANT FoldsByPosition
PROPERTY Terminates
CHECK_DEADLOCK FALSE
