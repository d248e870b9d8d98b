SPECIFICATION Spec
CONSTANTS
  MaxExprDepth <- MCMaxExprDepth
  MaxAstPath <- MCMaxAstPath
  Dollar <- MCDollar
  Sources <- MCSources
  Prompts <- MCPrompts
INVARIANTS ReadsWhatWasMeant LosesOnlyTheNamed
CHECK_DEADLOCK FALSE
