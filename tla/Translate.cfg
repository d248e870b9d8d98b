SPECIFICATION Spec
CONSTANTS
  SigAtoms <- MCSigAtoms
  Bitwidth <- MCBitwidth
  StringAtoms <- MCStringAtoms
  Relations <- MCRelations
  RelLower <- MCRelLower
  RelUpper <- MCRelUpper
  IntSig = "Int"
  SeqIntSig = "seqInt"
  Goals <- MCGoals
  Widths <- MCWidths
  Operands <- MCOperands
PROPERTIES CircuitsExact EncoderMatchesEvaluator SharingIsFaithful ForbidOnlyExcludes
CHECK_DEADLOCK FALSE
