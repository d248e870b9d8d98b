SPECIFICATION Spec
CONSTANTS
  SigAtoms <- MCSigAtoms
  Bitwidth <- MCBitwidth
  StringAtoms <- MCStringAtoms
  Relations <- MCRelations
  RelLower <- MCRelLower
  RelUpper <- MCRelUpper
  IntSig <- MCIntSig
  SeqIntSig <- MCSeqIntSig
  TopLevelSigs <- MCTopLevelSigs
  SigDenote <- MCSigDenote
  FieldDenote <- MCFieldDenote
  FieldArity <- MCFieldArity
  Funcs <- MCFuncs
  StringDenote <- MCStringDenote
  IntNext <- MCIntNext
  IntZero <- MCIntZero
  SeqInt <- MCSeqInt
  Worlds <- MCWorlds
PROPERTIES  FragmentsMintNothing RefusesOnlyTheInexpressible
CHECK_DEADLOCK FALSE
