SPECIFICATION Spec
CONSTANTS
  Worlds <- MCWorlds
  Commands <- MCCommands
  Univ = Univ
  None = None
  IntSig = IntSig
  SeqIntSig = SeqIntSig
  StringSig = StringSig
INVARIANTS
  SiblingsAlike
  ScopesHonoured
  PopulationsExact
PROPERTY Settles
CHECK_DEADLOCK FALSE
