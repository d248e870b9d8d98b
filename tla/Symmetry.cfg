SPECIFICATION Spec
CONSTANTS
  Atoms = {0, 1, 2, 3}
  IntStart = 3
  Rels <- MCRels
  Arity <- MCArity
  Rank <- MCRank
  Skolems <- MCSkolems
  Builtins <- MCBuiltins
  MetaFields <- MCMetaFields
  Problems <- AllProblems
  Caps <- MCCaps
INVARIANTS
  ClassesExact
  SomeRenamingKept
CHECK_DEADLOCK FALSE
