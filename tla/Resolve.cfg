SPECIFICATION ResolveSpec
CONSTANTS
  Projects <- MCProjects
  Embedded <- Library
INVARIANTS
  GraphIsAsWritten
  ArgumentsReachTheirModule
  InheritanceIsAForest
PROPERTIES
  TypesAreExact
  TypesAreSound
  ResolutionEnds
