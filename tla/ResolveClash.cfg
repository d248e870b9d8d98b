SPECIFICATION ResolveSpec
CONSTANTS
  Projects <- Clash
  Embedded <- Library
PROPERTY OverlappingFieldsClash
