\* Three files, two of them open at once at most.
SPECIFICATION Spec
CONSTANTS
  WalkOrder <- MCWalkOrder
  Contents <- MCContents
  Names <- MCNames
  Paths <- MCPaths
  Escaped <- MCEscaped
  MaxOpen = 2
INVARIANTS
  TypeOK
  GraphIsCurrent
  IndexIsTheEditors
  RenameFollowsDefinition
PROPERTIES
  EditsAreLocal
