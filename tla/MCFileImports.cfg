\* An import from a file that is open.
SPECIFICATION Spec
CONSTANTS
  Names <- MCNames
  Mentioned = "a"
  MaxPhrases = 0
  Base <- MCBase
  Target <- MCTarget
  Uris <- MCOpenUris
  OnDisk <- MCOnDisk
  Imports <- MCFileImports
  Written = {}
  MaxLines = 0
  Characters = {}
  MaxText = 0
CHECK_DEADLOCK FALSE
INVARIANT OpenImportsAreTheEditors
