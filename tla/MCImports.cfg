\* An import of two files of which one is open.
SPECIFICATION Spec
CONSTANTS
  Names <- MCNames
  Mentioned = "a"
  MaxPhrases = 0
  Base <- MCBase
  Target <- MCTarget
  Uris <- MCOpenUris
  OnDisk <- MCOnDisk
  Imports <- MCListImports
  Written = {}
  MaxLines = 0
  Characters = {}
  MaxText = 0
CHECK_DEADLOCK FALSE
INVARIANT UnopenedFilesFallBack
