\* Programs of three phrases, requests for eight imports, files of three lines, and texts of
\* four characters.
SPECIFICATION Spec
CONSTANTS
  Names <- MCNames
  Mentioned = "a"
  MaxPhrases = 3
  Base <- MCBase
  Target <- MCTarget
  Uris <- MCUris
  OnDisk <- MCOnDisk
  Imports <- MCImports
  Written <- MCWritten
  MaxLines = 3
  Characters = {"DOUBLE", "EMOJI", "#", "LF"}
  MaxText = 4
CHECK_DEADLOCK FALSE
INVARIANTS
  BindingIsInnermost
  RenameKeepsBindings
  ImportsSeeTheEditor
  MasksKeepPlaces
  OutlineSurvives
  TokensAreWhereCaptured
