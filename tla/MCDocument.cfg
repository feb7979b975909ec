\* Two changes, in one message or two, to texts with characters of any width.
SPECIFICATION Spec
CONSTANTS
  InitialTexts <- OpenedTexts
  Insertions <- Typed
  MaxLength = 5
  MaxEdits = 2
  MaxErrors = 2
  MaxMissing = 1
CHECK_DEADLOCK FALSE
INVARIANTS
  TypeOK
  SourceIsTheEditors
  TreeIsOfTheSource
  ScopesAreOfTheTree
PROPERTIES
  OnlyTheParserFails
  MaskedOnlyForGain
