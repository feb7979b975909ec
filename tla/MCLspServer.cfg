\* Safety: two documents, three edits between them.
SPECIFICATION Spec
CONSTANTS
  Uris = {u1, u2}
  NoUri = none
  MaxEdits = 3
  MaxVersion = 2
CHECK_DEADLOCK FALSE
SYMMETRY UriSymmetry
INVARIANTS
  TypeOK
  OneLiveCheck
  StaleHoverOnlyOvertaken
  StaleDiagnosticsOnlyOvertaken
  IndexAgreesWithDocuments
