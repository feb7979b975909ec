\* What the server promises: two documents, two edits, fair goroutines.
SPECIFICATION FairSpec
CONSTANTS
  Uris = {u1, u2}
  NoUri = none
  MaxEdits = 2
  MaxVersion = 2
CHECK_DEADLOCK FALSE
PROPERTIES
  HoverImplementsChecks
  DiagnosticsImplementChecks
  LiveAnswersAreShown
  ServerComesToRest
