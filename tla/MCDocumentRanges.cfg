\* Columns in bytes for an editor that counts UTF-16 units.
SPECIFICATION Spec
CONSTANTS
  InitialTexts <- OpenedTexts
  Insertions <- Typed
  MaxLength = 5
  MaxEdits = 0
  MaxErrors = 2
  MaxMissing = 1
CHECK_DEADLOCK FALSE
INVARIANT RangesAreTheEditors
