\* A result of an older version is kept.
SPECIFICATION Spec
CONSTANTS
  Uris = {u1}
  NoUri = none
  MaxEdits = 2
  MaxVersion = 3
CHECK_DEADLOCK FALSE
INVARIANT NoStaleResultKept
