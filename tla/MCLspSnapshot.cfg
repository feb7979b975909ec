\* A check is given a text that is not the client's.
SPECIFICATION HistorySpec
CONSTANTS
  Uris = {u1, u2}
  NoUri = none
  MaxEdits = 3
  MaxVersion = 2
CHECK_DEADLOCK FALSE
INVARIANT SnapshotIsTheClients
