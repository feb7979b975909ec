\* One call of each command, with and without a timeout.
SPECIFICATION FairSpec
CONSTANTS
  Protocol <- MCProtocol
  Commands <- MCCommands
CHECK_DEADLOCK FALSE
INVARIANTS
  TypeOK
  ResultIsFinal
  KilledIsNotFailed
PROPERTY CallEnds
