\* Scanner states through saving and returning; the Go scanner against C's.
SPECIFICATION ParitySpec
CONSTANTS
  Inputs <- PiecedInputs
  ValidSets <- ParserSets
  BufferSize = 2
  LeastCapacity = 2
CHECK_DEADLOCK FALSE
INVARIANTS
  TypeOK
  BlocksNest
  BlocksAreTheParsers
  StatesAgree
PROPERTIES
  IndentIsLast
  ParityWithC
