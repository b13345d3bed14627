SPECIFICATION MCSpec
CONSTANTS
  VrfByte = 6
  len = 3
  MaxObjects = 2
  ObjectSizes = {0, 1, 2}
  Debug = TRUE
  Byte = 4
  Block = 12
  CallSizes = {0, 1, 5, 12, 31, 260}
  MaxLength = 320
INVARIANTS
  DealsEndInZeros
  BlocksOfThePaddedMessage
  ReadsBack
  StaleParts
CHECK_DEADLOCK FALSE
