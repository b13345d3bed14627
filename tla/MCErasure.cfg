SPECIFICATION Spec
CONSTANTS
  Word = 3
  Padding = 0
  MaxK = 5
  MaxSize = 40
INVARIANTS
  RoundTrip
  EvenBlocks
CHECK_DEADLOCK FALSE
