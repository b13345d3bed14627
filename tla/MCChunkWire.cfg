SPECIFICATION Spec
CONSTANTS
  Base = 16
  IntSize = 2
  HashSize = 2
  N = 4
  K = 2
  Word = 3
  Lengths = {1, 4, 5, 11}
  DealerIds = {0, 1}
INVARIANTS
  DealtChunksAreProven
  RelaysAreTheDealers
  RecoveredBytes
  BuffersFitTheirEncoding
CHECK_DEADLOCK FALSE
