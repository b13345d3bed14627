SPECIFICATION ObjectSpec
CONSTANTS
  N = 5
  MaxDeals = 1
  self = 1
  InChunks <- MCOneSharing
INVARIANTS
  EnoughToReconstruct
CHECK_DEADLOCK FALSE
