SPECIFICATION ObjectSpec
CONSTANTS
  N = 4
  MaxDeals = 1
  self = 1
  InChunks <- MCOneSharing
INVARIANTS
  FirstSharingsReceived
CHECK_DEADLOCK FALSE
