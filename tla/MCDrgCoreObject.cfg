SPECIFICATION ObjectSpec
CONSTANTS
  N = 4
  MaxDeals = 2
  self = 1
  InChunks <- MCInChunks
INVARIANTS
  SharingsAllAlike
  ShareAfterAllSharings
  BeaconFromDistinctOrigins
PROPERTIES
  SharingsAreFinal
  ClosedDealers
CHECK_DEADLOCK FALSE
