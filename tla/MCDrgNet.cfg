SPECIFICATION FairSpec
CONSTANTS
  N = 4
  MaxDeals = 1
  Starters = {2}
  Unreliable = {0}
INVARIANTS
  Provenance
  RunningBelowThreshold
  NothingRecovered
  NoChunkStranded
PROPERTIES
  RelayedOnce
  ImplementsGossip
  DealStopsAReplica
CHECK_DEADLOCK FALSE
