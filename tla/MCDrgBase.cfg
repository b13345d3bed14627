SPECIFICATION Spec
CONSTANTS
  N = 3
  MaxArrivals = 2
  Addr = {a1, a2, a3, a4}
INVARIANTS
  InitBeforeChunks
  DealTargetsArePeers
  ChunksFromConfigured
CHECK_DEADLOCK FALSE
