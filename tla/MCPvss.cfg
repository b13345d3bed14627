SPECIFICATION Spec
CONSTANTS
  N = 5
  Prime = 7
  SizeMax = 255
  Memory = 16
  Challenge <- MCChallenge
  Setups <- MCSetups
  Firsts = {3}
  Polys <- MCPolys
  Nonces <- MCNonces
  MaxDecs = 3
INVARIANTS
  AggregatesVerify
  OneCommitmentOff
  DecryptionsVerify
  BeaconIsTheSum
CHECK_DEADLOCK FALSE
