SPECIFICATION Spec
CONSTANTS
  N = 1
  Prime = 7
  SizeMax = 255
  Memory = 16
  Challenge <- MCChallenge
  Setups <- MCSetups
  Firsts = {0}
  Polys <- MCPolys
  Nonces <- MCNonces
  MaxDecs = 1
INVARIANTS
  SetupEnds
CHECK_DEADLOCK FALSE
