SPECIFICATION HostSpec
CONSTANTS
  N = 3
  MaxRuns = 2
INVARIANTS
  OneSetupsKeys
  KeysAreWhole
PROPERTIES
  RestartedHasNewest
  ContextsArrive
