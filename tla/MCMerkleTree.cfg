SPECIFICATION Spec
CONSTANTS
  Counts = {1, 2, 3, 4, 5, 6, 9, 10, 12, 13, 14, 15, 16, 17, 18}
  MaxAsked = 10
INVARIANTS
  LeafPointersLive
  CleanHashesHold
  PathsAreOfTheLog
  PastIsThePrefix
PROPERTIES
  TreeIsALog
CHECK_DEADLOCK FALSE
