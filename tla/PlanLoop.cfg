SPECIFICATION LiveSpec
CONSTANTS
  Slots = 2
  MaxNodes = 3
  MaxReplans = 1
  MaxDepth = 3
  MaxEntries = 3
  MaxIds = 4
  MaxRounds = 1
INVARIANTS
  DepsLandFirst
  NothingLeftRunning
  FailuresSurface
  DoneIsWhole
PROPERTIES
  RunEnds
CHECK_DEADLOCK FALSE
