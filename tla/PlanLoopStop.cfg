SPECIFICATION Spec
CONSTANTS
  Slots = 1
  MaxNodes = 3
  MaxReplans = 1
  MaxDepth = 2
  MaxEntries = 2
  MaxIds = 4
  MaxRounds = 1
PROPERTIES
  StopStartsNothing
CHECK_DEADLOCK FALSE
