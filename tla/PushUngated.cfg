SPECIFICATION Spec
CONSTANTS
  Repos = 1
  Commits = 2
  MaxAttempts = 2
  MovesMidPush = FALSE
  MaxLaunches = 2
  MaxMoves = 1
  MaxGrants = 0
  MaxAsking = 1
INVARIANTS
  PushedWasGated
CHECK_DEADLOCK FALSE
