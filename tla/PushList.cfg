SPECIFICATION Spec
CONSTANTS
  Repos = 2
  Commits = 2
  MaxAttempts = 2
  MovesMidPush = FALSE
  MaxLaunches = 3
  MaxMoves = 1
  MaxGrants = 1
  MaxAsking = 1
INVARIANTS
  PushedUnderApproval
  GatedUnlessMoved
  EachPushedOnce
  MayHaveLandedIsTold
  DoneMeansLanded
CHECK_DEADLOCK FALSE
