SPECIFICATION Spec
CONSTANTS
  Reason = {"r1", "r2"}
  Fact = {"f1"}
  MaxReplans = 1
  Base = 2
  MaxCost = 2
  MaxLaunches = 3
  MaxGrants = 2
INVARIANT DoneUnderTheRootsRules
CHECK_DEADLOCK FALSE
