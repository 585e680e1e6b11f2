SPECIFICATION FairSpec
CONSTANTS
  a = a
  b = b
  c = c
  Node = {a, b}
  Deps <- PairDeps
  Work <- OwnWork
  Branch <- PairBranch
  CodeNode = {a}
  MaxAttempts = 2
  MaxContinuations = 1
  MaxLaunches = 3
  MaxGrants = 1
INVARIANTS
  RedispatchNeedsRelaunch
  GrantIsHonoured
  RepeatsAreEarned
PROPERTIES
  ImplementsResultOnce
  LaunchEnds
CHECK_DEADLOCK FALSE
