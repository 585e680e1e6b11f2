SPECIFICATION Spec
CONSTANTS
  a = a
  b = b
  c = c
  Node = {a, b, c}
  Deps <- TwinDeps
  Work <- TwinWork
  Branch <- TwinBranch
  CodeNode = {a, b}
  MaxAttempts = 1
  MaxContinuations = 0
  MaxLaunches = 2
  MaxGrants = 1
INVARIANTS
  OwnAndFresh
  FinishedRunDispatchesNothing
CHECK_DEADLOCK FALSE
