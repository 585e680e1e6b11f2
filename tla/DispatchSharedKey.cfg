SPECIFICATION Spec
CONSTANTS
  a = a
  b = b
  c = c
  Node = {a, b, c}
  Deps <- TwinDeps
  Work <- TwinWork
  Branch <- TwinBranch
  CodeNode = {a, b, c}
  MaxAttempts = 1
  MaxContinuations = 0
  MaxLaunches = 1
  MaxGrants = 0
INVARIANTS
  SharedKeyRunsOnce
CHECK_DEADLOCK FALSE
