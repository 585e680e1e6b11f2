SPECIFICATION Spec
CONSTANTS
  a = a
  b = b
  c = c
  Node = {a, b, c}
  Deps <- TwinDeps
  Work <- TwinWork
  Branch <- TwinBranch
  CodeNode = {c}
  MaxAttempts = 1
  MaxContinuations = 0
  MaxLaunches = 2
  MaxGrants = 0
INVARIANTS
  FinishedIsReplayed
CHECK_DEADLOCK FALSE
