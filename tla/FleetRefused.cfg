SPECIFICATION Spec
CONSTANTS
  N = 2
  Parallel = 2
  MaxContinuations = 1
  NodeCap = 2
  Ceiling = 3
  Over = 1
  Reports = {0, 2, 6}
  MaxLaunches = 2
  MaxStray = 1
INVARIANT NoRowMeansNoDispatch
CHECK_DEADLOCK FALSE
