SPECIFICATION Spec
CONSTANTS
  None = None
  Usages <- MCUsages
  Caps = {None}
  Ceilings = {2}
  Deadlines = {None}
  MaxRequests = 2
  MaxEvents = 2
  MaxElapsed = 0
  MaxLaunches = 2
CHECK_DEADLOCK FALSE
INVARIANT
  AsWrittenIsTheNodes
