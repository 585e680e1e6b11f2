SPECIFICATION Spec
CONSTANTS
  None = None
  Usages <- MCUsages
  Caps = {3}
  Ceilings = {2}
  Deadlines = {0}
  MaxRequests = 4
  MaxEvents = 2
  MaxElapsed = 1
  MaxLaunches = 2
CHECK_DEADLOCK FALSE
INVARIANTS
  StoppedIsNotDone
  GraceIsPerRequest
  ArmedForCause
