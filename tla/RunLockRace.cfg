SPECIFICATION Spec
CONSTANTS
  Process = {p1, p2}
  NoFile = NoFile
INVARIANT
  Exclusive
CHECK_DEADLOCK FALSE
