SPECIFICATION Spec
CONSTANTS
  Process = {p1, p2, p3, p4}
  NoFile = NoFile
INVARIANTS
  ExclusiveUnlessRaced
CHECK_DEADLOCK FALSE
