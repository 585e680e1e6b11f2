SPECIFICATION Spec
CONSTANTS
  p = p
  q = q
  t = t
  Proc = {p, q, t}
  Timer = t
  Kinds = {"systemd"}
  MaxLaunches = 1
  MaxDeaths = 0
  Nobody = Nobody
INVARIANT FreshSweepIsNoOp
CHECK_DEADLOCK FALSE
