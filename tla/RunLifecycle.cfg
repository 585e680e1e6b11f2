SPECIFICATION LiveSpec
CONSTANTS
  p = p
  q = q
  t = t
  Proc = {p, q, t}
  Timer = t
  Kinds = {"systemd", "none"}
  MaxLaunches = 2
  MaxDeaths = 1
  Nobody = Nobody
INVARIANTS
  CancelsAreOnRecord
  TornLineStaysLast
PROPERTIES
  CrashedWasLost
  StaleVerbsAside
  RunningEnds
CHECK_DEADLOCK FALSE
