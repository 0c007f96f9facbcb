SPECIFICATION FairSpec
CONSTANTS
  None = None
  srv = srv
  p1 = p1
  p2 = p2
  j1 = j1
  j2 = j2
  j3 = j3
  Server = srv
  Posters = {p1, p2}
  Jobs = {j1, j2, j3}
  Sends = {"KEY", "KEYPRESS", "MOVE", "TEXT", "EXE"}
INVARIANTS
  KeysOnce
  IdleMeansWaiting
PROPERTIES
  ScanReturns
  WakeDelivers
CHECK_DEADLOCK FALSE
