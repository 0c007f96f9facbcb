SPECIFICATION FairSpec
CONSTANTS
  None = None
  srv = srv
  c1 = c1
  s1 = s1
  f1 = f1
  f2 = f2
  j1 = j1
  j2 = j2
  j3 = j3
  Srv = srv
  Callers = {c1}
  Senders = {s1}
  Filters = {f1, f2}
  Jobs = {j1, j2, j3}
  Highest = {j2}
  Reads = {j2}
  Exits = {j1}
  Msgs = {j3}
  SrvIdle = TRUE
  Early = {c1, f1}
INVARIANTS
  RunsInOrder
PROPERTIES
  WaitingFilterRuns
CHECK_DEADLOCK FALSE
