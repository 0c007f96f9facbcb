SPECIFICATION FairSpec
CONSTANTS
  None = None
  s1 = s1
  c1 = c1
  c2 = c2
  j1 = j1
  j2 = j2
  j3 = j3
  Tasks = {s1, c1, c2}
  Jobs = {j1, j2}
  PopUpTask <- NoPopUp
  Servers = {s1}
  MayFault = FALSE
  Exers = {c1}
  Posters = {}
  AnyScanners = {}
  Waiters = {}
  FlagSets <- PlainFlags
  KernelCodes = {}
  QueCodes = {}
PROPERTIES
  HandlerReturns
CHECK_DEADLOCK FALSE
