SPECIFICATION FairSpec
CONSTANTS
  None = None
  s1 = s1
  c1 = c1
  c2 = c2
  j1 = j1
  j2 = j2
  j3 = j3
  Tasks = {s1, c1, c2}
  Jobs = {j1, j2}
  PopUpTask <- NoPopUp
  Servers = {s1}
  MayFault = FALSE
  Exers = {}
  Posters = {c1, c2}
  AnyScanners = {}
  Waiters = {c2}
  FlagSets <- PlainFlags
  KernelCodes = {"EXE_STR"}
  QueCodes = {"SPAWN_TASK"}
INVARIANTS
  NoOrphanLock
  HandleLive
PROPERTIES
  HandlerReturns
  JobsFinish
  TaskWaitReturns
