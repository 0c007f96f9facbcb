SPECIFICATION Spec
CONSTANTS
  None = None
  s1 = s1
  c1 = c1
  c2 = c2
  j1 = j1
  j2 = j2
  j3 = j3
  Tasks = {s1, c1, c2}
  Jobs = {j1, j2}
  PopUpTask <- NoPopUp
  Servers = {s1}
  MayFault = TRUE
  Exers = {c1}
  Posters = {c2}
  AnyScanners = {s1, c1}
  Waiters = {c2}
  FlagSets <- AllFlags
  KernelCodes = {"EXE_STR", "MSG"}
  QueCodes = {}
INVARIANTS
  TypeOK
  LockExclusive
  JobInOnePlace
  DoneIsCollectable
  ReplyStillOwned
  NoJobOnDead
  WaitSeesStarted
PROPERTIES
  ImplementsService
SYMMETRY JobSymmetry
CHECK_DEADLOCK FALSE
