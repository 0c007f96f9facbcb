SPECIFICATION FairSpec
CONSTANTS
  None = None
  adam = adam
  t1 = t1
  t2 = t2
  t3 = t3
  Adam = adam
  Tasks = {t1, t2, t3}
  MayFault = {adam, t1}
  MayFail = {t2}
  Hiders = {t1}
  MayFailWin = {adam, t1}
  MaxWork = 3
  MaxEvents = 1
  Early = {t1}
  Callers = {t2}
INVARIANTS
  ToldIsReady
  OwnContext
  OwnFs
PROPERTIES
  ListKept
  FramesGoOn
CHECK_DEADLOCK FALSE
