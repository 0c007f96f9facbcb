SPECIFICATION FairSpec
CONSTANTS
  None = None
  Failed = Failed
  Elsewhere = Elsewhere
  t1 = t1
  t2 = t2
  r1 = r1
  code = code
  x1 = x1
  x2 = x2
  Threads = {t1, t2}
  Regions = {r1}
  InitialSize = 1
  Heaps = {code}
  CodeHeap = code
  Units = 3
  ChunkUnits = 1
  Slots = {x1, x2}
  Requests <- SmallAndOthers
  MaxLive = 3
  Exhausting = TRUE
  MayFault = {t2}
INVARIANTS
  BlocksApart
  WrongOnlyIfMoved
PROPERTIES
  CallsEnd
CHECK_DEADLOCK FALSE
