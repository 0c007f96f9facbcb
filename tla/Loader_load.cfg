SPECIFICATION Spec
CONSTANTS
  None = None
  NumFuns = 2
  Base = 10
  FunLen = 4
  JumpLen = 2
  HeapName = 4
  Outside = 5
  AbsSites = {0, 4}
  ImportSites = {3, 7}
  CliAt = 2
  Clis = {1}
  Early = {2}
  MaxImports = 2
  MaxLate = 3
INVARIANTS
  WalkedOnce
  RelocatedOnce
  CallsReach
CHECK_DEADLOCK FALSE
