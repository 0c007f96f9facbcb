SPECIFICATION FairSpec
CONSTANTS
  None = None
  a = a
  b = b
  top = top
  d = d
  f = f
  g = g
  Tasks = {a, b}
  Top = top
  Dirs = {d}
  Names = {f, g}
  Builtins = {g}
  HasRoot = TRUE
  InitDirs <- HostDir
  InitFiles <- BothFiles
  Ops = {"read", "write", "mkdir", "find", "list"}
  Written = {f}
  MaxFds = 2
  MaxCalls = 3
INVARIANTS
  OneCluster
PROPERTIES
  ReadBack
  CallsReturn
CHECK_DEADLOCK FALSE
