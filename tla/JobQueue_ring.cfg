SPECIFICATION FairSpec
CONSTANTS
  Null = Null
  Ctrl = Ctrl
  srv = srv
  p1 = p1
  p2 = p2
  j1 = j1
  j2 = j2
  j3 = j3
  Server = srv
  Posters = {p1, p2}
  Jobs = {j1, j2, j3}
  PostCodes = {"EXE_STR"}
  Scans = TRUE
INVARIANTS
  RingWhole
  NoStaleStore
PROPERTIES
  PostedIsTaken
  ImplementsList
CHECK_DEADLOCK FALSE
