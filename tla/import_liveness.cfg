SPECIFICATION FairSpec
CONSTANTS
  f1 = f1
  f2 = f2
  p1 = p1
  p2 = p2
  u1 = u1
  u2 = u2
  Nobody = Nobody
  Files <- TwoFiles
  Plugins <- OnePlugin
  Users <- OneUser
  LoadAttempts = 2
  MaxLoaded = 2
  FileBytes = 1
  Budget = 1
  EarlyUnload = FALSE
CHECK_DEADLOCK FALSE
PROPERTY ImportEnds
PROPERTY CallsReturn
