SPECIFICATION Spec
CONSTANTS
  f1 = f1
  f2 = f2
  p1 = p1
  p2 = p2
  u1 = u1
  u2 = u2
  Nobody = Nobody
  Files <- OneFile
  Plugins <- OnePlugin
  Users <- OneUser
  LoadAttempts = 2
  MaxLoaded = 1
  FileBytes = 1
  Budget = 1
  EarlyUnload = FALSE
CHECK_DEADLOCK FALSE
INVARIANT CancelledIsDiscarded
