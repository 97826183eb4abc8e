SPECIFICATION Spec
CONSTANTS
  f1 = f1
  f2 = f2
  p1 = p1
  p2 = p2
  u1 = u1
  u2 = u2
  Nobody = Nobody
  Files <- TwoFiles
  Plugins <- TwoPlugins
  Users <- TwoUsers
  LoadAttempts = 2
  MaxLoaded = 1
  FileBytes = 1
  Budget = 1
  EarlyUnload = FALSE
SYMMETRY Symmetry
CHECK_DEADLOCK FALSE
 
INVARIANT FailureLeavesNothing
INVARIANT BudgetHolds
PROPERTY CancelIsLast
