SPECIFICATION FairSpec
CONSTANTS
  c1 = c1
  c2 = c2
  Callers <- TwoCallers
  QueueCap = 1
  MaxCalls = 3
CHECK_DEADLOCK FALSE
INVARIANT TableIsExact
PROPERTY KeepsPromise
