SPECIFICATION FairSpec
CONSTANTS
  f1 = f1
  f2 = f2
  Files <- TwoFiles
  Sizes <- One
  MaxBatches <- TwoAndOne
  MaxProgress <- OneAndNone
  WireCap = 1
  FanCap = 1
  SinkCap = 1
CHECK_DEADLOCK FALSE
INVARIANT ReadyIsComplete
PROPERTY FailsForAReason
PROPERTY KeepsOrder
PROPERTY ParseEnds
