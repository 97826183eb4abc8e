SPECIFICATION ServerSpec
CONSTANTS
  j1 = j1
  j2 = j2
  c1 = c1
  NoJob = NoJob
  Jobs = {j1, j2}
  Clients = {c1}
  Paths = 2
  MaxConcurrent = 1
  MaxLoaded = 1
  Quota = 1
  Plugin = Plugin
  File = File
  Filters = {{Plugin, File}, {File}}
  HostCap = 1
  HubCap = 1
  QueueCap = 1
  MaxHost = 2
  MaxPipeline = 1
CHECK_DEADLOCK FALSE
INVARIANT CancelStopsSoon
INVARIANT CopiesAreOwned
INVARIANT LimitsHold
PROPERTY FinalIsFinal
PROPERTY HubPromise
PROPERTY JobEnds
