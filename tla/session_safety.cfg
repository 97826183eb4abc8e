SPECIFICATION Spec
CONSTANTS
  c1 = c1
  c2 = c2
  f1 = f1
  NoFile = NoFile
  Clients <- TwoClients
  Files <- OneFile
  Ops <- ImportAndUnload
  PluginLock = TRUE
CHECK_DEADLOCK FALSE
INVARIANT ReportedOnce
INVARIANT ExitEndsTheSession
INVARIANT AbsorbingHasNoProcess
INVARIANT BusyIsOwned
INVARIANT InFlightIsBusy
