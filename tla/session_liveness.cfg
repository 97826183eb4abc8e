SPECIFICATION FairSpec
CONSTANTS
  c1 = c1
  c2 = c2
  f1 = f1
  NoFile = NoFile
  Clients <- TwoClients
  Files <- OneFile
  Ops <- OneClient
  PluginLock = TRUE
CHECK_DEADLOCK FALSE
 
PROPERTY ExitIsNoticed
 
