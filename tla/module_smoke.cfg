SPECIFICATION MCSpec
CONSTANTS
  c1 = c1
  c2 = c2
  i1 = i1
  i2 = i2
  a = a
  b = b
  NoCaller = NoCaller
  Plugins = {a, b}
  Callers = {c1, c2, i1, i2}
  Clients = {c1, c2}
  Builtin = {b}
  Zips <- PlainZips
  Installed <- MCInstalled
  Versions = {2}
  MaxSpawns = 2
  MaxOps = 2
  Ids = {1, 2}
  Files = {f, g}
  Levels = {50, 55, 90}
  Codes = {"method_not_found", "plugin_busy"}
  MaxNamed = 2
CHECK_DEADLOCK FALSE
PROPERTY GoodZipInstalls
