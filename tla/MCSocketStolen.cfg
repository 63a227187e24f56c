CONSTANTS
  d1 = d1
  d2 = d2
  d3 = d3
  user = user
  system = system
  None = None
  DialsFail = FALSE
  Procs <- MCProcs
  Paths <- MCPaths
  PathOf <- MCPathOf
  Search <- MCSearch
SPECIFICATION Spec
PROPERTIES
  LiveSocketIsNeverRemoved
CHECK_DEADLOCK FALSE
