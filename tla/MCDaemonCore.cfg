CONSTANTS
  Services = {"hi", "lo"}
  NameRank <- MCNameRank
  r1 = r1
  Rounds = {r1}
  Clients = {c1}
  Config <- MCStopped
  Policy <- MCReactive
  DryRuns = {FALSE, TRUE}
  Hanging = {}
  Requests <- MCRequests
  Probes <- MCProbes
  Total = 2
  FreeFigures = {0, 2}
  MaxTime = 2
SPECIFICATION Spec
INVARIANTS
  TypeOK
  StopIsTheLastResort
PROPERTIES
  ImplementsLedger
