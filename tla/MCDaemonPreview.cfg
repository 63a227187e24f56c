CONSTANTS
  Services = {"hi", "lo"}
  NameRank <- MCNameRank
  r1 = r1
  Rounds = {}
  Clients = {c1}
  Config <- MCReleasable
  Policy <- MCOnDemand
  DryRuns = {FALSE}
  Hanging = {}
  Requests <- MCDryRequests
  Probes <- MCProbes
  Total = 2
  FreeFigures = {0, 1}
  MaxTime = 1
SPECIFICATION Spec
INVARIANTS
  DryRunPlansTheRealThing
