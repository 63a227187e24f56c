CONSTANTS
  Services = {"hi", "lo"}
  NameRank <- MCNameRank
  r1 = r1
  Rounds = {}
  Clients = {c1, c2}
  Config <- MCEquals
  Policy <- MCOnDemand
  DryRuns = {FALSE}
  Hanging = {}
  Requests <- MCQueueing
  Probes <- MCProbes
  Total = 2
  FreeFigures = {0, 1}
  MaxTime = 3
SPECIFICATION Spec
INVARIANTS
  TargetMetIsRightForTheWinner
PROPERTIES
  NobodyJumpsTheQueue
