CONSTANTS
  Services = {"hi", "lo"}
  NameRank <- MCNameRank
  r1 = r1
  Rounds = {r1, r2}
  Clients = {c1}
  Config <- MCAsked
  Policy <- MCReactive
  DryRuns = {FALSE}
  Hanging <- MCFirstRoundHangs
  Requests <- MCEvictOne
  Probes <- MCProbes
  Total = 2
  FreeFigures = {0}
  MaxTime = 2
SPECIFICATION FairSpec
INVARIANTS
  OneActionPerService
  StopIsTheLastResort
PROPERTIES
  LoopHonoursCooldowns
  CooldownsRunTheirTime
  EveryRequestIsAnswered
  SlotsAreReturned
  LoopKeepsPolling
