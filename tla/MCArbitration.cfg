CONSTANTS
  Services = {"hi", "mid", "lo"}
  NameRank <- MCNameRank
  Config <- MCConfig
  Policy <- MCPolicy
  Cooldown = 2
  Slowest = 1
  Total = 2
  Start <- MCStart
  Asks <- MCAsks
  Stubborn = {"lo"}
  MaxTroubles = 1
SPECIFICATION Spec
INVARIANTS
  TypeOK
PROPERTIES
  DemandsAreServed
