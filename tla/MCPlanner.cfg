CONSTANTS
  Services = {"a", "b", "c"}
  NameRank <- MCNameRank
  Conditions <- MCConditions
  Rankings <- MCRankings
  Demands <- MCDemands
  Devices <- MCDevices
  Stranger = "nobody"
SPECIFICATION Spec
INVARIANTS
  PlanIsTheWalk
  LowestPriorityPaysFirst
  NothingIsSilent
  NoPingPong
  OverrideWaivesPriorityOnly
CHECK_DEADLOCK FALSE
