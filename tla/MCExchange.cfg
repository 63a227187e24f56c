CONSTANTS
  m1 = m1
  m2 = m2
  Services = {"a", "b"}
  Models <- MCModels
  Configs <- MCConfigs
  Plans <- MCPlans
SPECIFICATION MCSpec
INVARIANTS
  AdaptersTypeOK
  DoneMeansGone
  PartialReleaseIsNotTotal
  ActionsEndInTime
  LateOnlyForSlowServices
  BudgetOutlastsTheWait
PROPERTIES
  WorkIsEndedOnlyByLeave
CHECK_DEADLOCK FALSE
