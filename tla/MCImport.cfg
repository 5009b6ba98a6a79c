CONSTANTS
  None = None
  Plan <- PlanValue
  Unmarked <- UnmarkedValue
  EstimateTotal = TRUE
  BatchSize = 2
  Faults = {"fail", "cancel", "panic", "stop"}
  MaxRuns = 2
SPECIFICATION FairSpec
CHECK_DEADLOCK FALSE
INVARIANT NothingIsPassedOver
PROPERTY ImportEnds
