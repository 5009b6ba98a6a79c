CONSTANTS
  None = None
  Plan <- PlanValue
  Unmarked <- UnmarkedValue
  EstimateTotal = FALSE
  BatchSize = 2
  Faults = {"cancel"}
  MaxRuns = 1
SPECIFICATION Spec
CHECK_DEADLOCK FALSE
INVARIANT SkipsOnlyStored
