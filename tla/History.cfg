CONSTANTS
  Tiers <- Cascade
  Values = {0, 1}
  Start = 8
  Horizon = 17
  MaxPerSecond = 2
  MaxSamples = 4
  Budgets = {1, 2}
SPECIFICATION Spec
INVARIANTS PointsAreTrue NothingLost SpikesSurvive
CHECK_DEADLOCK FALSE
