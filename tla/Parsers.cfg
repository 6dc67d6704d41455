SPECIFICATION Spec
CONSTANTS
  NaN = NaN
  Nothing = Nothing
  LinesOf <- AllLines
  MaxLines <- Longest
  Pairs = {"stat", "snapshot", "windows"}
  TopN = 2
INVARIANTS NoiseCostsNothing ReadingsKeepTheirDevice  PercentagesAddUp RowsKeepTheirOwn RankingIsTrue
CHECK_DEADLOCK FALSE
