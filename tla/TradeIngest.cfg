\* Trades can overtake each other by more than the margin.
CONSTANTS
  Margin = 1
  StartupMax = 3
  Reorder = 2
  BatchSize = 1
  MaxBatches = 2
  MaxTime = 5
  MaxFaults = 3
SPECIFICATION FairSpec
INVARIANTS TypeOK EveryTradeAccounted
PROPERTIES OutageCostsStragglersOnly EverythingLands
CHECK_DEADLOCK FALSE
