CONSTANTS
  MaxOrders = 2
  MaxExecs = 3
  MaxResets = 1
  MaxFaults = 2
SPECIFICATION FairSpec
INVARIANTS TypeOK RowIsOneReport FillsHaveOrders
PROPERTIES RowNeverBack MakersAreCanceled
CHECK_DEADLOCK FALSE
