\* A documented claim the code does not keep.
CONSTANTS
  MaxOrders = 3
  MaxExecs = 4
  MaxResets = 1
  MaxFaults = 0
SPECIFICATION Spec
PROPERTY OnlyOldGenerationDeleted
CHECK_DEADLOCK FALSE
