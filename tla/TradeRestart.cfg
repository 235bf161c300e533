\* A documented claim the code does not keep.
CONSTANTS
  Margin = 1
  StartupMax = 3
  Reorder = 1
  BatchSize = 1
  MaxBatches = 2
  MaxTime = 4
  MaxFaults = 2
SPECIFICATION Spec
PROPERTY CleanRestartLosesNothing
CHECK_DEADLOCK FALSE
