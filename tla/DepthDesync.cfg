\* A documented claim the code does not keep.
CONSTANTS
  NumLevels = 2
  Qty = {1}
  SnapLimit = 1
  TopN = 1
  MaxUpdates = 3
  MaxLost = 1
  MaxRestarts = 1
  QueueCap = 2
SPECIFICATION Spec
PROPERTY SnapshotEndsDesync
CHECK_DEADLOCK FALSE
