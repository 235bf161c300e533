\* Two levels; a snapshot lists one of them and so does an emitted row.
CONSTANTS
  NumLevels = 2
  Qty = {1}
  SnapLimit = 1
  TopN = 1
  MaxUpdates = 3
  MaxLost = 1
  MaxRestarts = 1
  QueueCap = 1
SPECIFICATION FairSpec
INVARIANTS TypeOK BookExact RowExact
PROPERTIES ForwardWhileSynced ImplementsMirror CatchesUp
CHECK_DEADLOCK FALSE
