\* The ring wraps, the chain of timers ends and resumes.
CONSTANTS
  RING = 4
  LOOKBACK = 2
  CHAIN = 2
  Prices = {1, 2}
  MaxMinute = 5
  MaxTrades = 3
SPECIFICATION FairSpec
INVARIANTS TypeOK VerdictExact
PROPERTIES JudgedOnce SilenceIsJudged
CHECK_DEADLOCK FALSE
