SPECIFICATION Spec
CONSTANTS
  Parts = {"backup", "runs", "notifier", "labels", "swap", "onboarding"}
  FullEvery = 2
  KeepFulls = 2
  TaskRetries = 1
  MaxDays = 7
  MaxMishaps = 3
  Coins = {"c1", "c2"}
  MinPassRate = 50
  MaxFetchLoss = 50
  MaxSlips = 2
  Alerts = {"k1", "k2"}
  Reach = 1
  MaxRows = 3
  MaxStops = 4
  Codes = {"m1", "m2"}
  MaxMoves = 3
  MaxBreaks = 2
  Gap = 10
  MaxTrades = 3
  MaxRemoved = 1
  Keys = {"p1"}
  MaxWrites = 5
  MaxAborts = 1
INVARIANTS DayJudged NotifiedOnce LabelsCurrent SwapLosesNothing OnboardedMirrors
PROPERTY PointKept
CHECK_DEADLOCK FALSE
