SPECIFICATION Spec
CONSTANTS
  Parts = {"jobs", "collector", "mirror"}
  Jobs = {"cdc", "binance", "orderbook"}
  Delay = 2
  Late = 1
  Minute = 2
  BatchSize = 2
  MaxRetries = 1
  MaxRestarts = 1
  MaxMessages = 3
  MaxFaults = 2
  From = 1
  To = 1
  Margin = 1
  Markets = {a, b}
  NewMarkets = {b}
  Few = {}
  QueueCap = 1
  MaxBackoff = 1
  MaxFrames = 3
  MaxTroubles = 3
  Orders = {o1, o2}
  MaxEvents = 5
  MaxRewinds = 1
INVARIANTS TypeOK NothingSkipped MinuteExact MinuteComplete ReprocessRepairs NoSilentLoss MirrorMatches
PROPERTIES MessagesLand NewMarketHeard
CHECK_DEADLOCK FALSE
