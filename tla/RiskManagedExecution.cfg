SPECIFICATION Spec
CONSTANTS
  MaxPrice = 3
  MaxQuantity = 3
  max_absolute_position = 3
  MaxPnl = 3
  window_size = 2
  Symbols = {s1}
  WithAnalytics = TRUE
  MaxTraded = 4
INVARIANTS
  PositionWithinLimit
  PositionsMatchTrades
  AverageAmongEntries
  PnlMatchesCash
  AnalyticsAgree
