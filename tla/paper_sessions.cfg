SPECIFICATION Spec
CHECK_DEADLOCK FALSE
CONSTANTS
  NONE = NONE
  A = A
  B = B
  Symbols = {A, B}
  Feeds <- MCFeeds
  NumBars = 3
  MaxSessions = 2
  InitialCapital = 60
  Den = 10
  CommissionRate = 1
  SlippageRate = 1
  StopLossPct = 2
  TakeProfitPct = 3
  TrailingStopPct = 3
  PositionSizePct = 9
  MaxRiskPerTradePct = 1
  MaxDrawdownPct = 2
  Limits <- TwoLimits
  OverrideQuantity = NONE
  MaxOrdersPerSession = 2
  AllowNewRisk = TRUE
  Modes <- AllModes
INVARIANTS RealizedMatchesPositions QueueAgreesWithPositions
PROPERTIES TradesAreReal ImplementsAccount
