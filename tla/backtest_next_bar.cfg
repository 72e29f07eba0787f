SPECIFICATION MCSpec
CHECK_DEADLOCK FALSE
CONSTANTS
  NONE = NONE
  InitialCapital = 30
  Bars <- MCBars
  NumBars = 6
  SessionLast <- Bars2
  EntryBars <- AllBars
  Den = 10
  FeeRate = 1
  SlippageRate = 1
  StopLossPct = 4
  TakeProfitPct = 4
  TrailingStopPct = 2
  MaxDrawdownKillPct = 3
  PositionSizing = "percent_of_equity"
  FixedQuantity = 5
  PositionSizePct = 9
  MaxPositionSizePct = 10
  MaxRiskPerTradePct = 2
  ExecutionMode = "next_bar_open"
  ForceSquareOff = TRUE
  ClosePositionsAtEnd = TRUE
  ModeWords = {"live", "paper", "NoMode"}
  NoMode = "NoMode"
  OrderCalls <- MCOrderCalls
  NoVariety = "NoVariety"
  DefaultVariety = "REGULAR"
  MaxOrders = 2
  MaxEnvChanges = 1
  MaxLogins = 2
  Blank = Blank
  FixedFee = 2
  FeeAndSlippage = 1
  CostUnit = 10
  TradeLogs <- MCTradeLogs
  Capitals = {0, 100}
  FillRequests <- MCFillRequests
INVARIANTS LedgerAndQueueAgree ExitsAreReal CostsAreCounted
PROPERTIES ImplementsAccount NoLookahead OrdersStayUnderControl
