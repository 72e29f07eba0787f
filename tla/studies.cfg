\* Two days of nine bars: one before the entry windows, five in them (enough for a
\* third entry), one at the end of the session, two from 15:20 on.
\* Two symbols and two windows; three symbols with shares of twelve units; two
\* live sessions of three symbols; three matrix runs, two of which may crash.
SPECIFICATION MCSpec
CONSTANTS
  BarTimes = {555, 600, 640, 680, 800, 840, 900, 920, 925}
  Days = 2
  InitialCapital = 100000
  RiskPct = 1
  DailyDdLimit = 2
  MaxDailyTrades = 2
  MaxConLosses = 2
  CommissionPct = 1
  MinTick = 0
  NoLevel = NoLevel
  DrasBars <- MCDrasBars
  SessionStart = 570
  SessionEnd = 900
  TpPercent = 1
  SlPercent = 1
  TrendBars <- MCTrendBars
  SignalNames <- AllStrategies
  Levels <- MCLevels
  Direction = "both"
  HOLD = HOLD
  BUY = BUY
  SELL = SELL
  EXIT = EXIT
  MinRunCount = 2
  NoStrategy = 0
  RISK_OFF = "risk_off"
  NoPolicy = NoPolicy
  Frames <- MCFrames
  Registry <- MCRegistry
  WfOutcomes <- MCWfOutcomes
  WfRegimes <- MCWfRegimes
  TrainDays = 2
  TestDays = 2
  StepDays = 2
  MinTrainBars = 2
  MinTestBars = 2
  NoResult = NoResult
  PbSymbols = 2
  PbStrategies = {1, 2}
  PbPolicies <- MCPolicies
  PbRegimes = {"bull", "risk_off", "undetected"}
  NONE_DETECTED = "undetected"
  Capital = 12
  Spans <- MCSpans
  Gains <- MCGains
  PbSettings <- MCPbSettings
  MaxPbRuns = 2
  NoFile = NoFile
  Watchlists <- MCWatchlists
  LiveStrategies <- MCRegistry
  LivePolicies <- MCPolicies
  LiveRegimes = {"bull", "risk_off"}
  UNKNOWN = UNKNOWN
  Equity = 100
  LiveConfigs <- MCLiveConfigs
  MaxDrawdown = 20
  MaxOpen = 3
  MaxExposure = 60
  Overrides <- MCOverrides
  SizePct = 90
  MaxSessions = 2
  MxSettings <- MCMxSettings
  MxResult <- MCMxResult
  MxRegimes = {"range", "strong_bull"}
  NoCheckpoint = NoCheckpoint
  TopN = 2
  MaxMxRuns = 3
  MaxMxCrashes = 2
  Grid = 2
  LabMetrics <- MCLabMetrics
  RAISED = RAISED
  Unknown = UNKNOWN
  LabBars = 8
  LabTrain = 3
  LabTest = 2
  LabStep = 2
  RankTop = 1
  LabSpans <- MCLabSpans
  LabGains <- MCLabGains
  LabCapital = 20
  LabSymbols = 2
  TradeLogs <- MCTradeLogs
  Noises <- MCNoises
  MaxSimulations = 2
  DiscoverySettings <- MCDiscoverySettings
  Analyses <- MCAnalyses
  MinTrades = 5
  StablePct = 20
  UnstablePct = 20
  Similarity = 17
  MarketFrames <- MCMarketFrames
  MarketSymbols = 2
  Sectors <- MCSectors
  FastMa = 2
  SlowMa = 4
  VolPeriod = 3
  HighStd = 350
  LowStd = 80
  RangeWidth = 250
  AtrPeriod = 2
  AtrBaseline = 3
  RvWindow = 3
  HighVol = 300
  LowVol = 100
  ExpansionRatio = 12000
  ContractionRatio = 8000
  BreadthMa = 4
  HighLowBars = 5
  AdBars = 5
  Windows <- MCWindows
  WindowWeights <- MCWindowWeights
  VolumeBars = 4
  PressureBars = 4
  ProBars = 9
  ProBaseline = 6
  ProLookback = 7
  RsLookback = 6
  RsTop = 1
  MarketSettings <- MCMarketSettings
  NoFrame = NoFrame
  DayLength = 24
  PreOpen = 4
  MarketOpen = 6
  MarketClose = 16
  HoursDays = 8
  Intervals = {1, 3, 5}
  Schedules <- MCSchedules
  InitialHolidays <- MCInitialHolidays
  MaxHolidays = 3
  NoRun = NoRun
  NoValue = NoValue
  Computed = Computed
  OptionRows <- MCOptionRows
  Spots <- MCSpots
  MaxRows = 3
  SigmaTop = 64
  MaxIterations = 5
  Calm = 64
  LadderSteps <- MCLadderSteps
  Expiries = {4, 9, 12, 15, 23}
  MonthDays = 8
  RollDays = {0, 2, 5}
  RollThresholds = {3, 5, 7}
  LastDay = 24
  NONE = NONE
  rel = rel
  tcs = tcs
  sma = sma
  gap = gap
  Universe <- TwoSymbols
  Strategies = {sma, gap}
  Blocked = {gap}
  Broken <- GapRaises
  Settings <- AllSettings
  Available <- AnyData
  Raising <- AllOrNoPhase
  MaxRuns = 3
  MaxCrashes = 2
INVARIANTS FlatOvernight HeldHasStop
INVARIANTS SignalsFitTogether MatrixIsComplete ResearchIsHonest MarketViewsAgree
INVARIANTS NothingCompletedIsLost
PROPERTIES EntriesRespectDailyLimits ResumeKeepsProgress
CHECK_DEADLOCK FALSE
