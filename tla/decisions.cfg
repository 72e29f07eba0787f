\* Two watched symbols with two jobs each, another universe to fall back to, and
\* every hand-made scan of four out of seven setups; six regime contexts, three
\* planner configurations and three drawdowns.
SPECIFICATION DecisionSpec
CONSTANTS
  Watchlist <- MCWatchlist
  Universe <- MCUniverse
  Specs <- MCSpecs
  ScanConfigs <- MCScanConfigs
  Charts <- MCCharts
  NoLabel = Unlabelled
  Unlabelled = Unlabelled
  NoAtr = NoAtr
  NoRegime = NoRegime
  DecisionConfigs <- MCDecisionConfigs
  Regimes <- MCRegimes
  Strengths <- MCStrengths
  Picks <- MCPicks
  PlanConfigs <- MCPlanConfigs
  Drawdowns <- MCDrawdowns
  GivenScans <- MCGivenScans
INVARIANTS BudgetsHold ItemsMatchTotals NothingIsLeftOutForNothing HandoffAgreesWithPlan
CHECK_DEADLOCK FALSE
