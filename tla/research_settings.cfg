SPECIFICATION Spec
CHECK_DEADLOCK FALSE
CONSTANTS
  NONE = NONE
  rel = rel
  tcs = tcs
  sma = sma
  gap = gap
  Universe <- TwoSymbols
  Strategies = {sma, gap}
  Blocked = {gap}
  Broken <- GapRaises
  Settings <- HashedSettings
  Available <- OneSymbol
  Raising <- NoPhase
  MaxRuns = 3
  MaxCrashes = 2
INVARIANTS ExportsAreCoherent
