\* Chains of two rows: one call and one put are enough.
SPECIFICATION DvSpec
CHECK_DEADLOCK FALSE
CONSTANTS
  NoValue = NoValue
  Computed = Computed
  OptionRows <- MCOptionRows
  Spots <- MCSpots
  MaxRows = 2
  SigmaTop = 64
  MaxIterations = 5
  Calm = 64
  LadderSteps <- MCLadderSteps
  Expiries = {4}
  MonthDays = 8
  RollDays = {2}
  RollThresholds = {5}
  LastDay = 5
INVARIANTS MaxPainHurtsBuyersMost
