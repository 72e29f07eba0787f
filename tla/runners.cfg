CONSTANTS
  p1 = p1
  p2 = p2
  p3 = p3
  NONE = NONE
  TORN = TORN
  Procs = {p1, p2, p3}
  Schedules <- AllSchedules
  MaxSecond = 2
  MaxCrashes = 1
SPECIFICATION Spec
CHECK_DEADLOCK FALSE
INVARIANTS
  LockExcludes
  ReadsWholeBundle
  SuccessHasOwnBundle
  SerialSessionsAccumulate
PROPERTY EveryRunnerEnds
