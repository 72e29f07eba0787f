SPECIFICATION Spec
CHECK_DEADLOCK FALSE
CONSTANTS
  NONE = NONE
  TORN = TORN
  Threads = {t1, t2}
  Jobs = {scan, live}
  LiveJobs = {live}
  Cooldown = 2
  MaxHistory = 3
  Faults = {}
  MaxRuns = 2
  MaxTime = 2
  MaxCrashes = 0
INVARIANTS NoDuplicateRuns
