SPECIFICATION FairSpec
CHECK_DEADLOCK FALSE
CONSTANTS
  NONE = NONE
  TORN = TORN
  Threads = {t1, t2}
  Jobs = {scan}
  LiveJobs = {}
  Cooldown = 1
  MaxHistory = 1
  Faults = {"manifest", "save", "torn"}
  MaxRuns = 2
  MaxTime = 1
  MaxCrashes = 0
PROPERTIES ReturnedRunsAreSettled
