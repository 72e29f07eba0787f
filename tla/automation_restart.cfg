SPECIFICATION Spec
CHECK_DEADLOCK FALSE
CONSTANTS
  NONE = NONE
  TORN = TORN
  Threads = {t1}
  Jobs = {scan, live}
  LiveJobs = {live}
  Cooldown = 2
  MaxHistory = 2
  Faults = {"crash", "save"}
  MaxRuns = 3
  MaxTime = 3
  MaxCrashes = 2
INVARIANTS FinalRecordsHaveManifests
PROPERTIES CooldownRespected
