CONSTANTS
  a = a
  bull = bull
  bear = bear
  NONE = NONE
  REGIME_CHANGE = REGIME_CHANGE
  Pairs = {a}
  Scans <- AllScans
  Regimes = {bull, bear}
  MonitorWindow = 2
  DispatchWindow = 1
  MaxHistory = 2
  MaxCycles = 2
  Settings <- AllSettings
  MaxRuns = 2
  MaxStops = 1
  MaxTime = 2
  sender = sender
  page = page
  client = client
  Callers = {sender, page, client}
  NtSettings <- MCNtSettings
  DefaultPreferences <- MCDefaultPreferences
  Masked = Masked
  Numbers = {number}
  number = number
  Addresses = {me, you}
  me = me
  you = you
  chat = chat
  NoPreferences = NoPreferences
  Torn = Torn
  NoPrefsFile = NoPrefsFile
  MaxProcessRestarts = 1
SYMMETRY Swaps
SPECIFICATION MCSpec
CHECK_DEADLOCK FALSE
INVARIANTS
  ReturnedEngineIsStopped
  StopIsPrompt
  HistoryKeepsEveryCycle
  FileHasEachAlertOnce
  NotificationsFitTogether
