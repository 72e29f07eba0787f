\* The broker requests as before; two processes over two exchanges, two lists,
\* two refreshes and a crash; polls of two symbols, pieces of three seconds.
SPECIFICATION MCSpec
CONSTANTS
  Requests = {r1, r2, r3}
  Credentials = {KEY, TOKEN}
  KEY = KEY
  TOKEN = TOKEN
  UNKNOWN = UNKNOWN
  Secrets = {v1, v2}
  v1 = v1
  v2 = v2
  r1 = r1
  r2 = r2
  r3 = r3
  EMPTY = EMPTY
  NONE = NONE
  Settings <- AllSettings
  MaxRestarts = 1
  MaxExpiries = 1
  Mappers = {p1, p2}
  Exchanges = {"NSE", "NFO"}
  DefaultExchange = "NSE"
  Contracts <- MCContracts
  NoName = ""
  NanName = "NAN"
  NoFrame = NoFrame
  MaxVersion = 2
  MaxRefreshes = 2
  MaxCrashes = 1
  PollSymbols <- MCPollSymbols
  MdSettings <- MCMdSettings
  RoutePolicies <- MCRoutePolicies
  NoProvider = NoProvider
INVARIANT SecretsStayCurrent
INVARIANT StoredCredentialsAreDurable
INVARIANT DataArrivesWhole
PROPERTY InstrumentsStaySound
CHECK_DEADLOCK FALSE
