SPECIFICATION PlatformSpec
CONSTANTS
  \* Runtime: two web workers, a dedicated scheduler, one sweep, one database session
  OWorkers = {"w", "x"}
  OApi = {}
  ODedicated = {"d"}
  OSweeps = {"i"}
  OLane = 1
  OSessions = {"s"}
  OMaxStarts = 1
  OMaxQueued = 1
  OMaxFaults = 1
  \* Integrity: two episodes and a movie
  NFiles = 3
  EpFiles = {1, 2}
  AuditChunk = 1
  ListLimit = 1
  MaxAlters = 3
  MaxActions = 2
  \* Settings: two processes, two changes
  GProcs = {"p", "q"}
  GMuts = {"m", "n"}
  GMaxRev = 3
  GMaxFails = 1
  GMaxRestarts = 1
  \* Sessions: one process, two users, a token, an API key and a sign-in
  HProcs = {"p"}
  HUsers = {"u", "w"}
  HToks = {"t"}
  HKeys = {"k"}
  HReqs = {"r"}
  HLogins = {"l"}
  HProviders = {"off", "a"}
  HMail = "u"
  HMaxAdmin = 2
  \* Notifications: two callers, two messages, room for one
  ECallers = {"c", "d"}
  EKeys = {"j", "k"}
  EProviders = {"g"}
  EWindow = 2
  EMaxRecent = 1
  ERows = {"r"}
  EMaxClock = 3
  EMaxRev = 1
  \* Webhook: a public and a denied address
  DAddrs = {"p", "l"}
  DDenied = {"l"}
  DAttempts = 2
  DRedirects = 2
  \* RateLimit: two clients and an account, room for two keys
  TClients = {"c", "d"}
  TAccounts = {"a"}
  TMax = 2
  TWindow = 1
  TMaxKeys = 2
  TMaxClock = 4
INVARIANT PlatformTypeOK
PROPERTIES
  ImplementsLease
  UserActionStands
  
  AuditNotices
  
  SessionsEnd
CHECK_DEADLOCK FALSE
