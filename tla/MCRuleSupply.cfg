SPECIFICATION Spec
CONSTANTS
  Asker = {a1, a2}
  NoBlock = NoBlock
  MaxRetryCount = 1
  MaxRedirects = 1
  Statuses = {200, 404, 503}
  s1 = s1
  s2 = s2
  Source = {s1, s2}
  HttpSource = {s2}
  Configurations <- MCConfigurations
  Update = {u1, u2}
  Free = Free
  MaxVersion = 2
  MaxBlocks = 2
  MaxRequests = 3
  Label = {"x", "y", "z"}
  a = a
  A = A
  b = b
  junk = junk
  Text = {a, A, b, junk}
  NoText = NoText
  NormalForm <- MCNormalForm
  ValidText = {a, b}
  Localhost = {b}
  DayLength = 3
  Schedules <- MCSchedules
  Intervals = {0, 2}
  Jitter = 1
  MinimumInterval = 2
  NoTime = NoTime
  MaxTime = 4
  HistoryLimit = 2
  MaxCalls = 3
  Identifier = {"site", "default", "extra"}
  ClientIdentifiers = {"site"}
  SerialNumber = "site"
  DefaultIdentifier = "default"
  LocalIdentifier = {}
  Sites <- MCSites
  Condition = {"vpn"}
  w1 = w1
  w2 = w2
  Worker = {w1, w2}
  NoManifest = NoManifest
  MaxAttempts = 1
  MaxTimers = 1
  MaxEvents = 1
  CacheKey = {k1, k2}
  FileSizes = {1, 2}
  MaxCacheSize = 3
  SizeLimit = 16
  NoEntry = NoEntry
  MaxStores = 2
  MaxCacheCalls = 3
  MaxCrashes = 1
  Paths <- MCPaths
  Waiter = {w1}
  MaxNotices = 1
  MaxStarts = 1
  Dictionaries <- MCDictionaries
  SourceLists <- MCSourceLists
  Settings = {"builtIn", "site"}
  DefaultSettings = "builtIn"
  MaxConfigurations = 2
  MaxLoads = 2
  MaxRestarts = 1
  Command = {1, 2}
  NoCommand = NoCommand
  MaxProcessed = 1
  KeptProcessed = 1
  MaxCommandStarts = 2
  MaxFileEvents = 1
INVARIANTS
  TypeOK
  AnsweredOnce
  
  
  MergesKeepTheBest
  IndexesFindTheSame
  
  AppliedOnce
  MissingCostsItself
  CachesAgree
  ToldTheLatest
  CommandsOnce
PROPERTIES
  NoRollback
  
  
CHECK_DEADLOCK FALSE
