CONSTANTS
  None = none
  Ids = {x, y}
  Linked = {y}
  MaxOps = 3
  MaxEdits = 2
  MaxFaults = 1
  MaxTabs = 2
  MaxClicks = 3
  MaxSpawns = 2
  MaxBreaks = 1
  MaxAttempts = 2
  MaxSockets = 3
  MaxChecks = 2
  MaxDownloads = 2
  MaxReads = 1
  RequestIds = {1, 2}
  MaxPort = 2
  MaxVersion = 1
  MaxChanges = 1
  MaxParts = 4
  MaxTurns = 4
  MaxSessions = 1
  MaxCalls = 4
  MaxResumes = 1
  MaxRestarts = 1
  MaxFrames = 2
  Newer = newer
  MaxProviders = 1
  MaxModels = 1
  MaxAsked = 2
  MaxLoads = 2
  MaxAside = 1
  Routes = {r}
  Harnesses = {h}
  Commands = {c1, c2}
  MaxRuns = 2
  MaxAgents = 2
  MaxTurmoil = 1
  MaxIngests = 2
  MaxSends = 2
  MaxSwitches = 1
  MaxLosses = 1
  Sources = {s1, s2}
  Silent = {s1}
  MaxDrafts = 3
  MaxProbes = 3
  MaxListings = 2
  Sessions = {a}
  MaxToasts = 2
  MaxEpisodes = 2
  MaxReplays = 1
  MaxOthers = 1
  MaxWindows = 2
  MaxMoves = 2
  MaxSaves = 1
  MaxFocusTurns = 2
  MaxTrips = 1
  MaxStarted = 1
  MaxEntries = 2
  MaxLaunches = 3
  MaxWorks = 1
  MaxDeaths = 1
  MaxResets = 1
  Git = {x}
  MaxInstalls = 2
  MaxPlaced = 1
  MaxFailures = 1
SPECIFICATION MCSpec
CONSTRAINT WhileFollowed
INVARIANTS
  DesktopTypesOK
  ExtensionsAreSound
  WindowAgrees
  NothingIsStuck
  ProxyIsFaithful
  RecordsAreSound
CHECK_DEADLOCK FALSE
