SPECIFICATION PartsSpec
CONSTANTS
  w1 = w1
  w2 = w2
  w3 = w3
  i1 = i1
  i2 = i2
  cA = cA
  Windows = {w1, w2}
  Ids = {i1, i2}
  Classes = {cA}
  SeqIds = {"q1"}
  NoWindow = NoWindow
  NoId = NoId
  NoClass = NoClass
  NoSeq = NoSeq
  Attr <- MCAttr
  WmClass <- MCWmClass
  DesktopNames <- MCDesktopNames
  Prefix <- MCPrefix
  SeqApp <- MCSeqApp
  Files <- MCFiles
  NumApps = 6
  MaxEdits = 2
  FolderDirs = 2
  FolderNames = {"n1"}
  MaxChanges = 2
  MaxTasks = 2
  UsageApps = {"a1", "a2"}
  Nobody = Nobody
  FocusMin = 1
  IdleTransition = 1
  ScoreMax = 1
  Week = 1
  MaxClock = 2
  MaxEvents = 2
  v1 = v1
  v2 = v2
  AppWindows = {v1, v2}
  AppAttr <- MCAppAttr
  NoBus = NoBus
  NoWin = NoWin
  AppFile <- MCAppFile
  Spaces = {1, 2}
  MaxTime = 1
  MaxRequests = 2
  MuxerPrefixes <- MCMuxerPrefixes
  GroupNames = {"g", "h"}
  ActionNames = {"a"}
  Observers = {"o"}
  MaxWatchers = 2
  MaxMuxerOps = 4
  AuthRequests = {"q", "r", "s"}
  MaxLocks = 1
  RequestIds = {"c", "v"}
  VpnIds = {"v"}
  AlwaysAsk = {}
  MaxAgentRequests = 2
  MaxStores = 2
  Passwords <- MCPasswords
  Paranoid = FALSE
  MaxPrompts = 3
  Callers = {a}
  Wayland = FALSE
  MaxCalls = 2
  UiWayland = FALSE
  MaxAsked = 2
  Alphas = {0, 1, 2, 200}
  Span = 2
  CalSources = {"s"}
  Events = {"e"}
  EventTimes <- MCEventTimes
  Ranges <- MCRanges
  MaxCalOps = 4
  CameraNodes = {1, 2}
  MaxCameraEvents = 6
  SniffUris = {"m", "f"}
  Entries <- MCEntries
  BatchSize = 2
  Invocations = {1, 2}
  MaxSaves = 3
  LeisureFunctions = {"f", "g"}
  MaxWork = 1
INVARIANTS
  ApplicationsAgree
  WatchersAgree
  AskersAreAnswered
  ScreenshotsCleanUp
  PixelsAreKept
  NoEventIsMissed
PROPERTIES
  CacheImplementsMirror
  CacheSettles
CHECK_DEADLOCK FALSE
