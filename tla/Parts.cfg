SPECIFICATION PartsSpec
CONSTANTS
  NoEvent = NoEvent
  p1 = p1
  p2 = p2
  p3 = p3
  Polls <- MCPolls
  MaxEvents = 3
  MaxOwing = 2
  Runs = {"r1", "r2"}
  Prewarms = {}
  MaxConns = 5
  ClientSdks = {"python", "js"}
  MaxRuns = 2
  MaxRecords = 2
  MaxCaeJobs = 2
  Kernels = {"dc", "heat", "transient"}
  MaxSimRuns = 2
  Requests <- MCRequests
  MaxGpuCalls = 3
  MaxGpuCancels = 1
  Tabs = {"t1", "t2", "t3"}
  GraceHashes = 2
  MaxTokens = 4
  MaxExpiries = 1
  HttpRequests = {"q1", "q2"}
  ControlSockets = {"s1"}
  Keys = {"k1"}
  RateLimit <- MCRateLimit
  Minute = 2
  MaxClock = 3
  Texts <- MCTexts
  MaxChunk = 3
INVARIANTS
  PartsTypeOK
  NoLostWakeUp
  InputSentOnce
  RecordReachedMaster
  OneLiveRun
  RefusalIsDeserved
  LlmIsAlone
  NoFalseReuse
  BrowserHasNewestToken
  RateIsLimited
  StreamIsAnswer
PROPERTIES
  AnswerEndsPoll
  RunCleansUp
  EveryRunEnds
  RunIsCleaned
  LauncherLosesKey
CHECK_DEADLOCK FALSE
