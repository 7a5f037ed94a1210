SPECIFICATION ServicesSpec
CONSTANTS
  MaxRecord = 3
  MaxSeq = 2
  Process = {p1, p2, p3}
  NoFile = NoFile
  n1 = n1
  n2 = n2
  Notice <- MCNotice
  Overseer <- MCOverseer
  KeepCount = 2
  NoNotice = NoNotice
  Attempt = {a1, a2}
  NoAttempt = NoAttempt
  MaxPendingAudit = 3
  Typed = 1
  MaxAutoAttempts = 1
  MaxReplies = 1
  TextOf <- MCText
  Fetch = {f1, f2, f3}
  NoFetch = NoFetch
  MaxVersion = 1
  Copy = {c1, c2}
  NoCopy = NoCopy
  Command = {k1}
  CrashLoopThreshold = 2
  RecordsFail = TRUE
  Code = {env, import}
  NoCode = NoCode
  MaxLaunch = 2
  BootOverruns = FALSE
  NoCaller = NoCaller
INVARIANTS
  ServicesTypeOK
  ObligationNeverStranded
  StaleBreakingExcludes
  LossIsReported
  ProviderHoldsOne
  AuditIsComplete
  InflightIsMarked
  CallerSeesWrites
  RunningIsAccounted
  NeverStranded
  RemoteIsNotForgotten
  LatestIntentWins
  LiveChildIsHeld
PROPERTIES
  ImplementsReadYourWrites
  SupersededIsInert
  RetiredIsNeverSent
  NoticesAreKept
  TextIsTaken
  ClearsKeepLaterChanges
CHECK_DEADLOCK FALSE
