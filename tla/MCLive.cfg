SPECIFICATION LiveSpec
CONSTANTS
  Process = {p1, p2, p3}
  NoFile = NoFile
  n1 = n1
  n2 = n2
  Notice <- MCNotice
  Overseer <- MCOverseer
  KeepCount = 1
  NoNotice = NoNotice
  Attempt = {a1, a2}
  NoAttempt = NoAttempt
  MaxPendingAudit = 3
  Typed = 1
  MaxAutoAttempts = 1
  MaxReplies = 1
  TextOf <- MCText
PROPERTIES
  DeadLockIsBroken
  QueuedNoticeEnds
  SubmittingEnds
  PendingSendEnds
CHECK_DEADLOCK FALSE
