SPECIFICATION StopsCompleteSpec
CONSTANTS
  Copy = {c1, c2, c3}
  NoCopy = NoCopy
  Command = {k1, k2}
  CrashLoopThreshold = 2
  RecordsFail = FALSE
INVARIANT NothingRunsTwice
CHECK_DEADLOCK FALSE
