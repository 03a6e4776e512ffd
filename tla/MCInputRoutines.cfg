CONSTANTS
  Routine = {r1, r2}
  ChanBufSize = 1
  MaxRuns = 2
  MaxReads = 2
SPECIFICATION FairSpec
CHECK_DEADLOCK FALSE
INVARIANTS CrashOnlyBeforeEcho OneRun CountsExact
PROPERTIES Restarts
