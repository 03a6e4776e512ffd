CONSTANTS
  Reader = {0, 1}
  Throttled = {1}
  Hash <- Hashes
  Feed <- AllTopics
  NoEntry = NoEntry
  VisitMod = 8
  SegDuration = 1
  Retention = 2
  TxQuorum = 2
  SnQuorum = 2
  LmiQuorum = 1
  LmhsQuorum = 2
  LmhsInterval = 2
  QuorumUpdates = {1}
  ChanBufSize = 1
  MaxFeed = 6
  MaxClock = 2
SPECIFICATION Spec
CHECK_DEADLOCK FALSE
INVARIANTS EachExactlyOnce ReleasesApart
INVARIANTS MilestoneNeedsTwo LmiIncreasing
PROPERTIES SnNotObsolete
