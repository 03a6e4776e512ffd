CONSTANTS
  Hash = {h1, h2}
  Id = {0}
  NoEntry = NoEntry
  VisitMod = 2
  SegDuration = 2
  Retention = 3
  Wrap = 64
  MaxBack = 0
  FeedEnd = 4
  MaxSegs = 3
  MaxClock = 8
SPECIFICATION CacheFairSpec
CHECK_DEADLOCK FALSE
INVARIANTS OnePurgeLoop OneCopy
PROPERTIES KeepsPromise Drains
