CONSTANTS
  EventId = {e1, e2, e3, e4}
  SegDuration = 3
  Retention = 4
  Wrap = 64
  MaxBack = 2
  FeedEnd = 9
  MaxSegs = 3
  MaxClock = 9
SPECIFICATION EventSpec
INVARIANTS CountExact IntervalCoversCount
SYMMETRY Symmetry
