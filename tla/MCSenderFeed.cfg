CONSTANTS
  a = a
  b = b
  c = c
  Source = {a, b, c}
  MaxUpdates = 4
  UpdateTs <- MCUpdateTs
  Confirms <- MCConfirms
  NoUpdate = NoUpdate
SPECIFICATION FairSpec
CHECK_DEADLOCK FALSE
INVARIANTS Conserved CountedOnce
PROPERTIES Settles
