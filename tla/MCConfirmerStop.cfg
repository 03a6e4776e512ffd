CONSTANTS
  Bundle = {b1}
  NoBundle = NoBundle
  Kind = {"promote", "reattach"}
  MaxTasks = 1
  MaxPosts = 3
SPECIFICATION FairSpec
CHECK_DEADLOCK FALSE
PROPERTY StopReturns
