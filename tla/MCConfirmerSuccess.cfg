CONSTANTS
  Bundle = {b1, b2}
  NoBundle = NoBundle
  Kind = {"promote", "reattach"}
  MaxTasks = 2
  MaxPosts = 3
SPECIFICATION Spec
CHECK_DEADLOCK FALSE
INVARIANT SuccessMeansConfirmed
