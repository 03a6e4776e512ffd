CONSTANTS
  Bundle = {b1, b2}
  NoBundle = NoBundle
  Kind = {"promocheck", "promote", "reattach"}
  MaxTasks = 2
  MaxPosts = 1
SPECIFICATION Spec
CHECK_DEADLOCK FALSE
INVARIANTS NeverSendsOnClosed TaskStoppedWhenIdle CallbackOnce LeftoversEnd OwnTails
PROPERTIES CallbackOfRunningTask KeepsTaskPromise
SYMMETRY Symmetry
