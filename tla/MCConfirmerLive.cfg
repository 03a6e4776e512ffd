CONSTANTS
  Bundle = {b1}
  NoBundle = NoBundle
  Kind = {"promocheck", "promote", "reattach"}
  MaxTasks = 1
  MaxPosts = 2
SPECIFICATION FairSpec
CHECK_DEADLOCK FALSE
PROPERTIES RoutinesEnd ConfirmationRead
