CONSTANTS
  Addr <- Addrs
  Bundle = {"pay", "two"}
  Content <- PayAndTwo
  Stray <- Strays
  NoAddr = ""
  NoBundle = NoBundle
  MaxForgets = 1
SPECIFICATION FairSpec
CHECK_DEADLOCK FALSE
INVARIANTS TypeOK PostedIsCurrent VolumeCoversPosted TransfersCountedOnce
PROPERTIES ConfirmedIsPosted
