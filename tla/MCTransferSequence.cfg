CONSTANTS
  Index0 = 9
  MaxIndex = 12
  MaxLapses = 3
  MaxCrashes = 2
  NoBundle = NoBundle
SPECIFICATION FairSpec
CHECK_DEADLOCK FALSE
INVARIANTS RestartFindsIotas WaitsForIotas DoubleSpendTakesLapse
PROPERTIES Travels
