SPECIFICATION FairSpec
CONSTANTS
  DetectorType = "AHC2M"
  Cycles = {1, 2}
  Bx = {1, 2, 9}
  LastBx = 2
  Layers = 3
  Formats = {"old"}
  MaxLines = 7
  MaxData = 4
INVARIANT Accounted
INVARIANT WholeCrossing
INVARIANT DiscardedWhole
INVARIANT TemperatureOnce
INVARIANT TemperatureComplete
INVARIANT SensorInArray
PROPERTY ImplementsSplitter
CHECK_DEADLOCK FALSE
