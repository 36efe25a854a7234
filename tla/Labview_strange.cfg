SPECIFICATION FairSpec
CONSTANTS
  DetectorType = "AHC2M"
  Cycles = {1, 2}
  Bx = {1, 9}
  LastBx = 2
  Layers = 3
  Formats = {}
  MaxLines = 4
  MaxData = 4
INVARIANT StrangeDiscarded
CHECK_DEADLOCK FALSE
