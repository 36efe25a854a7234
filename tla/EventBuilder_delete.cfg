SPECIFICATION FairSpec
CONSTANTS
  Variant = "hodo2016"
  Bx = {0, 1, 2}
  Chips = {"c1"}
  InName = "EUDAQDataHCAL"
  OutNames = {"LabviewDataECAL", "LabviewDataHCAL"}
  HodoIn = {"hodoscope1", "hodoscope2"}
  HodoOut = {"hodoscope1", "hodoscope2"}
  BifCollections = {}
  BIF_BINNING = 1
  BIF_offset = 0
  Wide = 32
  Narrow = 16
  MaxCycles = 2
  MaxDepth = 3
INVARIANT NoDangling
CHECK_DEADLOCK FALSE
