SPECIFICATION FairSpec
CONSTANTS
  Variant = "bif2016"
  Bx = {0, 1}
  Chips = {"c1", "c2"}
  InName = "EUDAQDataHCAL"
  OutNames = {"LabviewDataECAL", "LabviewDataHCAL"}
  HodoIn = {"hodoscope1", "hodoscope2"}
  HodoOut = {"hodoscope1", "hodoscope2"}
  BifCollections <- MCBifCollections
  BIF_BINNING = 3
  BIF_offset = 2
  Wide = 32
  Narrow = 16
  MaxCycles = 2
  MaxDepth = 3
INVARIANT NeverBoth
INVARIANT TriggersInTheirCrossing
PROPERTY CountedOnce
PROPERTY EveryEventEnds
PROPERTY ImplementsSplitter
CHECK_DEADLOCK FALSE
