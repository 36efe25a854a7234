SPECIFICATION PedSpec
CONSTANTS
  c1 = c1
  c2 = c2
  Cells = {c1, c2}
  Target = 2
  SkipMinimumEvent = TRUE
  MinPedNumber = 2
  MaxEvents = 5
  MaxObjects = 5
INVARIANT PedestalIsMean
INVARIANT CounterCovers
INVARIANT ListenersHoldTheLast
CHECK_DEADLOCK FALSE
