SPECIFICATION Spec
CONSTANTS
  c1 = c1
  c2 = c2
  Cells = {c1, c2}
  Kinds = {"gain", "pedestal", "saturation", "cellQuality"}
  FilterDeadCells = TRUE
  FilterDefaultCells = TRUE
  PedestalSubtraction = FALSE
  DoTimeConversion = TRUE
  Chips = {1, 2, 3}
  Connections <- MCConnections
  Lists = {{c1}, {c1, c2}}
  MaxEvents = 2
  MaxTold = 2
  LateMapping = TRUE
INVARIANT CalibrationsExact
INVARIANT DefaultsFlagged
INVARIANT OutputAsTold
INVARIANT DeadFlagged
INVARIANT MissingPedestalFlagged
INVARIANT PositionsExact
INVARIANT EndsForAGap
CHECK_DEADLOCK FALSE
