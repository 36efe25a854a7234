SPECIFICATION Spec
CONSTANTS
  c1 = c1
  c2 = c2
  Cells = {c1, c2}
  Kinds = {"pedestal"}
  FilterDeadCells = TRUE
  FilterDefaultCells = FALSE
  PedestalSubtraction = TRUE
  DoTimeConversion = TRUE
  Chips = {1, 2, 3}
  Connections <- MCConnections
  Lists = {{c1}, {c1, c2}}
  MaxEvents = 2
  MaxTold = 1
  LateMapping = FALSE
INVARIANT NoPedestalTrue
CHECK_DEADLOCK FALSE
