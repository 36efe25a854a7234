SPECIFICATION Spec
CONSTANTS
  e1 = e1
  e2 = e2
  NoElement = NoElement
  NoCell = NoCell
  Garbage = Garbage
  Elements = {e1, e2}
  ChannelsPerChip = 2
  Descriptions <- MCDescriptions
  Connections <- MCConnections
  CellIDs <- MCCellIDs
  ModuleIDs <- MCModuleIDs
  OutOfRange = FALSE
  DeleteElements = TRUE
  MaxVersion = 5
INVARIANT IndicesAgree
INVARIANT OwnedOnce
PROPERTY ImplementsCellMap
CHECK_DEADLOCK FALSE
