SPECIFICATION FairSpec
CONSTANTS
  Layers = {1, 2}
  Steering <- MCSteering
  InputSets <- MCInputSets
  Addresses = {1, 2, 3}
  MaxEvents = 2
  MaxChanges = 2
INVARIANT NumbersOfTheEntry
INVARIANT CompleteIsFresh
INVARIANT MissingIsReset
INVARIANT NoUseAfterDelete
PROPERTY ClosesOwnFile
PROPERTY ImplementsTreeLog
CHECK_DEADLOCK FALSE
