SPECIFICATION FairSpec
CONSTANTS
  Layers = {1, 2}
  Steering <- MCSteering
  InputSets <- MCInputSets
  Addresses = {1, 2, 3}
  MaxEvents = 2
  MaxChanges = 0
INVARIANT RadiusOfTheEvent
CHECK_DEADLOCK FALSE
