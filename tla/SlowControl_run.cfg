SPECIFICATION SlowSpec
CONSTANTS
  Modules = {1, 2}
  Mappings <- MCMappings
  Readings <- MCReadings
  NSensors = 2
  Calibrated <- MCCalibrated
  MaxEvents = 3
  MaxObjects = 3
INVARIANT NothingDangles
INVARIANT ReadingsAlive
INVARIANT LastReadingsSorted
INVARIANT TemperaturesUpToDate
INVARIANT FreshTemperature
INVARIANT EndsForAGap
CHECK_DEADLOCK FALSE
