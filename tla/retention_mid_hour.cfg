\* Two passes fall into the same hour.
SPECIFICATION Spec
CONSTANTS
  p1 = p1
  Stations = {1}
  Passes = {p1}
  Delays = {0}
  Hour = 2
  RollupAfter = 1
  RawKeep = 2
  HourlyKeep = 4
  Page = 1
  Batch = 1
  PassLimit = 1
  LastTime = 4
  MaxRows = 3
  MaxFailures = 0
INVARIANTS
  NothingLost
