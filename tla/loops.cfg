\* Retention over hours of two units with a pass that fails anywhere; the other two at
\* the bounds that MCLoops gives them.
SPECIFICATION SumSpec
CONSTANTS
  p1 = p1
  p2 = p2
  a = a
  b = b
  c = c
  d = d
  NoRow = NoRow
  NoControl = NoControl
  Stations = {1, 2}
  Passes = {p1}
  Delays = {0}
  Hour = 2
  RollupAfter = 1
  RawKeep = 2
  HourlyKeep = 3
  Page = 1
  Batch = 1
  PassLimit = 1
  LastTime = 4
  MaxRows = 3
  MaxFailures = 1
INVARIANTS
  TypesOK
  FeedAppliesInOrder
  ControlIsAsAsked
PROPERTIES
  RowsAreAccountedFor
  OldRowsGo
  
  PauseTakesHold
CHECK_DEADLOCK FALSE
