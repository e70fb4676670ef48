\* The sockets of the run delivery: a send to the slow socket times out.
SPECIFICATION MCSpec
CONSTANTS
  p1 = p1
  p2 = p2
  a1 = a1
  a2 = a2
  b1 = b1
  ann = ann
  guest = guest
  station = station
  train = train
  Process = {p1, p2}
  Socket = {a1, a2, b1}
  Home <- HomeOf
  UserOf <- Users
  Guest = guest
  Slow = {a1}
  Item = {station, train}
  EventOf <- Carriers
  Ticker = p1
  MaxConnections = 2
  MaxPerUser = 1
  Faults = {"leave", "relay", "redis", "restart"}
  MaxNews = 2
  MaxFaults = 1
INVARIANTS
  AnsweredClientsAreServed
CHECK_DEADLOCK FALSE
