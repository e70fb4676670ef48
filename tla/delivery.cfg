\* Two processes relay: one ticks and serves two sockets of one user, one of them slow.
\* And three processes elect, with the bounds that MCDelivery gives them: they crash,
\* restart and shut down, and their ticks come late.
SPECIFICATION SumSpec
CONSTANTS
  c1 = c1
  c2 = c2
  c3 = c3
  h1 = h1
  nobody = nobody
  orphan = orphan
  p1 = p1
  p2 = p2
  a1 = a1
  a2 = a2
  b1 = b1
  ann = ann
  guest = guest
  station = station
  train = train
  Process = {p1, p2}
  Socket = {a1, a2, b1}
  Home <- HomeOf
  UserOf <- Users
  Guest = guest
  Slow = {a1}
  Item = {station, train}
  EventOf <- Carriers
  Ticker = p1
  MaxConnections = 2
  MaxPerUser = 1
  Faults = {"leave", "relay", "redis", "restart"}
  MaxNews = 2
  MaxFaults = 1
INVARIANTS
  SettledClientsAreCurrent
  
PROPERTIES
  NotifiedIsSent
  GhostsAreDropped
  ImplementsSingleLeader
CHECK_DEADLOCK FALSE
