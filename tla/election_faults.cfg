\* Two processes of a host under every fault: outages that end or stay, a Redis that
\* loses the key, crashes, shutdowns and failures of the loop.
SPECIFICATION FairSpec
CONSTANTS
  p1 = p1
  p2 = p2
  p3 = p3
  h1 = h1
  None = None
  Orphan = Orphan
  Proc = {p1, p2}
  Host = {h1}
  HostOf <- OneHost
  RedisEnabled = TRUE
  LockFileUsable = {h1}
  Lease = 2
  Poll = 1
  Late = 0
  BackoffCap = 2
  Faults = {"outage", "heal", "loss", "crash", "shutdown", "worker"}
INVARIANTS
  LeadersHoldLocks
  DualLeadersDisagree
PROPERTIES
  LeaseIsExclusiveLock
  StabilizesToOneLeader
