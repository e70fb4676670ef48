\* Two schedules and every fault of one pass at a time; and one schedule, one attempt and
\* two passes that can overlap and take less than it takes a row to get stuck.
SPECIFICATION SumSpec
CONSTANTS
  s1 = s1
  s2 = s2
  p1 = p1
  p2 = p2
  Schedule = {s1, s2}
  Pass = {p1}
  Plans <- TwoPlans
  Day = 3
  Week = 2
  Retry = 1
  Stuck = 2
  MaxAttempts = 2
  Batch = 2
  MaxPerUser = 2
  PassLimit = 1
  Late = 1
  Requests = {"toggle"}
  Faults = {"crash", "database", "lostAnswer"}
INVARIANTS
  SlotsAreKept
PROPERTIES
  KeepsReporting
  PassesAreApart
