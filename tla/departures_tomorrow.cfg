\* The instance of the run services: the last trains of the last weekday have left.
SPECIFICATION SumSpec
CONSTANTS
  u1 = u1
  u2 = u2
  a1 = a1
  p1 = p1
  p2 = p2
  r1 = r1
  r2 = r2
  r3 = r3
  j1 = j1
  j2 = j2
  mail = mail
  phone = phone
  t1 = t1
  t2 = t2
  t3 = t3
  s1 = s1
  s2 = s2
  s3 = s3
  c1 = c1
  c2 = c2
  None = None
  Gone = Gone
  Missing = Missing
  All = All
  Everyone = Everyone
  NotLoaded = NotLoaded
  Nobody = Nobody
  NoAlert = NoAlert
  Recipients <- For
  Proc = {p1}
  Job = {j1, j2}
  Target = {mail, phone}
  Email = {mail}
  MaxAttempts = 2
  MaxTries = 2
  Workers = 2
  Faults = {"crash", "database", "lostAnswer"}
INVARIANTS
  TomorrowsAreTomorrows
CHECK_DEADLOCK FALSE
