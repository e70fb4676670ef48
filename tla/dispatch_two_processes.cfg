\* Two processes that crash and restart, one job to an address and a phone.
SPECIFICATION FairSpec
CONSTANTS
  p1 = p1
  p2 = p2
  j1 = j1
  j2 = j2
  e1 = e1
  s1 = s1
  Recipients <- MCRecipients
  Proc = {p1, p2}
  Job = {j1}
  Target = {e1, s1}
  Email = {e1}
  MaxAttempts = 2
  MaxTries = 1
  Workers = 1
  Faults = {"crash", "database"}
INVARIANTS
  AuditIsTruthful
PROPERTIES
  NoJobLost
