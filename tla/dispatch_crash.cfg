\* One process that crashes.
SPECIFICATION Spec
CONSTANTS
  p1 = p1
  p2 = p2
  j1 = j1
  j2 = j2
  e1 = e1
  s1 = s1
  Recipients <- MCRecipients
  Proc = {p1}
  Job = {j1}
  Target = {e1, s1}
  Email = {e1}
  MaxAttempts = 2
  MaxTries = 2
  Workers = 1
  Faults = {"crash"}
INVARIANTS
  NoDuplicateAfterCrash
