CONSTANTS
  t1 = t1  t2 = t2
  Threads = {t1, t2}
  Threshold = 2
  Timeout = 1
  Outcomes = {"success", "failure", "none"}
SPECIFICATION FairSpec
INVARIANTS
  TypeOK
  Consistent
PROPERTIES
  HalfOpenOnlyFromOpen
  Recovers
  Closes
  NeverGivenUp
