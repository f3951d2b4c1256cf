CONSTANTS
  p1 = p1  p2 = p2  p3 = p3
  Projects = {p1, p2, p3}
  MaxFanout = 2
  None = None
SPECIFICATION FairSpec
INVARIANTS
  TypeOK
  FoundIsReturned
PROPERTIES
  Ends
  ImplementsLookup
\* A lookup returns once.
CHECK_DEADLOCK FALSE
