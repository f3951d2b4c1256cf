CONSTANTS
  p1 = p1  p2 = p2  p3 = p3
  Projects = {p1, p2, p3}
  MaxFanout = 2
  None = None
SPECIFICATION Spec
INVARIANT NegativeMeansAbsent
\* A lookup returns once.
CHECK_DEADLOCK FALSE
