CONSTANTS
  r1 = r1  r2 = r2
  k1 = k1  k2 = k2
  p1 = p1  p2 = p2
  Requests = {r1, r2}
  Keys = {k1}
  Projects = {p1, p2}
  Disconnecting = {r1}
  Outages = {p2}
  Revalidate = TRUE
  MaxChanges = 1
  LookupTimeout = 0
  FollowerMargin = 1
  NoFlight = NoFlight
  NoValue = NoValue
  NoEntry = NoEntry
SPECIFICATION FairSpec
INVARIANTS
  TypeOK
  ServedWasHeld
  EntriesWereTrue
  SteadyImageIsFound
PROPERTIES
  UsesItsParts
  EveryRequestEnds
\* Requests are one-shot: once all are answered nothing is left to do.
CHECK_DEADLOCK FALSE
