CONSTANTS
  r1 = r1  r2 = r2  r3 = r3
  k1 = k1  k2 = k2
  Requests = {r1, r2, r3}
  Keys = {k1, k2}
  Outcomes = {"ok", "error"}
  Disconnecting = {r1, r2, r3}
  LookupTimeout = 1
  FollowerMargin = 2
  NoFlight = NoFlight
  NoValue = NoValue
SPECIFICATION FairSpec
INVARIANTS
  TypeOK
  OneLookupPerKey
  TimeoutHasCause
  AllOrNothing
  GaugeAccounts
PROPERTIES
  EveryCallEnds
  ImplementsCoalescing
\* Requests are one-shot: once all are answered nothing is left to do.
CHECK_DEADLOCK FALSE
