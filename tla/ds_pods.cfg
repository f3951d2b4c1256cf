CONSTANTS
  x = x  y = y
  hub = hub  quay = quay  other = other
  Pods = {x, y}
  Stopping = {x}
  Names = {hub, quay, other}
  ProxyCache = {hub, quay}
  Safe = {hub, quay, other}
  PageSize = 1
  Registries <- FirstLists
  MaxChanges = 1
  MaxMishaps = 1
  NoList = NoList
SPECIFICATION FairSpec
INVARIANTS
  TypeOK
  RefreshIsComplete
PROPERTIES
  ListsMoveForward
  Converges
  ShutdownCompletes
