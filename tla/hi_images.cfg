CONSTANTS
  a = a  b = b  c = c  p = p
  t1 = t1  t2 = t2
  Threads = {t1, t2}
  Images = {a, b, c}
  Requested <- AskedFor
  Cached = {a}
  Shards <- ShardOrder
  Projects = {p}
  MaxTracked = 1
  Batch = 1
  MinRequests = 2
  TopN = 1
  MaxCount = 3
  NoEntry = NoEntry
SPECIFICATION FairSpec
INVARIANTS
  TypeOK
  TrackedWithinLimit
PROPERTIES
  HotImagesArePersisted
  WarmUpStops
