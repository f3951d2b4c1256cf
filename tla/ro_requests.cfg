CONSTANTS
  r1 = r1  r2 = r2
  p1 = p1  p2 = p2
  Requests = {r1, r2}
  Paths <- AskedPaths
  References = {"tag", "digest"}
  Lists <- FoundLists
  Projects = {p1, p2}
  Contents <- FirstContents
  Outages = {p1}
  Disconnecting = {r1}
  Limiting = TRUE
  MaxFanout = 1
  MaxChanges = 1
  NoEntry = NoEntry
SPECIFICATION Spec
INVARIANTS
  TypeOK
  RequestsAreCounted
  BlobMissesHaveCause
  TagsAreFound
