SPECIFICATION TxFairSpec
CONSTANTS
  empty = empty
  first = first
  r1 = r1
  r2 = r2
  Env = {prod}
  Req = {r1, r2}
  Free = free
  Items <- TwoItems
  NoItems = empty
  Digest <- TwoDigests
  Unencodable = {}
  MaxVersion = 3
  MaxRevision = 2
  Asks <- Workload
INVARIANTS
  Isolated
PROPERTIES
  ImplementsReleases
  RequestsEnd
