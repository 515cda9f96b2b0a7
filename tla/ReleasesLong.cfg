SPECIFICATION Spec
CONSTANTS
  empty = empty
  first = first
  reworded = reworded
  nan = nan
  Env = {prod}
  Req = {r1}
  Items <- FourItems
  NoItems = empty
  Digest <- FourDigests
  Unencodable = {nan}
  MaxVersion = 4
  MaxRevision = 3
INVARIANTS
  TypeOK
  RollbackFaithful
  AuditComplete
