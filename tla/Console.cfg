SPECIFICATION FairSpec
CONSTANTS
  App = {a1, a2}
  Code = {prod, test}
  Envs <- AllInOne
  First <- SameFirst
  Job = {j1, j2}
  None = None
  MaxRevision <- RevisionBound
  MaxVersion <- VersionBound
  MaxLeaked = 1
INVARIANTS
  SavesKeepTheirBase
  PolledByOneTimer
PROPERTIES
  Converges
