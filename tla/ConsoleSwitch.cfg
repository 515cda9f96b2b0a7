SPECIFICATION Spec
CONSTANTS
  App = {shop}
  Code = {prod, test}
  Envs <- AllInOne
  First <- SameFirst
  Job = {j1, j2}
  None = None
  MaxRevision <- FewRevisions
  MaxVersion <- NoReleases
  MaxLeaked = 1
INVARIANTS
  SavesOwnRows
