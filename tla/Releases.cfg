SPECIFICATION Spec
CONSTANTS
  empty = empty
  first = first
  reworded = reworded
  nan = nan
  Env = {prod}
  Req = {r1, r2}
  Items <- TwoItems
  NoItems = empty
  Digest <- TwoDigests
  Unencodable = {}
  MaxVersion = 3
  MaxRevision = 1
SYMMETRY Symmetry
INVARIANTS
  VersionsGapless
  NeighboursDiffer
  EditorSawDraft
  OneSaverPerRevision
  AckedRelease
  LostRaceIsConflict
  SnapshotSound
PROPERTIES
  ReleasesImmutable
  ImplementsHistory
