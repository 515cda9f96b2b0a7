SPECIFICATION Spec
CONSTANTS
  Key <- TwoKeys
  Value <- SomeValues
  Typed <- SomeTyped
  Description = {"d1", "d2"}
INVARIANTS
  DiffOrdered
  DiffRebuilds
  SensitiveMasked
  NoDiffNothingToPublish
CHECK_DEADLOCK FALSE
