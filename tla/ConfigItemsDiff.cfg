SPECIFICATION Spec
CONSTANTS
  Key <- TwoKeys
  Value <- SomeValues
  Typed <- SomeTyped
  Description = {"d1", "d2"}
INVARIANTS
  DiffCanBePublished
CHECK_DEADLOCK FALSE
