SPECIFICATION Spec
CONSTANTS
  Samples <- MCSamples
  AnyLength = {0, 1, 3, 11, 32, 70, 1000000}
  Extra = 2
CHECK_DEADLOCK FALSE
INVARIANTS PanicsOnlyAtKexFollow WrittenIsRead NothingElseIsRead
