SPECIFICATION SecretSpec
CONSTANTS
  ByteBits = 3
  Orders = {4, 5, 7, 8, 11, 23, 31, 32, 36, 53, 63, 64, 83, 113, 127}
CHECK_DEADLOCK FALSE
INVARIANTS SecretsAreUniform LoopEnds
