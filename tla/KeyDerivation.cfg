SPECIFICATION Spec
CONSTANTS
  HashLens = {32, 64}
  IvLen = 16
  CipherKeyLen <- Aes
  CipherSlice <- Aes
  MacKeyLen <- Hmac
  MacSlice <- Hmac
CHECK_DEADLOCK FALSE
INVARIANTS KeysFit NoBlockTwice
