SPECIFICATION Spec
CONSTANTS
  Kind = "Traditional"
  MacLen = 32
  Lengths <- Limits
  WordMod = 65536
  MaxPacket = 35000
  Patience = 1
  Noise = {0}
  Cuts = {17}
  Timeouts = FALSE
  MaxSends = 2
CHECK_DEADLOCK FALSE
INVARIANTS BlocksAreWhole 
