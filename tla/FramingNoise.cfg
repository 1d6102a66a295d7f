SPECIFICATION Spec
CONSTANTS
  Kind = "Traditional"
  MacLen = 32
  Lengths <- OneBlock
  WordMod = 65536
  MaxPacket = 76
  Patience = 4
  Noise = {0, 12, 28, 44, 60}
  Cuts = {8, 20}
  Timeouts = TRUE
  MaxSends = 2
CHECK_DEADLOCK FALSE
INVARIANTS TypeOK
PROPERTIES ImplementsQueue
