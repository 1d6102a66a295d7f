SPECIFICATION FairSpec
CONSTANTS
  DhPrime <- MCDhPrime
  HostKeys = {k1}
  Nobody = nobody
  Ids <- MCIds
  OwnId <- MCOwnId
  BadId <- OldLine
  Cookies = {c1}
  Offers <- AllOffers
  OwnOffers <- AllOwnOffers
  SeqMod = 1000
  IoErrors = TRUE
  MaxStarts = 2
  MaxSends <- NoSends
  MaxDamage = 0
CHECK_DEADLOCK FALSE
PROPERTIES HandshakeSettles
