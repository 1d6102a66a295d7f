SPECIFICATION Spec
CONSTANTS
  DhPrime <- MCDhPrime
  HostKeys = {k1}
  Nobody = nobody
  Ids <- MCIds
  OwnId <- MCOwnId
  BadId <- OldLine
  Cookies = {c1}
  Offers <- SameOffers
  OwnOffers <- SameOwnOffers
  SeqMod = 1000
  IoErrors = TRUE
  MaxStarts = 1
  MaxSends <- FewSends
  MaxDamage = 1
CHECK_DEADLOCK FALSE
INVARIANTS TypeOK KeystreamNeverReused
