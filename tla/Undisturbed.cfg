SPECIFICATION FairSpec
CONSTANTS
  DhPrime <- MCDhPrime
  HostKeys = {k1}
  Nobody = nobody
  Ids <- MCIds
  OwnId <- MCOwnId
  BadId <- OldLine
  Cookies = {c1, c2}
  Offers <- AllOffers
  OwnOffers <- AllOwnOffers
  SeqMod = 4
  IoErrors = FALSE
  MaxStarts = 2
  MaxSends <- FewSends
  MaxDamage = 0
CHECK_DEADLOCK FALSE
INVARIANTS UnreadDecodes NoMutualWait FailsOnlyOnMismatch
PROPERTIES HandshakeCompletes NeitherIsLeftBehind
