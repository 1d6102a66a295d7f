SPECIFICATION Spec
CONSTANTS
  DhPrime <- MCDhPrime
  HostKeys = {k1,k2}
  Nobody = nobody
  Ids <- MCIds
  OwnId <- MCOwnId
  BadId <- OldLine
  Cookies = {c1}
  Offers <- TwoOffers
  OwnOffers <- TwoOwnOffers
  SeqMod = 1000
  IoErrors = FALSE
  MaxStarts = 1
  MaxSends <- FewSends
  MaxDamage = 2
CHECK_DEADLOCK FALSE
INVARIANTS SessionAgreement SessionInvariant PayloadSealedAsAgreed NoSilentGap
PROPERTIES ImplementsChannel
