CONSTANTS
  Policy <- MCPolicy
  ClaimInclusionMs = 1
  OfferExpiryMs = 0
  LockNeedMs = 0
  LockTimes = {1, 2}
  OffersA <- MCOffersA
  OffersB <- MCOffersB
  NoOffer = none
  MaxTime = 5
  MaxReorgs = 1
SPECIFICATION Spec
INVARIANTS BuyerVerdictsFinal BuyerWhole
PROPERTIES SecretOnlyForFinalLock
CHECK_DEADLOCK FALSE
