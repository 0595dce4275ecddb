CONSTANTS
  Policy <- MCPolicy
  ClaimInclusionMs = 1
  OfferExpiryMs = 0
  LockNeedMs = 0
  LockTimes = {1}
  OffersA <- MCOffersA
  OffersB <- MCOffersB
  NoOffer = none
  MaxTime = 5
  MaxReorgs = 0
  MaxThrows = 2
SPECIFICATION RunnerSpec
PROPERTIES SellerFinishes BuyerFinishes
CHECK_DEADLOCK FALSE
