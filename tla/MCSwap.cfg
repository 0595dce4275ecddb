CONSTANTS
  Policy <- MCPolicy
  ClaimInclusionMs = 1
  OfferExpiryMs = 0
  LockNeedMs = 0
  LockTimes = {1, 2}
  OffersA <- MCOffersA
  OffersB <- MCOffersB
  NoOffer = none
  MaxTime = 6
  MaxReorgs = 0
SPECIFICATION Spec
INVARIANTS TypeOK BuyerPaidSellerPaid LegBOutlastsLegA BuyerWhole SellerWhole ReceiptsTruthful
PROPERTIES ClaimLeavesBuyerTime
CHECK_DEADLOCK FALSE
