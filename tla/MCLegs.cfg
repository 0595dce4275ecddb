CONSTANTS
  Rails = {"btc", "near", "sol"}
  Terms <- MCTerms
SPECIFICATION LegsSpec
INVARIANTS
  LegTypeOK
  SentOnce
  NoStrayTx
  LandedIsPaid
  RefundReportedIsFinal
PROPERTIES
  SecretHeldBack
  NoLateClaim
  LockedSettles
CHECK_DEADLOCK FALSE
