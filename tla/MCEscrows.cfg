CONSTANTS
  alice = alice
  bob = bob
  h1 = h1
  h2 = h2
  p1 = p1
  p2 = p2
  Accounts = {alice, bob}
  Rail = rail
  ZeroAddress = zero
  Tokens = {usdc}
  UsdcToken = usdc
  ProgramAccounts = {rail}
  HashLocks = {h1, h2}
  Preimages = {p1, p2}
  Sha256 <- MCSha256
  Supply = 1
  MaxAmount = 1
  MsPerSecond = 2
  Deadlines = {1, 2, 3}
  MaxTimestamp = 2
  MaxDepth = 1
  MaxReceipts = 2
  Orders <- MCOrders
  Freezable = {bob}
  Messages <- MCMessages
  MaxFailures = 1
SPECIFICATION AllSpec
INVARIANTS AllTypeOK Solvent NearSolvent
PROPERTIES ImplementsHtlc TermsFrozen NearImplementsHtlc RevealedIsPaid SolImplementsHtlc
CHECK_DEADLOCK FALSE
