SPECIFICATION EvidenceSpec
CONSTANTS
  Rails = {"btc", "evm", "near", "sol"}
  Bounds <- MCBounds
  ScanWindow = 2
  Attempts = 2
INVARIANTS FinalIsFinal VerdictIsOfOneBlock
PROPERTIES SettledIsSeen
CHECK_DEADLOCK FALSE
