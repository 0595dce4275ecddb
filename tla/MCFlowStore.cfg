CONSTANTS
  f1 = f1
  f2 = f2
  p1 = p1
  p2 = p2
  Flows = {f1, f2}
  Pids = {p1, p2}
  PidOf <- MCPidOf
  MaxProcesses = 2
  PromptBody = TRUE
  MaxWaits = 1
  MaxSaves = 3
  MaxFaults = 2
  NoLock = none
SPECIFICATION Spec
INVARIANTS NoSaveLost
PROPERTIES LeftoverNeverRefuses SaveEnds
CHECK_DEADLOCK FALSE
