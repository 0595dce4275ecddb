CONSTANTS
  Legs <- MCLegs
  Policies <- MCPolicies
  PairTimes = {1, 2}
  Horizon = 8
SPECIFICATION Spec
INVARIANT OkMeetsReportedMinimum
CHECK_DEADLOCK FALSE
