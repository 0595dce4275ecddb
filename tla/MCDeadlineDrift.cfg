CONSTANTS
  Legs <- MCLegs
  Policies <- MCPolicies
  PairTimes = {1, 2}
  Horizon = 8
SPECIFICATION Spec
INVARIANTS OkLeavesMargin ReportedMinimumLasts
CHECK_DEADLOCK FALSE
