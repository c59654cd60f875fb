SPECIFICATION RouteSpec
CONSTANTS
  Destinations = {a4, b4, c6}
  Inet4 = {a4, b4}
  TunFamilies = {4, 6}
  BaseRules = {base1, base2}
  Android = FALSE
  MarkMode = FALSE
  Nobody = nobody
  MaxFailures = 2
  MaxChanges = 1
  MaxRuns = 1
CHECK_DEADLOCK FALSE
INVARIANTS FirewallCovered RulesRemembered StoppedLeavesNothing
PROPERTIES CloseReturns Converges
