CONSTANTS
  a = a
  b = b
  c = c
  d = d
  Client = {a, b, c}
  Scenarios <- EndingScenarios
  Asynchronity = 3
SPECIFICATION FairSpec
PROPERTIES GreetingEnds Converge ParterLeaves ExcludedLeave EntrantsIncluded
CHECK_DEADLOCK FALSE
