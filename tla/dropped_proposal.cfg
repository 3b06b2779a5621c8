CONSTANTS
  a = a
  b = b
  c = c
  d = d
  Client = {a, b, c}
  Scenarios <- ChangeAndDisconnection
  Asynchronity = 3
SPECIFICATION FairSpec
PROPERTY AbsentExcluded
CHECK_DEADLOCK FALSE
