CONSTANTS
  a = a
  b = b
  c = c
  d = d
  Client = {a, b}
  Scenarios <- LeaveAndReturn
  Asynchronity = 3
SPECIFICATION Spec
INVARIANT NoAssertionFails
CHECK_DEADLOCK FALSE
