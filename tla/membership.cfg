CONSTANTS
  a = a
  b = b
  c = c
  d = d
  Client = {a, b, c}
  Scenarios <- MembershipScenarios
  Asynchronity = 3
SPECIFICATION Spec
INVARIANTS TypeOK NoAssertionFails ServerOrderAgreement SessionAgreement OrderDeterminesSession OngoingHasGreeting AbsentAreExcluded
PROPERTIES OrdersAreHistories KeyConfirmation
CHECK_DEADLOCK FALSE
