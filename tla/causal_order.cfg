CONSTANTS
  a = a
  b = b
  c = c
  MaxBuffer = 2
  Scenarios <- Exchanges
SYMMETRY AnyMember
SPECIFICATION Spec
INVARIANTS FullyAckedByAll UnackedAreUnanswered OrderIsReachability OnlyUnreadyWait NothingRefused LogShowsPast
PROPERTY DeliversCausally
CHECK_DEADLOCK FALSE
