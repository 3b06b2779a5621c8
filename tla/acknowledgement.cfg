CONSTANTS
  a = a
  b = b
  c = c
  MaxBuffer = 2
  Scenarios <- Conversations
SPECIFICATION FairSpec
PROPERTIES EveryoneAccepts PayloadsAcked
CHECK_DEADLOCK FALSE
