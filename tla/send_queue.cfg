CONSTANTS
  a = a
  a2 = a2
  b = b
  Owner = me
  UserOf <- DeviceUsers
  MaxBuffer = 1
  Scenarios <- Queues
SPECIFICATION Spec
INVARIANTS QueueHoldsUnacked NoneIsForgotten SentInContext LogSpansSessions AckedInOrder
CHECK_DEADLOCK FALSE
