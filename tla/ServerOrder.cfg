CONSTANTS
  a = a
  b = b
  Owner = a
  Member <- BothMembers
  Packet <- PossiblePackets
  NewId <- PossibleNewIds
SPECIFICATION Spec
INVARIANT OrderInv
PROPERTY ImplementsHistory
