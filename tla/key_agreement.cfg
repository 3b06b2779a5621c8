CONSTANTS
  a = a
  b = b
  c = c
  d = d
  Client = {a, b, c, d}
  MaxDraws = 2
  PrivKey <- AllDraws
  Routes <- AllRoutes
SYMMETRY AnyClient
SPECIFICATION Spec
INVARIANTS KeysAgree StoresFit NothingRefused SummariesAgree
CHECK_DEADLOCK FALSE
