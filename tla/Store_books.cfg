CONSTANTS
  s1 = s1
  s2 = s2
  e1 = e1
  e2 = e2
  Strategies = {s1, s2}
  Executions = {e1, e2}
  Parent <- MCParent
  OrderSize = 1
  MaxOrders = 2
  MaxExecs = 2
  MaxFails = 1
  MaxRestarts = 1
SPECIFICATION Spec
INVARIANTS
  TypeOK
  PositionsMatchTrades
  BooksComplete
PROPERTIES
  ImplementsLedger
CHECK_DEADLOCK FALSE
