SPECIFICATION Spec
CONSTANTS
  Ticker = {"AAPL", "MSFT"}
  MaxId = 2
  Subscriber = {s1}
  Item = {i1}
  Nobody = Nobody
  s1 = s1
  i1 = i1
  UsedType <- StreamTypes
  CancelType <- StreamTypes
  Destroyable = {}
  Notice <- NoNotice
  MaxWire = 1
INVARIANT TypeOK
INVARIANT IdsUnique
INVARIANT TickerListed
INVARIANT TickerInjective
CHECK_DEADLOCK FALSE
