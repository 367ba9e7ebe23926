SPECIFICATION Spec
CONSTANTS
  Ticker = {"AAPL", "MSFT"}
  MaxId = 2
  Subscriber = {s1, s2}
  Item = {i1, i2}
  Nobody = Nobody
  s1 = s1
  s2 = s2
  i1 = i1
  i2 = i2
  UsedType <- HistoryTypes
  CancelType <- NoType
  Destroyable = {}
  Notice <- NoNotice
  MaxWire = 2
PROPERTY ReportedUnderItsSymbol
CHECK_DEADLOCK FALSE
