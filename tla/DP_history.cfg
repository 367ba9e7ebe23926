SPECIFICATION FairSpec
CONSTANTS
  Ticker = {"AAPL", "MSFT"}
  MaxId = 2
  Subscriber = {s1}
  Item = {i1}
  Nobody = Nobody
  s1 = s1
  i1 = i1
  UsedType <- HistoryTypes
  CancelType <- NoType
  Destroyable = {}
  Notice <- NoNotice
  MaxWire = 2
INVARIANT NoCrash
PROPERTY ReportedUnderItsSymbol
PROPERTY HistoryAnswered
CHECK_DEADLOCK FALSE
