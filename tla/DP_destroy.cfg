SPECIFICATION FairSpec
CONSTANTS
  Ticker = {"AAPL"}
  MaxId = 1
  Subscriber = {s1}
  Item = {i1, i2, i3}
  Nobody = Nobody
  s1 = s1
  i1 = i1
  i2 = i2
  i3 = i3
  UsedType <- FixedAndHistory
  CancelType <- FixedTypes
  Destroyable = {s1}
  Notice <- AllNotices
  MaxWire = 1
INVARIANT DestroyedUnlisted
PROPERTY ItemsReleased
CHECK_DEADLOCK FALSE
