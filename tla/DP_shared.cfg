SPECIFICATION Spec
CONSTANTS
  Ticker = {"AAPL"}
  MaxId = 2
  Subscriber = {s1, s2}
  Item = {i1, i2, i3, i4}
  Nobody = Nobody
  s1 = s1
  s2 = s2
  i1 = i1
  i2 = i2
  i3 = i3
  i4 = i4
  UsedType <- RelError
  CancelType <- RelError
  Destroyable = {s1, s2}
  Notice <- ErrorNotice
  MaxWire = 1
SYMMETRY Symmetry
INVARIANT OneItemPerSubscriber
INVARIANT DroppedItemEmpty
INVARIANT RelStreamServed
CHECK_DEADLOCK FALSE
