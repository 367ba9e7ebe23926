SPECIFICATION Spec
CONSTANTS
  a1 = a1
  a2 = a2
  p1 = p1
  s1 = s1
  Account = {a1, a2}
  Portfolio = {p1}
  Strategy = {s1}
  Root = Root
  Parent <- TwoAccounts
  Reconnects = TRUE
  MaxUpdate = 2
INVARIANT ParentActivated
INVARIANT RunsWhileActive
PROPERTY StartsActive
CHECK_DEADLOCK FALSE
