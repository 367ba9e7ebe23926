CONSTANTS
  Versions <- MCVersions
  MaxEntries = 1
  AnySet = FALSE
SPECIFICATION ApiSpec
INVARIANTS
  NothingLost
  CancelEnds
  AnswersReach
  OrderComesBack
CHECK_DEADLOCK FALSE
