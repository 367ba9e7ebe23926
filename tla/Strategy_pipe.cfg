CONSTANTS
  AssetLists <- MCAssetLists
  Saved <- MCSaved
  MaxStarts = 3
  MaxRounds = 2
  MaxErrors = 1
  MaxEdits = 1
SPECIFICATION Spec
INVARIANTS
  ChainWhileStarted
  RoundSentOnce
PROPERTIES
  OneOrderAtMost
CHECK_DEADLOCK FALSE
