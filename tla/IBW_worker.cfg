SPECIFICATION FairSpec
CONSTANTS
  MaxClick = 4
  MaxLoss = 2
  AccountActive = TRUE
INVARIANT TypeOK
INVARIANT ExitDisconnects
INVARIANT ReaderReady
PROPERTY ConnectionProcessed
PROPERTY DisconnectTaken
CHECK_DEADLOCK FALSE
