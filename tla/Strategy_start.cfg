CONSTANTS
  IsStrategy = TRUE
  Flags = {TRUE, FALSE}
  MaxFails = 2
  MaxRestarts = 2
SPECIFICATION Spec
INVARIANTS
  RowsStored
  AsksOnce
PROPERTIES
  BecomesReady
CHECK_DEADLOCK FALSE
