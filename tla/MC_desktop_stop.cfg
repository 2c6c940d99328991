CONSTANTS
  MaxTerminals = 3
  Reconnects = FALSE
  StorageFails = TRUE
SPECIFICATION Spec
CHECK_DEADLOCK FALSE
INVARIANT StoppedMeansDown
