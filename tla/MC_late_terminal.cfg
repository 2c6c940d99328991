CONSTANTS
  MaxTerminals = 3
  Reconnects = TRUE
  StorageFails = FALSE
SPECIFICATION Spec
CHECK_DEADLOCK FALSE
INVARIANT StoppedMeansDown
