CONSTANTS
  MaxOps = 1
  MaxSends = 1
  MaxDepth = 2
  MaxCallbacks = 1
  StuckNotices = TRUE
SPECIFICATION Spec
CHECK_DEADLOCK FALSE
INVARIANT ReleasedOrPoisoned
