CONSTANTS
  MaxOps = 2
  MaxSends = 2
  MaxDepth = 2
  MaxCallbacks = 1
  StuckNotices = FALSE
SPECIFICATION Spec
CHECK_DEADLOCK FALSE
INVARIANT ReleasedOrPoisoned
