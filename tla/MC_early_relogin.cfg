CONSTANTS
  MaxEvents = 2
  MaxRuns = 4
  EarlyRelogin = TRUE
SPECIFICATION Spec
CHECK_DEADLOCK FALSE
INVARIANT AcceptedIsOwn
