CONSTANTS
  Windows = {w1, w2}
  Kinds = {"settlement", "page"}
  Budget = 8
  MaxShows = 2
  Together = TRUE
SPECIFICATION Spec
CHECK_DEADLOCK FALSE
INVARIANT OncePerDisplay
