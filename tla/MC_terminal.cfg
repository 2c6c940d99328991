CONSTANTS
  Windows = {w1, w2}
  MaxCalls = 2
  MaxShows = 2
  Budget = 2
  MaxRuns = 1
  MaxEvents = 1
  MaxTerminals = 3
SPECIFICATION FairSpec
CHECK_DEADLOCK FALSE
INVARIANT TypesOK
INVARIANT AnswersAreOwn
INVARIANT NoticesAnswered
INVARIANT OneTerminal
PROPERTY WaitsEnd
PROPERTY StopReturns
