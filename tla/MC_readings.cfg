CONSTANTS
  MaxRuns = 2
  MaxEvents = 1
  Trades = {1, 2}
  Volume = 2
  Attempts = 2
  Tick = 4
  Noise = 1
  Ratio = 1
  Whole = 5
  MaxPrice = 6
  Volumes = {0, 1, 2}
  MaxDirs = 3
  MaxSize = 2
  Maximum = 4
  Disk = 6
  MinimumFree = 1
  Reserve = 1
SPECIFICATION Spec
CHECK_DEADLOCK FALSE
INVARIANT TypesOK
INVARIANT ScreenTrusted
PROPERTY RecoversOnlyKnown
INVARIANT ObservedIsTrue
INVARIANT LagIsPending
INVARIANT PriceIsRight
PROPERTY RecordKept
PROPERTY BudgetHonoured
