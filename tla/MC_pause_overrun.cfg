CONSTANTS
  r1 = r1
  r2 = r2
  r3 = r3
  k1 = k1
  NoKey = NoKey
  NoRequest = NoRequest
  Request <- Two
  Kind <- TwoOrders
  KeyOf <- SameKey
  PrintOf <- SamePrint
  Storage = {"ok"}
  Faults = {"operator", "slowSteps"}
  QueueCapacity = 1
  MaxBoots = 0
  ReconnectEnabled = FALSE
SPECIFICATION Spec
CHECK_DEADLOCK FALSE
INVARIANT PauseExcludesOwner
