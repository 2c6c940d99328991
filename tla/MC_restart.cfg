CONSTANTS
  r1 = r1
  r2 = r2
  r3 = r3
  k1 = k1
  NoKey = NoKey
  NoRequest = NoRequest
  Request <- Two
  Kind <- OrderAndQuery
  KeyOf <- NoKeys
  PrintOf <- SamePrint
  Storage = {"ok"}
  Faults = {"crash", "runtimeError", "aging", "operator", "slowSteps"}
  QueueCapacity = 1
  MaxBoots = 1
  ReconnectEnabled = FALSE
SPECIFICATION Spec
CHECK_DEADLOCK FALSE
INVARIANT InitialPause
PROPERTY UnknownKept
