CONSTANTS
  r1 = r1
  r2 = r2
  r3 = r3
  k1 = k1
  NoKey = NoKey
  NoRequest = NoRequest
  Request <- One
  Kind <- OneOrder
  KeyOf <- NoKeyOne
  PrintOf <- PrintOne
  Storage = {"ok"}
  Faults = {"disconnect"}
  QueueCapacity = 1
  MaxBoots = 0
  ReconnectEnabled = FALSE
SPECIFICATION Spec
CHECK_DEADLOCK FALSE
INVARIANT EarlyAnswerTruthful
