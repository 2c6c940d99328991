CONSTANTS
  r1 = r1
  r2 = r2
  r3 = r3
  k1 = k1
  NoKey = NoKey
  NoRequest = NoRequest
  Request <- One
  Kind <- OneOrder
  KeyOf <- NoKeyOne
  PrintOf <- PrintOne
  Storage = {"ok"}
  Faults = {"workerDeath", "deadline", "operator", "disconnect", "stop"}
  QueueCapacity = 1
  MaxBoots = 0
  ReconnectEnabled = FALSE
SPECIFICATION FairSpec
CHECK_DEADLOCK FALSE
PROPERTY EveryoneAnswered
PROPERTY StopEnds
