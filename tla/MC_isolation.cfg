CONSTANTS
  r1 = r1
  r2 = r2
  r3 = r3
  k1 = k1
  NoKey = NoKey
  NoRequest = NoRequest
  Request <- Two
  Kind <- OrderAndCancel
  KeyOf <- NoKeys
  PrintOf <- SamePrint
  Storage = {"ok"}
  Faults = {"mishap", "workerDeath", "slowWorker"}
  QueueCapacity = 1
  MaxBoots = 0
  ReconnectEnabled = TRUE
SPECIFICATION Spec
CHECK_DEADLOCK FALSE
INVARIANT SendIsJournaled
INVARIANT AtMostOnce
INVARIANT SingleOwner
