CONSTANTS
  r1 = r1
  r2 = r2
  r3 = r3
  k1 = k1
  NoKey = NoKey
  NoRequest = NoRequest
  Request <- Two
  Kind <- TwoOrders
  KeyOf <- SameKey
  PrintOf <- Prints
  Storage = {"ok"}
  Faults = {"operator", "mishap", "stop"}
  QueueCapacity = 1
  MaxBoots = 0
  ReconnectEnabled = TRUE
SPECIFICATION Spec
CHECK_DEADLOCK FALSE
INVARIANT PauseExcludesOwner
INVARIANT RetryScheduled
INVARIANT RestartOnlyWhenSettled
INVARIANT OneSendPerKey
PROPERTY NoDispatchAfterStop
