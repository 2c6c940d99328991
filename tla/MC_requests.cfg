CONSTANTS
  r1 = r1
  r2 = r2
  r3 = r3
  k1 = k1
  NoKey = NoKey
  NoRequest = NoRequest
  Request <- Three
  Kind <- OrdersAndQuery
  KeyOf <- NoKeysThree
  PrintOf <- PrintsThree
  Storage = {"ok"}
  Faults = {"disconnect"}
  QueueCapacity = 2
  MaxBoots = 0
  ReconnectEnabled = FALSE
SPECIFICATION Spec
SYMMETRY AlikeOrders
INVARIANT TypeOK
INVARIANT QueueSound
