CONSTANTS
  r1 = r1
  r2 = r2
  r3 = r3
  k1 = k1
  NoKey = NoKey
  NoRequest = NoRequest
  Request <- Two
  Kind <- TwoOrders
  KeyOf <- SameKey
  PrintOf <- SamePrint
  Storage = {"ok", "lost", "late"}
  Faults = {"deadline", "crash", "workerDeath", "disconnect"}
  QueueCapacity = 1
  MaxBoots = 1
  ReconnectEnabled = FALSE
SPECIFICATION Spec
SYMMETRY AlikeOrders
CHECK_DEADLOCK FALSE
INVARIANT TruthfulNotSent
INVARIANT TruthfulSubmitted
INVARIANT AnswerIsReplayed
PROPERTY ImplementsSubmission
