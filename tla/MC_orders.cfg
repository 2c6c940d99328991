CONSTANTS
  MaxOps = 2
  MaxSends = 2
  MaxDepth = 2
  MaxCallbacks = 2
  MaxMeddle = 2
  FormRuns = 2
  FormEvents = 1
  SessionRuns = 4
  SessionEvents = 5
SPECIFICATION Spec
CHECK_DEADLOCK FALSE
INVARIANT TypesOK
INVARIANT IdentityIsOwn
INVARIANT SubmittedIsOwn
INVARIANT SentAsRequested
INVARIANT LeftoverBlocks
INVARIANT FormReturned
INVARIANT AcceptedIsOwn
INVARIANT DroppedSessionUnused
