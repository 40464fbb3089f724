CONSTANTS
  None = None
  c1 = c1  c2 = c2
  Consumers = {c1, c2}
  Fate <- MessageFates
  LogLength = 5
  InitialOffset = 0
  MaxAttempts = 2
  MaxFaults = 3
SPECIFICATION FairStreamSpec
INVARIANTS
  StreamTypeOK
  CommittedIsHandled
  QuarantinedForCause
PROPERTIES
  EveryMessageIsHandled
CHECK_DEADLOCK FALSE
