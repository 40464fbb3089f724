CONSTANTS
  None = None
  x1 = x1  x2 = x2
  Instances = {x1, x2}
  LogLength = 3
  EffectiveAt <- Times
  Refused = {3}
  Second = 2
  MaxFaults = 2
SPECIFICATION ClientsSpec
INVARIANTS
  LagIsNeverMadeUp
PROPERTIES
  EventuallyIngesting
  ReadinessSettles
CHECK_DEADLOCK FALSE
