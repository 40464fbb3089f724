CONSTANTS
  None = None
  x1 = x1  x2 = x2
  Instances = {x1, x2}
  LogLength = 3
  EffectiveAt <- Times
  Refused = {}
  Second = 2
  MaxFaults = 0
SPECIFICATION ClientsSpec
PROPERTIES
  StalenessIsNotConcealed
CHECK_DEADLOCK FALSE
