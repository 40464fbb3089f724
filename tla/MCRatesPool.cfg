CONSTANTS
  None = None
  h1 = h1  h2 = h2  h3 = h3
  p1 = p1  p2 = p2
  Handlers = {h1, h2, h3}
  Programs = {p1, p2}
  ProgramOf <- ReserveOn
  Foreign = {h1, h2}
  PoolSize = 3
  Ttl = 2
  Corrections = {1}
  MaxDelay = 1
  Horizon = 4
SPECIFICATION FairRateSpec
PROPERTIES
  EveryReserveEnds
CHECK_DEADLOCK FALSE
