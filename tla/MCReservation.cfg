CONSTANTS
  None = None
  RateScale = 8
  Amounts <- AmountRange
  Rates <- RateRange
SPECIFICATION LifecycleSpec
INVARIANTS
  ReservedTracksInvoice
  ReturnsWhatItTook
  AlwaysSettleable
PROPERTIES
  ClosingTellsHistory
CHECK_DEADLOCK FALSE
