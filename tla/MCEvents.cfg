CONSTANTS
  None = None
  p1 = p1  p2 = p2  unknown = unknown
  i1 = i1  i2 = i2
  k1 = k1  k2 = k2  k3 = k3  k4 = k4
  m1 = m1  m2 = m2  m3 = m3  m4 = m4  m5 = m5  m6 = m6
  ref1 = ref1
  w1 = w1  w2 = w2
  RateScale = 2
  MaxMinor = 20
  GuardBasisPoints = 5000
  Programs = {p1}
  Invoices = {i1}
  RequestIds = {k1, k2}
  MessageIds = {m1, m2, m3, m4, m5, m6}
  Topics = {"events", "snapshots"}
  Workers = {w1, w2}
  ProgramCurrency <- EuroPrograms
  SeedLimit <- Limits
  Commands <- CommandSet
  FxRates = {1}
  Records <- RecordSet
  Uuids = {p1, p2, unknown}
  Currencies = {"EUR", "USD"}
  ShortTexts = {ref1}
  MaxReferences = 1
  MaxSafeInteger = 9
  TreasuryReferences = {ref1}
SPECIFICATION ServingSpec
INVARIANTS
  TypeOK
  LedgerGapless
  LedgerExplainsPosition
  OverLimitMarkExact
  MarkHistoryAlternates
  OneMessagePerVersion
  MessageTakesEffectOnce
  OutcomeMatchesLedger
PROPERTIES
  ImplementsCreditFacility
  ReserveNeverOversells
SYMMETRY WorkerSymmetry
