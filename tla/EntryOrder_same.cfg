SPECIFICATION Spec
CONSTANTS
  d1 = d1
  d2 = d2
  i1 = i1
  i2 = i2
  NoDecision = NoDecision
  Decision <- MCDecision
  Instrument <- OneInstrument
  InstrumentOf <- SameInstrumentOf
  MaxClients = 2
  BatchLimit = 1
  Size = 2
  PoolEnabled = TRUE
INVARIANTS
  TypeOK
  BoughtOnce
  AtMostOneUncertain
  LedgerTellsTruth
  OneEntryPerInstrument
PROPERTIES
  EvidenceNeverErased
  ImplementsPromise
SYMMETRY DecisionSymmetry
