SPECIFICATION FairSpec
CONSTANTS
  d1 = d1
  d2 = d2
  i1 = i1
  i2 = i2
  NoDecision = NoDecision
  Decision <- MCDecision
  Instrument <- TwoInstruments
  InstrumentOf <- EachItsInstrument
  MaxClients = 2
  BatchLimit = 2
  Size = 1
  PoolEnabled = TRUE
INVARIANTS
  WorkingEntriesReserved
PROPERTIES
  TraderReturns
