SPECIFICATION Spec
CONSTANTS
  d1 = d1
  d2 = d2
  i1 = i1
  i2 = i2
  NoDecision = NoDecision
  Decision <- MCDecision
  Instrument <- TwoInstruments
  InstrumentOf <- EachItsInstrument
  MaxClients = 3
  BatchLimit = 2
  Size = 1
  PoolEnabled = FALSE
INVARIANTS
  WorkingEntriesReserved
