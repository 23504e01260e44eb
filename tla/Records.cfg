SPECIFICATION RecordSpec
CONSTANTS
  d1 = d1
  d2 = d2
  i1 = i1
  i2 = i2
  NoDecision = NoDecision
  Decision <- OneDecision
  Instrument <- OneInstrument
  InstrumentOf <- OnlyInstrumentOf
  MaxClients = 2
  BatchLimit = 2
  Size = 1
  PoolEnabled = TRUE
  Reader = {risk, monitor}
  RiskReader = {risk}
  NoReader = NoReader
  NoSnapshot = NoSnapshot
  Pages = 1
  MaxTries = 2
  Gap = 1
  MaxWrites = 1
  MaxSnags = 0
  mine = mine
  theirs = theirs
  myAccount = myAccount
  otherAccount = otherAccount
  Lifecycle = {mine}
  Account = {myAccount, otherAccount}
  AccountOf <- MCOwner
  NoRow = NoRow
  Unset = Unset
  MaxRefreshes = 1
  MaxSwitches = 1
  MaxDeaths = 1
  Backend = {b1, b2}
  WorkerProcess = {w1, w2, w3, w4}
  NoProcess = NoProcess
  MaxLosses = 1
INVARIANTS
  LedgerSafe
  SupervisionSafe
PROPERTIES
  SettlementNeverRollsBack
  RecordsLive
CHECK_DEADLOCK FALSE
