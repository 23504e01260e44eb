SPECIFICATION ServiceSpec
CONSTANTS
  trader = trader
  closer = closer
  manager = manager
  traderProcess = traderProcess
  backend = backend
  NoThread = NoThread
  Thread <- MCThread
  Process <- MCProcess
  ProcessOf <- MCProcessOf
  Traders <- MCTraders
  Guards <- MCGuards
  Managers <- MCManagers
  MaxDepth = 2
  MaxChanges = 2
  Delivery <- ThreeRows
  Priority <- UrgentLast
  Worker = {w1, w2}
  NoWorker = NoWorker
  Batch = 2
  MaxAttempts = 2
  MaxFaults = 1
  MaxRequests = 1
  Segment = {s1, s2}
  NoSegment = NoSegment
  MaxLevel = 3
  MaxLives = 2
  MaxInFlight = 2
  MaxCrashes = 1
  MaxQty = 3
  MaxLife = 3
  NoMessage = NoMessage
  Torn = Torn
  MaxTries = 3
INVARIANTS
  GateSafe
  QueueSafe
  
  CallSafe
PROPERTIES
  SettledRowsRest
  ImplementsAccountPromise
  CloseHonest
  ServicesLive
CHECK_DEADLOCK FALSE
