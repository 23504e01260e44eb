SPECIFICATION ReviewSpec
CONSTANTS
  SlotLength = 4
  TraderTimeout = 3
  ReviewTimeout = 1
  Cleanup = 1
  Margin = 1
  ReviewTimes <- OneReview
  PoolBusy = FALSE
  MaxTime = 7
  MaxRuns = 2
  MaxCrashes = 1
  MaxOrders = 1
  Scope = {a1, a2}
  Lesson = {lesson}
  Proposal <- MCProposal
  MaxVersions = 3
  MaxProposals = 1
  NoMemory = NoMemory
  NoPage = NoPage
  OpenAI = openai
  Custom = {p1, p2}
  ModelId = {m1}
  MaxKeys = 3
  MaxRequests = 3
  Handlers = {h1, h2}
  Readers = {r1}
  Account = {acc1, acc2}
  NoAccount = NoAccount
  NoSnapshot = NoSnapshot
  StaleAfter = 0
  PersistAfter = 1
  MaxClock = 1
  MaxSwitches = 1
  MaxRestarts = 1
INVARIANTS
  ReviewBetweenSlots
  
  MemorySafe
  RegistrySafe
  DashboardSafe
CHECK_DEADLOCK FALSE
