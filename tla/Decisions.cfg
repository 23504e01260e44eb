SPECIFICATION DecisionSpec
CONSTANTS
  SlotLength = 5
  TraderTimeout = 4
  ReviewTimeout = 2
  Cleanup = 1
  Margin = 1
  ReviewTimes <- NoReviews
  PoolBusy = FALSE
  MaxTime = 11
  MaxRuns = 3
  MaxCrashes = 1
  MaxOrders = 0
  MaxAge = 0
  NoFrame = NoFrame
  NoRequest = NoRequest
  MaxTicks = 1
  MaxBindings = 1
  MaxLives = 2
  MaxFaults = 1
  MaxCycles = 2
  MaxByHand = 1
  MaxFact = 2
  Missing = Missing
  Available = Available
  Hour = 2
  NoWait = NoWait
  NoPrior = NoPrior
  NoFile = NoFile
  MaxClock = 4
  MaxResets = 1
  MaxEvents = 6
  MaxAhead = 2
INVARIANTS
  SlotsSafe
  BrainSafe
  NoSilentWait
  AnswerIsWhole
  RefusedForGood
PROPERTY
  RecoveryAddsNoSecondDecision
CHECK_DEADLOCK FALSE
