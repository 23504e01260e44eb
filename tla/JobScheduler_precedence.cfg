SPECIFICATION Spec
CONSTANTS
  SlotLength = 5
  TraderTimeout = 4
  ReviewTimeout = 2
  Cleanup = 1
  Margin = 1
  ReviewTimes <- NoReviews
  PoolBusy = FALSE
  MaxTime = 11
  MaxRuns = 3
  MaxCrashes = 0
  MaxOrders = 0
PROPERTY NaturalHasPrecedence
CHECK_DEADLOCK FALSE
