SPECIFICATION CycleSpec
CONSTANTS
  Coin = {c1, c2, c3}
  MaxPositions = 3
  MaxSameDirection = 3
  MaxOrders = 3
INVARIANTS
  FirstClaimsTheGroup
CHECK_DEADLOCK FALSE
