SPECIFICATION CycleSpec
CONSTANTS
  Coin = {c1, c2}
  MaxPositions = 2
  MaxSameDirection = 1
  MaxOrders = 3
INVARIANTS
  ReservationBlocksScaleIn
CHECK_DEADLOCK FALSE
