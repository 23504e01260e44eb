SPECIFICATION PartSpec
CONSTANTS
  Segment = {s1}
  NoSegment = NoSegment
  MaxLevel = 4
  MaxLives = 3
  MaxInFlight = 2
  MaxCrashes = 0
  Coin = {c1, c2, c3}
  MaxPositions = 2
  MaxSameDirection = 1
  MaxOrders = 3
  NoRow = NoRow
  Start = 3
  Budget = 2
  LimitPart = 2
  MaxEvents = 2
  MaxDay = 1
  demoAccount = demoAccount
  otherDemo = otherDemo
  liveAccount = liveAccount
  otherKey = otherKey
  liveKey = liveKey
  demoCopy = demoCopy
  liveCopy = liveCopy
  NoOne = NoOne
  Connection = {otherKey, liveKey, demoCopy, liveCopy}
  Account = {demoAccount, otherDemo, liveAccount}
  AccountOf <- MCAccountOf
  Mode <- MCMode
  ModeOf <- MCModeOf
  LegacyMode = "demo"
  Legacy <- MCLegacy
  Copy <- MCCopy
  Reader = {risk, monitor}
  RiskReader = {risk}
  NoReader = NoReader
  NoSnapshot = NoSnapshot
  Pages = 2
  MaxTries = 2
  Gap = 1
  MaxWrites = 1
  MaxSnags = 1
  Key = {k1}
  Monitor = {m1, m2}
  Hour = 2
  Life = 3
  Remember = 3
  MaxFrames = 4
  MaxResets = 1
  NoCandidate = NoCandidate
INVARIANTS
  CycleSafe
  BindingSafe
  ReaderSafe
  ShadowSafe
PROPERTIES
  
  FuseHolds
  
SYMMETRY PositionSymmetry
