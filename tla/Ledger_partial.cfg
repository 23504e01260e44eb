SPECIFICATION LedgerSpec
CONSTANTS
  mine = mine
  theirs = theirs
  myAccount = myAccount
  otherAccount = otherAccount
  Lifecycle = {mine}
  Account = {myAccount}
  AccountOf <- MCOwner
  NoRow = NoRow
  Unset = Unset
  MaxRefreshes = 0
  MaxSwitches = 0
  MaxDeaths = 0
INVARIANTS
  PartialIsNoTrade
CHECK_DEADLOCK FALSE
