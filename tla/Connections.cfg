SPECIFICATION ConnectionsSpec
CONSTANTS
  Users <- TwoRequests
  MaxGen = 3
  Budget <- Sharing
  f1 = f1
  f2 = f2
  p1 = p1
  p2 = p2
  a1 = a1
  a2 = a2
  r1 = r1
  r2 = r2
  none = none
  None = none
  Flows <- TwoFlows
  Requests <- TwoRequests
  People <- TwoPeople
  Accounts <- TwoAccounts
  Ways <- ThreeWays
  Openings <- SomeOpenings
  Limit = 1
SYMMETRY Alike
INVARIANTS RefreshesAreSafe ConnectingHolds
PROPERTIES TokensNeverGoBack ConnectionsAreAllowed
CHECK_DEADLOCK FALSE
