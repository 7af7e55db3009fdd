SPECIFICATION UserAccountsSpec
CONSTANTS
  r1 = r1
  r2 = r2
  r3 = r3
  r4 = r4
  a = a
  b = b
  c = c
  d = d
  e = e
  Requests <- FourRequests
  MayAsk <- Mixed
  Users <- FiveUsers
  Handlers <- FourRequests
  Openings <- SomeOpenings
  Seats = 4
SYMMETRY Symmetry
INVARIANTS RevokedStaysRevoked OnlyReuseIsPunished TeamHolds
PROPERTY TeamWithinPlan
CHECK_DEADLOCK FALSE
