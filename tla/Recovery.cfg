SPECIFICATION Spec
CONSTANTS
  s1 = s1
  s2 = s2
  r1 = r1
  r2 = r2
  v1 = v1
  p1 = p1
  p2 = p2
  None = None
  Schedules <- TwoSchedules
  Runs <- TwoRuns
  Sweeps <- OneSweep
  Requests = {h1}
  Procs = {p1, p2}
  ProcOf <- Where
  MaxAttempts = 1
  MaxClaims = 3
  Openings <- Failures
SYMMETRY Symmetry
INVARIANTS IInv NoBlindResend PostsOnce
PROPERTY NoRevival
CHECK_DEADLOCK FALSE
