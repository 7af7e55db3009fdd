SPECIFICATION Spec
CONSTANTS
  s1 = s1
  s2 = s2
  r1 = r1
  r2 = r2
  v1 = v1
  p1 = p1
  p2 = p2
  None = None
  Schedules <- TwoSchedules
  Runs <- OneRun
  Sweeps <- NoSweeps
  Requests = {h1, h2}
  Procs = {p1, p2}
  ProcOf <- Where
  MaxAttempts = 2
  MaxClaims = 3
  Openings <- People
SYMMETRY Symmetry
INVARIANTS UnknownIsNotRetried ChangesAreSafe NoOrphans
CHECK_DEADLOCK FALSE
