SPECIFICATION FairSpec
CONSTANTS
  s1 = s1
  s2 = s2
  r1 = r1
  r2 = r2
  v1 = v1
  p1 = p1
  p2 = p2
  None = None
  Schedules <- OneSchedule
  Runs <- OneRun
  Sweeps <- OneSweep
  Requests = {h1}
  Procs = {p1, p2}
  ProcOf <- Where
  MaxAttempts = 2
  MaxClaims = 4
  Openings <- Interruptions
PROPERTY SchedulesSettle
CHECK_DEADLOCK FALSE
