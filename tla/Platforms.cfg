SPECIFICATION OutcomesSpec
CONSTANTS
  t1 = t1
  t2 = t2
  MaxAttempts = 3
  MaxPolls = 3
  Hides <- OnlyTimeouts
  StatusFaults <- OnlyTimeouts
  Causes = {"published", "failed", "other"}
  MaxStreams = 1
  AllTabs <- TwoTabs
  Openings <- SomeOpenings
INVARIANTS RetriesFindTheAccount NoticesHold
PROPERTIES ImplementsPublishOnce OutcomesSettle
CHECK_DEADLOCK FALSE
