SPECIFICATION AutopilotSpec
CONSTANTS
  s1 = s1
  s2 = s2
  p1 = p1
  p2 = p2
  w1 = w1
  w2 = w2
  Slots <- TwoSlots
  Platforms <- TwoPlatforms
  NeedMedia <- SecondPlatform
  Workers <- TwoWorkers
  Openings <- SomeOpenings
  MaxAttempts = 2
  FailuresToPause = 2
INVARIANTS OneWriter PeopleDecide
PROPERTY SlotsSettle
CHECK_DEADLOCK FALSE
