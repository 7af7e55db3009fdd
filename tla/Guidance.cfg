SPECIFICATION Spec
CONSTANTS
  w1 = w1
  w2 = w2
  p1 = p1
  p2 = p2
  Workers <- TwoWorkers
  Posts <- TwoPosts
  Gone <- OneGone
  MinPosts = 1
  LastWeek = 2
  Quota = 1
  MaxAttempts = 3
  Openings <- SomeOpenings
INVARIANTS StrategyKept NothingTwice
PROPERTIES WorkIsKept WorkersKeepUp
CHECK_DEADLOCK FALSE
