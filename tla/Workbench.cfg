SPECIFICATION Spec
CONSTANTS
  h1 = h1
  h2 = h2
  f1 = f1
  f2 = f2
  f3 = f3
  Requests <- TwoRequests
  Files <- ThreeFiles
  Stored <- OneStored
  Limit = 4
  MaxVersion = 5
  Openings <- SixOpenings
  Spaces <- TwoSpaces
  Allowed = 1
  Beginnings <- SevenBeginnings
  Shelf <- SixFiles
  Several = 2
  Wizard <- ThreeSteps
  Optional <- LastStep
  Lists <- ListSteps
  Stories <- FourStories
SYMMETRY Symmetry
INVARIANTS PostsHold WorkspacesHold MediaHolds
PROPERTIES RecordStays SentWhole NothingGoesOut ProfilesHold
CHECK_DEADLOCK FALSE
