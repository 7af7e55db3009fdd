SPECIFICATION BrowserSpec
CONSTANTS
  t1 = t1
  t2 = t2
  Tabs <- TwoTabs
  Openings <- SomeOpenings
INVARIANT TabsShareTheLogin
CHECK_DEADLOCK FALSE
PROPERTY TabsSettle
