SPECIFICATION BrowserSpec
CONSTANTS
  t1 = t1
  t2 = t2
  Tabs <- TwoTabs
  Openings <- OneChange
INVARIANT FreshSessionForThisDevice
CHECK_DEADLOCK FALSE
