SPECIFICATION BillingSpec
CONSTANTS
  Handlers = {h1}
  MaxSubs = 2
  MaxUpsets = 2
INVARIANT BillingTypeOK
PROPERTIES LiveSubscriptionKept CopyCatchesUp EventsSettle
CHECK_DEADLOCK FALSE
