SPECIFICATION LiveSpec
CONSTANTS
  w1 = w1
  w2 = w2
  Drivers <- TwoDrivers
  NumDestinations = 2
  NumInitial = 2
  Broadcast = FALSE
  NumDeclared = 2
  MaxSize = 3
  PageSize = 2
  PagesPerGet = 2
  MayClose = {1}
  MayFail = FALSE
  MaxPages = 2
CHECK_DEADLOCK FALSE
INVARIANT SizeAccounting
INVARIANT PendingRequests
INVARIANT NothingLost
INVARIANT ChecksHold
PROPERTY ImplementsChannel
PROPERTY ProducersResume
PROPERTY OutputConsumed
