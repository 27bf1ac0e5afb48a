SPECIFICATION LiveSpec
CONSTANTS
  w1 = w1
  w2 = w2
  Drivers <- OneDriver
  NumDestinations = 2
  NumInitial = 2
  Broadcast = FALSE
  NumDeclared = 2
  MaxSize = 3
  PageSize = 2
  PagesPerGet = 2
  MayClose = {}
  MayFail = FALSE
  MaxPages = 1
CHECK_DEADLOCK FALSE
PROPERTY OutputConsumed
