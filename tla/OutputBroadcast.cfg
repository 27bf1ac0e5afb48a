SPECIFICATION Spec
CONSTANTS
  w1 = w1
  w2 = w2
  Drivers <- OneDriver
  NumDestinations = 2
  NumInitial = 1
  Broadcast = TRUE
  NumDeclared = 2
  MaxSize = 3
  PageSize = 2
  PagesPerGet = 1
  MayClose = {}
  MayFail = FALSE
  MaxPages = 2
CHECK_DEADLOCK FALSE
INVARIANT NeverUnderstated
INVARIANT ConsumedOnce
PROPERTY ImplementsChannel
