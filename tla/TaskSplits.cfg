CONSTANTS
  GroupedNodes = {"scan"}
  UngroupedNodes = {"exchange"}
  ExchangeNodes = {"exchange"}
  Groups = {1, 2}
  Ungrouped = Ungrouped
  NumDrivers <- MCNumDrivers
  SplitsOf <- MCSplitsOf
  GroupOf <- MCGroupOf
  NumSplitGroups = 3
  ConcurrentSplitGroups = 1
  MaxPreload = 2
  None = None
SPECIFICATION Spec
CHECK_DEADLOCK FALSE
INVARIANTS
  FinishedIsComplete
  SplitsOnce
  NoForgottenSplit
  PromisesKept
  SlotsSuffice
  RemoteSplitsClosed
PROPERTY TaskEnds
