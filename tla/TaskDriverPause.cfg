CONSTANTS
  t1 = t1
  t2 = t2
  d1 = d1
  d2 = d2
  Threads <- TwoThreads
  Drivers <- TwoDrivers
  OutputDrivers <- OneOutput
  HasPartitionedOutput = FALSE
  MayPause = TRUE
  MayYield = FALSE
  MayBlock = TRUE
  MaySuspend = TRUE
  MayAbort = FALSE
  MayCancelEarly = FALSE
  MaxArmed = 1
  MaxClosures = 2
SPECIFICATION FairSpec
INVARIANTS
  ExclusiveAccess
  PauseQuiesces
  ClosedOnce
  DriverCounts
  NoLostDriver
PROPERTIES
  TerminatedIsFinal
  PauseAnswered
  
CHECK_DEADLOCK FALSE
