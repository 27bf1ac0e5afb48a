CONSTANTS
  t1 = t1
  t2 = t2
  d1 = d1
  d2 = d2
  Threads <- TwoThreads
  Drivers <- TwoDrivers
  OutputDrivers <- OneOutput
  HasPartitionedOutput = FALSE
  MayPause = TRUE
  MayYield = TRUE
  MayBlock = FALSE
  MaySuspend = FALSE
  MayAbort = TRUE
  MayCancelEarly = FALSE
  MaxArmed = 1
  MaxClosures = 2
SPECIFICATION Spec
SYMMETRY ThreadSymmetry
INVARIANTS
  NoDoubleEnqueue
CHECK_DEADLOCK FALSE
