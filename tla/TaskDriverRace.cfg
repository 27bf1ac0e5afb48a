CONSTANTS
  t1 = t1
  t2 = t2
  d1 = d1
  d2 = d2
  Threads <- TwoThreads
  Drivers <- OneOutput
  OutputDrivers <- OneOutput
  HasPartitionedOutput = TRUE
  MayPause = TRUE
  MayYield = TRUE
  MayBlock = FALSE
  MaySuspend = TRUE
  MayAbort = TRUE
  MayCancelEarly = FALSE
  MaxArmed = 1
  MaxClosures = 2
SPECIFICATION Spec
SYMMETRY ThreadSymmetry
INVARIANTS
  IInv
CHECK_DEADLOCK FALSE
