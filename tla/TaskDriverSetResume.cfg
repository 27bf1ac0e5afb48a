CONSTANTS
  t1 = t1
  t2 = t2
  d1 = d1
  d2 = d2
  Threads <- TwoThreads
  Drivers <- TwoDrivers
  OutputDrivers <- OneOutput
  HasPartitionedOutput = FALSE
  MayPause = FALSE
  MayYield = FALSE
  MayBlock = TRUE
  MaySuspend = FALSE
  MayAbort = TRUE
  MayCancelEarly = FALSE
  MaxArmed = 1
  MaxClosures = 2
SPECIFICATION Spec
SYMMETRY ThreadSymmetry
INVARIANTS
  ResumeArmedOffThread
CHECK_DEADLOCK FALSE
