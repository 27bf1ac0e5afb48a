SPECIFICATION Spec
CONSTANTS
  b1 = b1
  b2 = b2
  p1 = p1
  p2 = p2
  Operators = {b1, b2}
  Probers = {p1, p2}
  BuildInput <- MCBuildInput
  ProbeInput <- MCProbeInput
  Partitions = {0, 1}
  MaxSpillLevel = 1
  JoinTypes = {"inner", "left", "right", "anti"}
  CancelledJoins = {"inner"}
  None = None
INVARIANTS
  JoinResult
  TablesExclusive
  BarrierUnshared
  NoLostWaiter
  
  NoStalledWaiter
PROPERTIES
  GroupSpec
  JoinEnds
CHECK_DEADLOCK FALSE
