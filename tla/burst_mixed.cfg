CONSTANTS
  NULL = NULL
  MaxRun = 3
  GroTypes = {"GTP_TCP", "GTP_UDP", "TCP4", "UDP4", "TCP6"}
  Pkts <- MixedPkts
  MaxItems = 2
  BurstLimit = 3
  MaxBurst = 4
SPECIFICATION Spec
CHECK_DEADLOCK FALSE
INVARIANTS
  TypeOK
  RoomForHeld
  NothingLeftOnStack
  ReturnCountsSegments
  TunnelOfTable
