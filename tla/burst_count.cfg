CONSTANTS
  NULL = NULL
  MaxRun = 3
  GroTypes = {"VXLAN_UDP", "GTP_UDP", "UDP4"}
  Pkts <- FragmentPkts
  MaxItems = 4
  BurstLimit = 3
  MaxBurst = 4
SPECIFICATION Spec
CHECK_DEADLOCK FALSE
INVARIANTS
  ReturnCountsPackets
