CONSTANTS
  NULL = NULL
  MaxRun = 3
  GroTypes = {"VXLAN_TCP", "GTP_TCP", "TCP4"}
  NbOut = {3}
  Timeouts = {0}
  Pkts <- TunnelPkts
  MaxBurst = 2
  MaxItemNum = 2
  MaxTime = 1
  ClockRange = 8
  CountRange = 16
SPECIFICATION Spec
INVARIANTS
  FlushedAreReturned
