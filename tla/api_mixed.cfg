CONSTANTS
  NULL = NULL
  MaxRun = 3
  GroTypes = {"GTP_TCP", "UDP4", "TCP4"}
  NbOut = {2}
  Timeouts = {0, 1}
  Pkts <- MixedPkts
  MaxBurst = 2
  MaxItemNum = 2
  MaxTime = 1
  ClockRange = 8
  CountRange = 16
SPECIFICATION Spec
INVARIANTS
  TypeOK
  OutNeverOverrun
  CompactionSafe
PROPERTIES
  ImplementsService
  FlushHonoursTimeout
  FlushAllEmpties
