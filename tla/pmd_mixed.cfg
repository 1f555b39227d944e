CONSTANTS
  MaxRun = 2
  NbStreams = 2
  RxPort <- PairedRx
  TxPort <- PairedTx
  Arrivals <- FourPkts
  NbPktPerBurst = 2
  MAX_PKT_BURST = 3
  BurstItemNum = 4
  CtxItemNum = 4
  GRO_MAX_FLUSH_CYCLES = 3
SPECIFICATION FairSpec
INVARIANTS
  TypeOK
  EveryPacketOnce
  BurstNeverOverrun
  FlushInTime
PROPERTIES
  HeldPacketsLeave
