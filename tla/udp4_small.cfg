CONSTANTS
  EntriesNum = 3
  NULL = NULL
  Encap = "None"
  MaxPayload = 3
  MaxTime = 1
  NbOut = {1, 2}
  Pkts <- SmallPkts
SPECIFICATION FairSpec
INVARIANTS
  TypeOK
  TableWellLinked
  ChainsSorted
  HeadersDescribePayload
PROPERTIES
  FlushMergesContiguous
  ImplementsService
  EveryPacketComesOut
