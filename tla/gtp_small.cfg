CONSTANTS
  EntriesNum = 3
  NULL = NULL
  Tunnel = "GTP"
  SeqSpace = 8
  MaxPayload = 3
  MaxSegs = 2
  MaxTime = 1
  NbOut = {2}
  Pkts <- SmallPkts
SPECIFICATION Spec
INVARIANTS
  TypeOK
  TableWellLinked
  OneFlowPerKey
  ItemsDescribeChains
  PacketsInTheirFlow
PROPERTIES
  FlushTakesAllDueFronts
  ImplementsService
