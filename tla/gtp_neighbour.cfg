CONSTANTS
  EntriesNum = 3
  NULL = NULL
  Tunnel = "GTP"
  SeqSpace = 8
  MaxPayload = 8
  MaxSegs = 3
  MaxTime = 1
  NbOut = {4}
  Pkts <- FragmentablePkts
SPECIFICATION Spec
PROPERTIES
  NeighboursMerge
