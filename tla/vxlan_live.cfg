CONSTANTS
  EntriesNum = 3
  NULL = NULL
  Tunnel = "VXLAN"
  SeqSpace = 8
  MaxPayload = 4
  MaxSegs = 2
  MaxTime = 1
  NbOut = {1, 3}
  Pkts <- VxlanPkts
SPECIFICATION FairSpec
INVARIANTS
  NothingLeaks
  LengthsAddUp
PROPERTIES
  ImplementsService
  EveryPacketComesOut
