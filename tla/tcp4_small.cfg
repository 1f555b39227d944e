CONSTANTS
  EntriesNum = 2
  NULL = NULL
  Version = 4
  FlagByte = 1
  SeqSpace = 8
  MaxPayload = 3
  MaxSegs = 3
  MaxTime = 1
  NbOut = {1, 3}
  Pkts <- SmallPkts
SPECIFICATION Spec
INVARIANTS
  TypeOK
  LengthsAddUp
PROPERTIES
  ImplementsService
