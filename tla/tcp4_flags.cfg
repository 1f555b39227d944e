CONSTANTS
  EntriesNum = 3
  NULL = NULL
  Version = 4
  FlagByte = 1
  SeqSpace = 8
  MaxPayload = 8
  MaxSegs = 3
  MaxTime = 1
  NbOut = {3}
  Pkts <- PushPkts
SPECIFICATION Spec
INVARIANTS
  FlagsKept
