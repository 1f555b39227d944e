CONSTANTS
  TypeNum = 4
  Creators = {0, 1, 2}
  EntriesNums = {0, 1}
SPECIFICATION CtxSpec
INVARIANTS
  CtxTypeOK
  NothingLeaked
  ReadyTablesExist
