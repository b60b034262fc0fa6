CONSTANTS
  NBlocks = 3
  NSelectors = 1
  NULL = NULL
  SectorSizes <- OneLength
  UserDataSize = 8
  Form2Size = 8
  FreeModulus = 4
  HostResetsAll = TRUE
  DirReadFails = FALSE
  Bursts = {0, 1, 3}
  PartitionBound = 24
SPECIFICATION Spec
INVARIANTS TypeOK TransferInRange NoLeak SizeCoversBlocks
PROPERTIES EndDeletesRequested QueuesSpec RapidCopyAsReads
