CONSTANTS
  NBlocks = 2
  NSelectors = 2
  NULL = NULL
  SectorSizes <- OneWord
  UserDataSize = 4
  Form2Size = 4
  FreeModulus = 16
  HostResetsAll = FALSE
  DirReadFails = TRUE
  Bursts = {1}
  PartitionBound = 8
SPECIFICATION Spec
INVARIANTS Ownership FreeCount StallsOnlyWhenFull
