CONSTANTS
  NBlocks = 3
  NSelectors = 1
  NULL = NULL
  SectorSizes <- OneLength
  UserDataSize = 8
  Form2Size = 8
  FreeModulus = 4
  HostResetsAll = TRUE
  DirReadFails = FALSE
  Bursts = {1}
  PartitionBound = 24
SPECIFICATION Spec
PROPERTY ReadsRequestedSectors
