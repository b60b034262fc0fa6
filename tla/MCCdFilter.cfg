CONSTANTS
  NFilters = 2
  None = None
  Modulus = 5
  Address <- MCAddress
  Number = {0, 1}
  Bit = {0, 1}
  ModeSets <- MCModeSets
  Conditions <- MCConditions
  Ranges <- MCRanges
  Sectors <- MCSectors
SPECIFICATION Spec
INVARIANTS TypeOK RangeNeverWraps LastBufferIsDestination
PROPERTIES FirstFilterDecides FilteringEnds
