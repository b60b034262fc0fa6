SPECIFICATION Spec
CONSTANTS
  N = 3
  S = 2
  Delay = 2
  Batch <- MCBatch
INVARIANTS
  TypeOK
  Intact
PROPERTY BufferedIsPlayed
