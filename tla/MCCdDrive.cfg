CONSTANTS
  None = None
  NTracks = 2
  TrackStart <- MCTrackStart
  LeadOut = 3
  Absent = 5
  Modulus = 7
  RepeatCap = 1
  KeepRepeat = 3
  NoRepeatInfo = 4
  PlayArgs <- MCPlayArgs
  Files <- MCFiles
  NBlocks = 2
SPECIFICATION Spec
INVARIANTS TypeOK RegistersBelong
PROPERTIES ChannelSpec PassCount PlayFinishes
