CONSTANTS
  None = None
  NTracks = 2
  TrackStart <- MCTrackStart
  LeadOut = 3
  Absent = 5
  Modulus = 7
  RepeatCap = 1
  KeepRepeat = 3
  NoRepeatInfo = 4
  PlayArgs <- MCLastTrack
  Files <- MCFiles
  NBlocks = 1
SPECIFICATION Spec
PROPERTY TrackPlayFinishes
