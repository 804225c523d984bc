SPECIFICATION FairSpec
CONSTANTS
  Plays = 3
  Frames = 2
INVARIANTS StopIsQuiet DeviceKept OneDecoder
PROPERTIES QuitReturns SongEnds
CHECK_DEADLOCK FALSE
