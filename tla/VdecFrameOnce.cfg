SPECIFICATION VSpec
CONSTANTS
  MaxNalus = 4
  QueueSize = 2
  MaxFrmBuf = 4
INVARIANT FrameOnce
