SPECIFICATION FairSpec
CONSTANTS
  Channels = 2
  Choices = {{}, {"bf"}, {"aed", "vqe"}, {"bf", "resample", "aenc"}}
  MaxFrames = 2
INVARIANTS CaptureIsOpen HeadersTell OffInOrder
PROPERTIES EndsAfterSignal
CHECK_DEADLOCK FALSE
