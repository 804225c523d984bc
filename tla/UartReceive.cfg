SPECIFICATION FairSpec
CONSTANTS
  Cap = 3
  MaxBytes = 4
PROPERTIES PrintsStream PrintedInTheEnd
CHECK_DEADLOCK FALSE
