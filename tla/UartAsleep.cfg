SPECIFICATION Spec
CONSTANTS
  Cap = 3
  MaxBytes = 4
INVARIANTS WokenByHandler
CHECK_DEADLOCK FALSE
