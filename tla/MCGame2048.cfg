SPECIFICATION Spec
CONSTANTS
  SIZE = 2
  MaxWeight = 128
INVARIANTS OverIffStuck SlideByRules
PROPERTIES MovesByRules
CHECK_DEADLOCK FALSE
