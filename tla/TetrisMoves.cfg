SPECIFICATION TSpec
CONSTANTS
  MAP_WIDTH = 4
  MAP_HEIGHT = 3
  Types <- AllTypes
  MaxBricks = 2
INVARIANTS BoxesConserved
PROPERTIES DrawnFree BrickLands
CHECK_DEADLOCK FALSE
