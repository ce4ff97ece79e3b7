SPECIFICATION ClosureSpec
CONSTANTS
  Invocations = {i1, i2}
  Down = down
  None = none
  Limit = 2
  MaxGeneration = 3
  MaxFlying = 1
  MaxInspections = 2
SYMMETRY Symmetry
INVARIANTS
  Accounted
PROPERTIES
  ClosedToNew
CHECK_DEADLOCK FALSE
