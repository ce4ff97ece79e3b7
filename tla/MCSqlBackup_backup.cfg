SPECIFICATION BothSpec
CONSTANTS
  Jobs = {j1, j2, j3}
  None = none
  Retain = 1
  MaxClock = 2
  Attention = {"FAILED", "UNKNOWN"}
  Attempts = 2
  Total = 3
  MaxObservations = 3
SYMMETRY Symmetry
INVARIANTS
  Restorable
  Announced
PROPERTIES
  InterruptedBlocks
