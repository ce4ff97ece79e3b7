SPECIFICATION RecoverySpec
CONSTANTS
  d1 = d1
  d2 = d2
  Directories = {d1, d2}
  Offers <- Two
  Pids = {1}
  MaxStarts = 3
  Targets = {t1, t2}
  Evidence = {e1, e2}
  MaxRows = 1
  MaxBackups = 2
  Nobody = none
SYMMETRY Alike
INVARIANTS
  FencedAndReachable
  PhasesTell
  NothingLost
PROPERTIES
  OneProcess
CHECK_DEADLOCK FALSE
