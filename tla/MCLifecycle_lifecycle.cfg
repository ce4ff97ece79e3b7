SPECIFICATION FairSpec
CHECK_DEADLOCK FALSE
CONSTANTS
  Operations = {"make", "unmake", "look"}
  KindOf <- MCKindOf
  MaxGateways = 2
  MaxBuilds = 2
  MaxFaults = 1
  None = None
INVARIANT HeldUnlessDone
PROPERTY ChangedAsRequested
PROPERTY Answered
