SPECIFICATION FairSpec
CHECK_DEADLOCK FALSE
CONSTANTS
  r1 = r1
  r2 = r2
  Null = Null
  Releases = {r1, r2}
  First = r1
  Count = 2
  MaxGeneration = 3
  MaxFaults = 1
  MaxTakeovers = 1
  Drained = TRUE
INVARIANT ServesActivated
INVARIANT EmergencyPossible
PROPERTY RemovesOwnSchedule
PROPERTY ScheduledIsCleaned
