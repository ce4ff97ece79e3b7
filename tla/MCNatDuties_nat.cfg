SPECIFICATION CastSpec
CHECK_DEADLOCK FALSE
CONSTANTS
  NoIntent = NoIntent
  Duties = {"assign_eip", "change_rt", "disable_sdc"}
  Instances = 2
  MaxInvocations = 2
  MaxFaults = 3
  DevGuard = TRUE
INVARIANT ObservedStands
INVARIANT DutiesIndependent
PROPERTY SuccessCertifies
PROPERTY Recovered
