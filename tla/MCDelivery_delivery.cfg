SPECIFICATION Spec
CHECK_DEADLOCK FALSE
CONSTANT MaxFaults = 3
INVARIANT ServesAccepted
PROPERTY StagedSpec
PROPERTY Recovers
