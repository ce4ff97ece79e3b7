SPECIFICATION Spec
CHECK_DEADLOCK FALSE
CONSTANTS
  Tasks = {t1}
  MaxSamples = 11
  HoldSeconds = 2
  FreshSeconds = 1
  Expiry = 2
  MaxTime = 2
  MaxOthers = 1
INVARIANT InOrder
INVARIANT HeldUntilDown
INVARIANT SamplesSuffice
PROPERTY DispatchedIsApproved
