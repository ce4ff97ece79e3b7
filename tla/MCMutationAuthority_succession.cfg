SPECIFICATION CastSpec
CHECK_DEADLOCK FALSE
CONSTANTS
  i1 = i1
  i2 = i2
  i3 = i3
  i4 = i4
  i5 = i5
  o1 = o1
  o2 = o2
  o3 = o3
  o4 = o4
  r1 = r1
  r2 = r2
  Null = Null
  Invocations = {i1, i2, i3, i4, i5}
  Requests = {r1, r2}
  Operations = {o1, o2, o3, o4}
  MaxGeneration = 3
  OperationOf <- MCOperation
  BindingOf <- MCBinding
  RequestOf <- MCRequest
INVARIANT TouchedIsReleasedWithSuccess
INVARIANT EffectsFenced
INVARIANT CleanupFresh
INVARIANT DecidedIsRetained
PROPERTY ImplementsExclusiveEpochs
