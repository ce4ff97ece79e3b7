SPECIFICATION BothSpec
CHECK_DEADLOCK FALSE
CONSTANTS
  c1 = c1
  c2 = c2
  c3 = c3
  r1 = r1
  r2 = r2
  o1 = o1
  o2 = o2
  NoOne = NoOne
  Invocations = {c1, c2, c3}
  Requests = {r1, r2}
  RequestOf <- MCRequestOf
  Operations = {o1, o2}
  Digests = {d1, d2}
  MaxInvocations = 2
  MaxFaults = 2
  None = none
INVARIANTS
  OneStart
  SuccessIsOwn
  AcceptedIsFindable
  Qualified
PROPERTY Released
