CONSTANTS
  r1 = r1
  r2 = r2
  r3 = r3
  Requests = {r1, r2, r3}
  i1 = i1
  i2 = i2
  a1 = a1
  a2 = a2
  Identities = {i1, i2}
  Assertions = {a1, a2}
  BoundTo <- BoundToOf
  IssuedAt <- IssuedAtOf
  Garbage = Garbage
  NoList = NoList
  Submissions <- SubmissionsOf
  Ttl = 0
  MaxSkew = 0
  Period = 1
  AcceptedMax = 1
  FailureMax = 1
  MaxTime = 1
  MaxRestarts = 1
SPECIFICATION Spec
INVARIANTS
  OnlyVerifiedOutcomes
  SingleUseUnlessRaced
  RefusedForCause
SYMMETRY AnyRequest
CHECK_DEADLOCK FALSE
