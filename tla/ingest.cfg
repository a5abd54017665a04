CONSTANTS
  r1 = r1
  r2 = r2
  r3 = r3
  Requests = {r1, r2, r3}
  d1 = d1
  d2 = d2
  Erasures = {d1, d2}
  k1 = k1
  k2 = k2
  IdemKeys = {k1, k2}
  NoIdemKey = NoIdemKey
  NoKey = NoKey
  NoCall = NoCall
  e1 = e1
  e2 = e2
  Events = {e1, e2}
  NoEvent = NoEvent
  i1 = i1
  Identities = {i1}
  About <- AboutOf
  Submissions <- SubmissionsOf
  IdemMax = 1
  MaxCalls = 3
  MaxRestarts = 1
SPECIFICATION Spec
INVARIANTS
  NeverLaundered
  ScoredOnceUnlessEvicted
  ErasedUnlessRaced
  ReadableAfterFirst
SYMMETRY AnyCall
CHECK_DEADLOCK FALSE
