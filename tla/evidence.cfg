CONSTANTS
  r1 = r1
  r2 = r2
  r3 = r3
  r4 = r4
  k1 = k1
  k2 = k2
  d1 = d1
  Requests = {r1, r2, r4}
  Keys = {k1, k2}
  KeyOf <- KeyOfRequests
  Devices = {d1}
  DeviceOf <- DeviceOfRequests
  NoDevice = NoDevice
  Shared = FALSE
  Retries = 2
  MaxLosers = 0
  AttestationOf <- AttestationOfRequests
  AssertionOf <- AssertionOfRequests
  NoToken = NoToken
  Benign = {r1, r2}
  Skew = 0
  MaxTime = 2
SPECIFICATION EvidenceSpec
INVARIANTS
  NonceOnceUnlessRaced
  BelievedForCause
  DiscountedOnFirstContact
PROPERTIES
  ImplementsAtomicUpdates
CHECK_DEADLOCK FALSE
