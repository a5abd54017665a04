CONSTANTS
  r1 = r1
  r2 = r2
  r3 = r3
  r4 = r4
  k1 = k1
  k2 = k2
  d1 = d1
  Requests = {r1, r3, r4}
  Keys = {k1, k2}
  KeyOf <- KeyOfRequests
  Devices = {d1}
  DeviceOf <- DeviceOfRequests
  NoDevice = NoDevice
  Shared = TRUE
  Retries = 2
  MaxLosers = 2
SPECIFICATION RedisSpec
INVARIANTS
  ContentionIsAbsorbed
  SharedDeviceNoticed
  EveryWriteAccountedFor
PROPERTIES
  NoLostUpdate
  EveryRequestEnds
CHECK_DEADLOCK FALSE
