CONSTANTS
  Geos <- HomeOnly
  NoGeo = ""
  Country <- CountryOf
  Hour = 2
  RecoveryCap = 30
  DriftEnabled = TRUE
  TravelCheck = TRUE
  Types <- LoginOnly
  Risks <- AroundCusum
  MaxLag = 0
  MaxSteps = 4
  MaxTime = 7
SPECIFICATION Spec
INVARIANTS
  AlarmHoldsUntilVerified
CHECK_DEADLOCK FALSE
