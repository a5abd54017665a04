CONSTANTS
  Geos <- HomeOnly
  NoGeo = ""
  Country <- CountryOf
  Hour = 2
  RecoveryCap = 120
  DriftEnabled = TRUE
  TravelCheck = TRUE
  Types <- LoginOnly
  Risks <- LowShifted
  MaxLag = 0
  MaxSteps = 10
  MaxTime = 3
SPECIFICATION Spec
INVARIANTS
  SteadyNeverReviewed
  ShiftIsReviewed
CHECK_DEADLOCK FALSE
