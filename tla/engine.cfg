CONSTANTS
  Geos <- Places
  NoGeo = ""
  Country <- CountryOf
  Hour = 2
  RecoveryCap = 30
  DriftEnabled = TRUE
  TravelCheck = TRUE
  Types <- OneOfEachPolicy
  Risks <- LowMidHigh
  MaxLag = 1
  MaxSteps = 4
  MaxTime = 6
SPECIFICATION Spec
INVARIANTS
  TypeOK
  RecoveryWithinBudget
PROPERTIES
  NoImpossibleTravelAllowed
  ReviewFreezesProfile
CHECK_DEADLOCK FALSE
