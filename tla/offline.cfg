CONSTANTS
  x1 = x1
  x2 = x2
  Exports = {x1, x2}
  SchemaOf <- SchemaOfExports
  Schema = "v11"
  Pods = {p1}
  Envs <- Environments
  HasEd25519 = TRUE
  DataSets <- DATASETS
  Nothing = Nothing
  Times = {1, 2, 3}
  Contents <- ContentGrid
  Cut = 2
  InnerCut = 1
  NegSample = 1
  Seeds = {1, 2}
  Seed = 1
  TrainReps = 1
  ImpostorReps = 1
  MaxData = 4
  RowKinds <- KindGrid
  TableScores = {1, 2, 4}
  Top = 4
  Bins = 2
  Targets <- TargetGrid
  Rates <- RateGrid
  CostFP = 17
  Ratios = {2, 10}
  Budgets = {1, 2}
  NegCap = 1
  MaxRows = 5
  MaxDrawn = 3
SPECIFICATION OfflineSpec
INVARIANTS
  ServedAsDescribed
  ServesAsConfigured
  FetchedWhole
  TestLabelsUnseen
  NoLookAhead
  PointsAreBest
  PopulationMetrics
CHECK_DEADLOCK FALSE
