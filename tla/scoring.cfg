CONSTANTS
  Trusts <- TrustGrid
  FinalRisks <- RiskGrid
  Spent <- SpentGrid
  Cap = 120
  Recent = 3
  Enough = 2
  Events <- EventGrid
  Similarities <- SimilarityGrid
  Shares = {1, 4}
  ModelScores <- ScoreGrid
  MaxAttempts = 3
  Users = {1, 2}
  LogDevices = {"d1", "d2"}
  Countries = {"in", "sg"}
  Noises <- NoiseGrid
  Blurs <- BlurGrid
  Limits = {0, 2}
  Threshold = 2
  MaxLogins = 3
SPECIFICATION ScoringSpec
INVARIANTS
  HardeningNeverLoosens
  SuspicionIsExplained
  ContributionConfined
PROPERTIES
  WorseIsStricter
CHECK_DEADLOCK FALSE
