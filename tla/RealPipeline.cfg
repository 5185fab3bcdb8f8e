CONSTANTS
  NumStages = 3
  NumLayers = 4
  MaxWeight = 1
  PromptLength = 2
  MaxTokens = 2
  BaseRequests = 1
  Leaving = 2
  Concurrency <- ModelConcurrency
  MaxBreaks = 1
  MaxRestarts = 1
SPECIFICATION FairSpec
INVARIANTS
  RealPipelineTypeOK
  PlanTilesModel
  CallerKeepsStage
  PassesCoverModel
  CacheMatchesPass
PROPERTY ExperimentEnds
CHECK_DEADLOCK FALSE
