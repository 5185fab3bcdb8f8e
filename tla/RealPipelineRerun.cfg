CONSTANTS
  NumStages = 2
  NumLayers = 2
  MaxWeight = 1
  PromptLength = 2
  MaxTokens = 2
  BaseRequests = 1
  Leaving = 1
  Concurrency <- ModelConcurrency
  MaxBreaks = 0
  MaxRestarts = 0
SPECIFICATION Spec
INVARIANT PositionCountsTokens
CHECK_DEADLOCK FALSE
