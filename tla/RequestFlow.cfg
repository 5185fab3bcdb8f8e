CONSTANTS
  NumNodes = 2
  NumBlocks = 2
  BlockSize = 2
  PromptLen = 3
  Requests = {r1, r2}
  NumStages = 2
  None = None
  MaxEpoch = 2
  MaxTries = 2
  MaxConns = 2
  MaxFaults = 1
  MaxBeats = 1
SPECIFICATION FairSpec
INVARIANTS
  FlowTypeOK
  StageInputFits
PROPERTIES
  ReadOnce
  FlowEnds
CHECK_DEADLOCK FALSE
