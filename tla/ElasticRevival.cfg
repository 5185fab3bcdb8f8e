CONSTANTS
  Nodes = {1, 2, 3}
  NumLayers = 3
  MaxEpoch = 4
  PlanOver <- PlanTable
  MaxEvents = 2
  MayRaise = FALSE
SPECIFICATION FairElasticSpec
PROPERTY PlanFollowsTopology
CHECK_DEADLOCK FALSE
