CONSTANTS
  Nodes = {1, 2, 3}
  NumLayers = 3
  MaxEpoch = 4
  PlanOver <- PlanTable
  MaxEvents = 3
  MayRaise = TRUE
SPECIFICATION FairElasticSpec
INVARIANTS
  ElasticTypeOK
  DivergenceIsPending
PROPERTY JoinsAndDeparturesTakeEffect
CHECK_DEADLOCK FALSE
