CONSTANTS
  NumNodes = 3
  NumLayers = 2
  LayerBytes = 1
  ExpertBytes = 1
  MaxExperts = 1
  Total = 2
  MaxFlops = 2
  MaxOps = 3
SPECIFICATION Spec
INVARIANTS
  LedgerTypeOK
  NoPhantomMemory
  PlacedIsReserved
  PlanIsProportional
CHECK_DEADLOCK FALSE
