CONSTANTS
  Nodes = {n1, n2}
  NumLayers = 2
  MaxEpoch = 3
SPECIFICATION Spec
SYMMETRY NodeSymmetry
INVARIANTS
  IInv
  ServingPlanReady
  ActivationNeverRefused
  ActiveStageHeld
PROPERTY ImplementsBlueGreen
