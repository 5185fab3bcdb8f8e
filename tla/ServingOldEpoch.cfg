CONSTANTS
  Nodes = {n1, n2}
  Requests = {r1}
  NumLayers = 2
  MaxEpoch = 2
  MaxRetries = 1
  Strict = {n1, n2}
SPECIFICATION ServingSpec
PROPERTY OldRequestsAreServed
