CONSTANTS
  Nodes = {n1, n2}
  Requests = {r1}
  Handler = Handler
  Warm = Warm
  Cloud = Cloud
  None = None
  MaxRetries = 1
  MaxEvents = 3
SPECIFICATION FairSpec
INVARIANTS
  KVTypeOK
  StrandedIsPending
  CopiesReachOwners
PROPERTIES
  OnlyPlannedLosses
  EverythingSettles
CHECK_DEADLOCK FALSE
