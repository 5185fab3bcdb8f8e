CONSTANTS
  Streams = {s1}
  Posts = {p1}
  MaxReplays = 2
  Letters = {1, 2}
  Answers <- ModelAnswers
  MaxOutages = 1
SPECIFICATION FairGatewaySpec
INVARIANTS
  GatewayInv
  StreamsAreFaithful
  DownIsWatched
PROPERTIES
  RequestsEnd
  ReopensWhileWatched
CHECK_DEADLOCK FALSE
