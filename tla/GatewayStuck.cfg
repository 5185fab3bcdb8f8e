CONSTANTS
  Streams = {}
  Posts = {p1, p2}
  MaxReplays = 2
  Letters = {1, 2}
  Answers <- ModelAnswers
  MaxOutages = 0
SPECIFICATION FairGatewaySpec
PROPERTY ReopensWhenUp
CHECK_DEADLOCK FALSE
