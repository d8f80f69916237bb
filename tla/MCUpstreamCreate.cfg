SPECIFICATION Spec
CONSTANTS
  Req = {r1}
  Call <- Calls
  MaxConcurrent = 0
  QueueWait = TRUE
  PreferUpstream = TRUE
  Flows <- AllFlows
  Shapes <- AllShapes
  Answers <- AllAnswers
INVARIANTS
  RetriesBounded
  FallbackObeysContract
  TimeoutEndsMostCreates
CHECK_DEADLOCK FALSE
