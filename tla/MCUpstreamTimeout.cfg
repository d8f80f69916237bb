SPECIFICATION Spec
CONSTANTS
  Req = {r1}
  Call <- Calls
  MaxConcurrent = 0
  QueueWait = FALSE
  PreferUpstream = FALSE
  Flows = {"json"}
  Shapes <- AllShapes
  Answers <- AllAnswers
INVARIANT
  NoRetryAfterTimeout
CHECK_DEADLOCK FALSE
