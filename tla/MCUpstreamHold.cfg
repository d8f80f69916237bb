SPECIFICATION FairSpec
CONSTANTS
  Req = {r1}
  Call <- Calls
  MaxConcurrent = 1
  QueueWait = FALSE
  PreferUpstream = FALSE
  Flows = {"proxy"}
  Shapes <- FewShapes
  Answers <- FewAnswers
PROPERTY
  CreateIsAnswered
CHECK_DEADLOCK FALSE
