SPECIFICATION FairSpec
CONSTANTS
  Req = {r1, r2}
  Call <- Calls
  MaxConcurrent = 1
  QueueWait = TRUE
  PreferUpstream = FALSE
  Flows <- SlotFlows
  Shapes <- FewShapes
  Answers <- FewAnswers
INVARIANTS
  TypeOK
  SlotsAccounted
  NothingHeldWhenDone
PROPERTY
  CreateIsAnswered
CHECK_DEADLOCK FALSE
