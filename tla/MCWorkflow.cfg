SPECIFICATION FairSpec
CONSTANTS
  w1 = w1
  w2 = w2
  t1 = t1
  t2 = t2
  None = None
  Workflows = {w1, w2}
  Events <- Published
  Drafts <- SomeDrafts
  Holds <- Satisfies
  HandsName = TRUE
  MaxEdits = 1
  MaxFaults = 2
INVARIANTS
  WorkflowTypeOK
  RepeatedOnlyAfterStall
  NotifiesOwnTenant
  OneVersionIsRun
PROPERTIES
  MatchedIsHandled
CHECK_DEADLOCK FALSE
