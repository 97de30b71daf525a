SPECIFICATION FairSpec
CONSTANTS
  MaxRetries = 3
  Window = 6
  Slice = 2
  t1 = t1
  t2 = t2
  Targets <- TwoTargets
  PutOutcomes <- HonestPuts
  FlagMayFail = FALSE
  WarmTicks = 2
  MaxInbox = 1
INVARIANTS
  NoStaleTarget
  StopIsFinal
  LoopInv
PROPERTIES
  ImplementsDiscipline
  FeeReturns
  SelfHeals
