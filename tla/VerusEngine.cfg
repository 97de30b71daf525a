SPECIFICATION FairSpec
CONSTANTS
  Worker = {w1}
  Space = 1
  MaxSession = 2
  MaxJobs = 1
  MaxRetarget = 1
  MaxQueue = 1
INVARIANTS
  CaughtUp
  LinkDownIsOurs
PROPERTIES
  Stops
  Recovers
