SPECIFICATION FairSpec
CONSTANTS
  None = None
  a = a
  b = b
  NoFile = NoFile
  Owners <- AAndB
  Holdings <- MayHold
  MaxClaims = 2
  StopsService = TRUE
INVARIANTS
  PayoutInv
PROPERTIES
  KeepsMining
  FollowsAccount
  DoctorForetells
