SPECIFICATION Spec
CONSTANTS
  None = None
  a = a
  b = b
  NoFile = NoFile
  Owners <- AAndB
  Holdings <- MayHold
  MaxClaims = 2
  StopsService = FALSE
INVARIANT PaysWhoClaimed
