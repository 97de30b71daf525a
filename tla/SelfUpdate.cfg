SPECIFICATION FairSpec
CONSTANTS
  MaxVersion = 2
  MaxPendingBoots = 2
  MaxLost = 1
  Broken <- FirstIsBroken
INVARIANTS
  UpdateInv
  BoundedTries
PROPERTY Converges
