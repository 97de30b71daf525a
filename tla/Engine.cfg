SPECIFICATION FairSpec
CONSTANTS
  old = old
  new = new
  p1 = p1
  p2 = p2
  Pins <- TwoPins
  Pools <- TwoPools
  primary <- FirstPool
INVARIANTS
  RunsPinned
  PaysOneSide
PROPERTIES
  KeepsAMiner
  EngineComes
