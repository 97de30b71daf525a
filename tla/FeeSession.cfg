SPECIFICATION SessionSpec
CONSTANTS
  MaxRetries = 3
  Tick = 10
  MaxWindows = 4
INVARIANTS
  AtMostFourPercent
  ExactlyFourPercent
  AffiliateAtMostHalf
  AffiliateExact
