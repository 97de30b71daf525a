SPECIFICATION AuditSpec
CONSTANTS
  MaxRetries = 3
  Window = 8
  Slice = 3
  PutOutcomes <- HonestPuts
INVARIANTS
  ReturnBounded
  ChargedOnlyWhileMining
  FeeWithinSchedule
  LedgerExact
