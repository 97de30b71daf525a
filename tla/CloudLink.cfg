SPECIFICATION FairSpec
CONSTANTS
  MaxCmds = 2
  MaxReleases = 1
  MaxBacklog = 1
INVARIANTS
  AckedWasObeyed
PROPERTIES
  OwnerWins
  FleetSeesIt
