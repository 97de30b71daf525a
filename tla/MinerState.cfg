SPECIFICATION LaneFairSpec
CONSTANTS
  cpu = cpu
  Lanes <- OneLane
  PauseReasons = {"battery", "thermal"}
  MaxInbox = 3
CHECK_DEADLOCK FALSE
INVARIANTS
  LaneInv
PROPERTIES
  StopEnds
  PausedMoves
