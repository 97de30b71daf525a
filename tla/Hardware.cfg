SPECIFICATION HardwareFairSpec
CONSTANTS
  ui = ui
  setup = setup
  rtx = rtx
  radeon = radeon
  core = core
  Callers <- TwoCallers
  Cards <- BothCards
  Series <- Names
  Vram <- Sizes
  Tools = {"nvidia", "amd"}
  Platforms = {"windows", "linux"}
  KillTakes = TRUE
  Logical = 2
  Cores <- OneCore
  Caches <- TwoCaches
INVARIANTS
  HardwareInv
  ListedUnlessTold
PROPERTIES
  ProbeEnds
