SPECIFICATION FairSpec
CONSTANTS
  MaxDepth = 0
  RingSize = 1
  Window = 1
  NodeFails = FALSE
  Hangs = TRUE
  Modes = {"oneShot"}
  MaxSent = 0
  DiskFails = FALSE
PROPERTIES DrainIsCapped
