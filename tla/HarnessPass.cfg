SPECIFICATION Spec
CONSTANTS
  MaxDepth = 1
  RingSize = 2
  Window = 2
  NodeFails = FALSE
  Hangs = FALSE
  Modes = {"oneShot", "oneShotBlind"}
  MaxSent = 1
  DiskFails = FALSE
INVARIANTS PassMeansEmpty
