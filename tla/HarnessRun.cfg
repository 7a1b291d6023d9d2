SPECIFICATION FairSpec
CONSTANTS
  MaxDepth = 1
  RingSize = 2
  Window = 2
  NodeFails = TRUE
  Hangs = TRUE
  Modes = {"oneShot", "oneShotBlind", "continuousBlind"}
  MaxSent = 2
  DiskFails = TRUE
INVARIANTS TypeOK Inv PeakIsHighest VerdictMeasured ReportsMatch CountsAddUp
PROPERTIES DrainedTwice ImplementsJournal FinalReportWritten
