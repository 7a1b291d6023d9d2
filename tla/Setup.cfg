SPECIFICATION FairSpec
CONSTANTS
  Account = {m, l1, l2}
  Master = m
  None = None
  Files <- MCFiles
  Hangs = TRUE
  MaxDrops = 1
  QueuesGaps = TRUE
  Replaces = FALSE
  LosesReplies = FALSE
INVARIANTS Inv FundedFirst HandsOver PreparedForMix
PROPERTIES SetupReturns
