SPECIFICATION FairSpec
CONSTANTS
  Account = {a1}
  NoAccount = NoAccount
  Ahead = 2
  SetupTxs = 1
  MaxNonce = 4
  MaxDrops = 1
  QueuesGaps = TRUE
  Replaces = FALSE
  LosesReplies = FALSE
PROPERTIES KeepsResuming RunReturns
