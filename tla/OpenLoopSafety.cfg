SPECIFICATION Spec
CONSTANTS
  Account = {a1}
  NoAccount = NoAccount
  Ahead = 3
  SetupTxs = 1
  MaxNonce = 5
  MaxDrops = 2
  QueuesGaps = TRUE
  Replaces = TRUE
  LosesReplies = TRUE
INVARIANTS TypeOK WindowBound ConfirmedNeverAhead NoSelfInflictedGap Inv
PROPERTIES ImplementsStream RewindsToConfirmed
