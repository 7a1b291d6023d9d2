SPECIFICATION FairSpec
CONSTANTS
  Targets <- MCTargets
  Files <- Deployments
  MaxRefresh = 2
  NoKind = NoKind
INVARIANTS Inv OnlyWithContracts WeightsFollowTargets StartsCleanly TipNotStale
PROPERTIES NoKindStarves
