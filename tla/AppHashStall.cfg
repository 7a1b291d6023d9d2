SPECIFICATION FairSpec
CONSTANTS
  Node = {n1, n2}
  Hash = {x}
  MaxHeight = 2
  Flaps = FALSE
  Hangs = TRUE
INVARIANTS Clock EveryNodeCompared HeldBySlowest
PROPERTIES NoFalseStall HaltIsNoted EveryHeightCompared CollectorQuits
