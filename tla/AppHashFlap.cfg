SPECIFICATION FairSpec
CONSTANTS
  Node = {n1, n2}
  Hash = {x}
  MaxHeight = 2
  Flaps = TRUE
  Hangs = FALSE
PROPERTIES HaltIsNoted
