SPECIFICATION Spec
CONSTANTS
  Node = {n1, n2}
  Hash = {x, y}
  MaxHeight = 2
  Flaps = TRUE
  Hangs = TRUE
SYMMETRY Symmetry
INVARIANTS TypeOK DivergenceReported HeightsInOrder
PROPERTIES ImplementsAuditor
