CONSTANTS
  Ids = {a, b}
  Texts = {x, y}
  NoText = NoText
  NoId = NoId
  MaxBulk = 2
  MaxOps = 2
  MaxEdits = 0
  MaxCrashes = 1
SPECIFICATION Spec
SYMMETRY Symmetry
CHECK_DEADLOCK FALSE
INVARIANTS
  DurableMeansCommitted
