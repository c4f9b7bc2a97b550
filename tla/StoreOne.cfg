CONSTANTS
  Ids = {a}
  Texts = {x, y}
  NoText = NoText
  NoId = NoId
  MaxBulk = 1
  MaxOps = 4
  MaxEdits = 1
  MaxCrashes = 1
SPECIFICATION Spec
SYMMETRY Symmetry
CHECK_DEADLOCK FALSE
INVARIANTS
  DriftIsAnnouncedUntilCrash
  DurableMeansCommitted
  AcceptedVersionWasSeen
PROPERTIES
  ReindexHeals
  ImplementsCatalog
