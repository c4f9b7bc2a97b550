CONSTANTS
  Docs <- MCDocs
  Calls = {w1, w2}
  Clients = {s1}
  Filters <- MCFilters
  PageLimit = 1
  MaxChanges = 3
  MaxClock = 1
SPECIFICATION Spec
CHECK_DEADLOCK FALSE
SYMMETRY Symmetry
INVARIANTS
  PagesCoverOnce
  
