CONSTANTS
  Calls = {c1, c2}
  Server = Server
  Absent = Absent
  Broken = Broken
  MaxTokens = 3
  MaxRaces = 1
  MaxEdits = 1
SPECIFICATION Spec
CHECK_DEADLOCK FALSE
SYMMETRY Symmetry
INVARIANTS
  MemoryIsFile
  GrantedAuthenticates
  RotationLeavesNoGap
  RevocationSticks
