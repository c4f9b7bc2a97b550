CONSTANTS
  p = p
  q = q
  s1 = s1
  Sids <- MCSids
  Projects <- MCProjects
  Wildcard = Wildcard
  NoProject = NoProject
  NoRole = NoRole
  Inherit = Inherit
  NoToken = NoToken
  Tokens <- MCTokens
  Gone = Gone
  Declarable = {0, 2}
  MaxReloads = 3
SPECIFICATION SessionSpec
CHECK_DEADLOCK FALSE
INVARIANTS
  BoundIsDeclared
  ServedWithinCaps
PROPERTY
  BindingOnlyShrinks
