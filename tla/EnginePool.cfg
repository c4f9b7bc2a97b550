CONSTANTS
  Requests = {r1, r2}
  Reloads = {tool, sighup}
  Projects = {p, q}
  NoProject = NoProject
  Dirs = {d1, d2}
  Nowhere = Nowhere
  NoEngine = NoEngine
  MaxEngines = 3
  MaxEdits = 1
SPECIFICATION Spec
CHECK_DEADLOCK FALSE
INVARIANTS
  
  RefcountExact
  RunningIsOpen
PROPERTIES
  ConfigNeverRegresses
  EveryWaiterAnswered
