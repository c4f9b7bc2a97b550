CONSTANTS
  Calls = {c1, c2}
  NoCall = NoCall
  Sessions = {s1, s2}
  Authed = {s1}
  NoSession = NoSession
  Listeners = {s2}
  Keys = {k}
  NoKey = NoKey
  Concurrent = 1
SPECIFICATION Spec
CHECK_DEADLOCK FALSE
INVARIANTS
  SlotsExact
  KeyedWriteOnce
  AttributedToCaller
  CleanExitCutsNoWrite
PROPERTIES
  EveryCallAnswered
  ShutdownEndsIfClientsLeave
