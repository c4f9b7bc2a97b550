CONSTANTS
  a = a
  b = b
  case = case
  client = client
  title = title
  when = when
  tags = tags
  Ids = {a, b}
  NotAnId = NotAnId
  Types = {case, client}
  Unregistered = Unregistered
  Keep = Keep
  Fields = {title, when, tags}
  Schema <- MCSchema
  Inputs <- MCInputs
  HandWritten <- MCHandWritten
  NoFile = NoFile
  NoRow = NoRow
  BulkSize = 2
  MaxSteps = 4
SPECIFICATION Spec
CHECK_DEADLOCK FALSE
INVARIANTS
  IndexMatchesFiles
  
  
