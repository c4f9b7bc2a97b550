CONSTANTS
  p = p
  q = q
  d1 = d1
  d2 = d2
  a = a
  b = b
  Types = {p, q}
  Docs = {d1, d2}
  TypeOf <- MCTypeOf
  Schemas <- MCSchemas
  Invalid = Invalid
  Missing = Missing
  Contents = {c1}
  Garbled = Garbled
  NoRow = NoRow
  NoFp = NoFp
  MaxEdits = 2
SPECIFICATION Spec
SYMMETRY Symmetry
INVARIANTS
  
  SchemasFollowFiles
  
