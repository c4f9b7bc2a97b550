CONSTANTS
  case = case
  client = client
  amount = amount
  tags = tags
  owner = owner
  memo = memo
  tier = tier
  parent = parent
  Texts <- MCTexts
  NumOf <- MCNumOf
  NoNum = NoNum
  Within <- MCWithin
  Docs <- MCDocs
  Types = {case, client}
  TypeOf <- MCTypeOf
  AnyType = AnyType
  Names <- MCNames
  Body = Body
  Schema <- MCSchema
  Contents <- MCContents
  NoFile = NoFile
  NoRow = NoRow
SPECIFICATION Spec
INVARIANT
  CountAgreesWithQuery
