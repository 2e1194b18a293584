\* One request: every call, every state of the datasources, growing collections.
SPECIFICATION Spec
CONSTANTS
  Request = {r1}
  Call <- MCCall
  MetaVersion <- MCMetaVersion
  Place <- MCPlace
  Sizes = {0, 2, 3}
  None = None
  NoValue = NoValue
  NoDatasource = NoDatasource
  MaxKeys = 2
  MaxItems = 2
  MaxKeyLength = 8
  DefaultPrefixes = {"demo:"}
  KeyLength <- MCKeyLength
  Wildcard = {"user:*"}
  StartsWith <- MCStartsWith
  Numeral <- MCNumeral
INVARIANTS
  TypeOK
  RunIsInScope
  ReplyIsBounded
  ApprovalStands
PROPERTIES
  GateSpec
