\* All pairs of names of up to five characters, and all imports of up to three
\* rows.
SPECIFICATION Spec
CONSTANTS
  Row <- MCRow
  MaxRows = 3
  Character <- MCCharacter
  SpyPrefix <- MCSpyPrefix
  MaxLength = 5
  IdLength = 5
  NoValue = NoValue
  NoTarget = NoTarget
  Numeral <- MCNumeral
  Decimal <- MCDecimal
  Digits <- MCDecimal
  Stripped <- MCStripped
  DatasourceCode <- MCDatasourceCode
  LogicalTableName <- MCLogicalTableName
  Underscore = 95
  Alnum <- MCAlnum
  Lower <- MCLower
  Unknown <- MCUnknown
  DigestLength = 1
  Digest <- MCDigest
INVARIANTS
  FitsTheColumn
  NamesStayApart
  EveryRowIsReachable
  KeysFindTheirShard
CHECK_DEADLOCK FALSE
