\* One request: every call, every metadata version and every change of it.
SPECIFICATION Spec
CONSTANTS
  Request = {r1}
  Call <- MCCall
  MetaVersion <- MCMetaVersion
  Plan <- MCPlan
  TableRows = {3, 8}
  ResultRows = {0, 2, 3, 5}
  PoolSize = 1
  None = None
  NoValue = NoValue
  NoTarget = NoTarget
  Numeral <- MCNumeral
  Decimal <- MCDecimal
INVARIANTS
  TypeOK
  AnswerIsAudited
  AuditTellsTheTruth
  RunIsWhatWasChecked
  ApprovalStands
  RowsAreBounded
  NothingIsTruncated
PROPERTIES
  OnceOnly
