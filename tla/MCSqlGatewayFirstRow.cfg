\* A plan can scan more rows than the policy allows and pass.
SPECIFICATION Spec
CONSTANTS
  Request = {r1}
  Call <- JoinOnly
  MetaVersion <- MCMetaVersion
  Plan <- MCPlan
  TableRows = {3, 8}
  ResultRows = {0, 2, 3, 5}
  PoolSize = 1
  None = None
  NoValue = NoValue
  NoTarget = NoTarget
  Numeral <- MCNumeral
  Decimal <- MCDecimal
INVARIANTS
  EveryPlanRowIsBounded
