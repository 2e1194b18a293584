\* Two requests compete for one connection, with failures and crashes: both
\* implement AuditedGate, each ends, each connection returns.
SPECIFICATION FairSpec
CONSTANTS
  Request = {r1, r2}
  Call <- FewCalls
  MetaVersion <- FewVersions
  Plan <- GoodPlan
  TableRows = {3}
  ResultRows = {2, 5}
  PoolSize = 1
  None = None
  NoValue = NoValue
  NoTarget = NoTarget
  Numeral <- MCNumeral
  Decimal <- MCDecimal
INVARIANTS
  PoolIsSound
PROPERTIES
  GateSpec
  EveryRequestEnds
  ConnectionsReturn
