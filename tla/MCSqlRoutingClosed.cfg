\* Fail closed: a shard out of service.
SPECIFICATION Spec
CONSTANTS
  Modulus = 3
  MaxPredicates = 2
  MaxOff = 2
  Key <- MCKey
  PhysicalName <- MCPhysicalName
  NoValue = NoValue
  NoTarget = NoTarget
  Numeral <- MCNumeral
  Decimal <- MCDecimal
INVARIANT NeverTheWrongShard
