\* Every pair of predicates on the key, at most three shards out of service:
\* with all of a table the modulus is zero.
SPECIFICATION Spec
CONSTANTS
  Modulus = 3
  MaxPredicates = 2
  MaxOff = 3
  Key <- MCKey
  PhysicalName <- MCPhysicalName
  NoValue = NoValue
  NoTarget = NoTarget
  Numeral <- MCNumeral
  Decimal <- MCDecimal
INVARIANTS
  OwnPredicateWins
  CompleteShardsAreRight
  NoKeyNoRoute
  RuleNeverMisroutes
