SPECIFICATION Spec
CONSTANTS
  MaxTables = 2
  MaxPredicates = 2
  NoValue = NoValue
  NoTarget = NoTarget
  Numeral <- MCNumeral
  Decimal <- MCDecimal
  Heads <- MCHeads
  Tails <- MCTails
  Spelling <- MCSpelling
  Metadata <- MCMetadata
  Names <- MCNames
  KeyLiterals <- MCKeyLiterals
  Remarks <- MCRemarks
  Bounds <- MCBounds
CHECK_DEADLOCK FALSE
INVARIANT EveryTableIsFound
