CONSTANTS
  Char = {a, b, star}
  Star = star
  MaxLen = 4
  Patterns <- MCPatterns
  Names <- MCNames
SPECIFICATION FairSpec
INVARIANTS
  TypeOK
  MatchesMeaning
PROPERTIES
  EveryStepAdvances
  Terminates
CHECK_DEADLOCK FALSE
