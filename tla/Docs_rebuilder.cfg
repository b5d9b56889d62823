CONSTANTS
  Name <- AllNames
  File <- AllFiles
  Alias <- Aliases
  KindOf <- KindOfAll
  Own <- OwnOfAll
  Globs <- GlobsOfAll
  Rank <- Ranks
  NoFile = NoFile
  NoIndex = NoIndex
  Reader = {t1}
  Rebuilder = {r}
  MaxChanges = 1
  MaxFaults = 1
SPECIFICATION Spec
INVARIANTS
  TypeOK
  AnswersWereMeant
  OwnFileIsShown
  CurrentIndexIsRight
PROPERTIES
  SettledStaysRight
