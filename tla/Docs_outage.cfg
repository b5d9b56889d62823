CONSTANTS
  Name <- TopicNames
  File <- TopicFiles
  Alias <- Aliases
  KindOf <- KindOfTopics
  Own <- OwnOfTopics
  Globs <- GlobsOfTopics
  Rank <- Ranks
  NoFile = NoFile
  NoIndex = NoIndex
  Reader = {t1}
  Rebuilder = {}
  MaxChanges = 0
  MaxFaults = 1
SPECIFICATION Spec
PROPERTIES
  NullOnlyWithoutFile
