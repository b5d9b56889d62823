CONSTANTS
  orders = orders
  empty = empty
  xyz = xyz
  Topic <- MCTopic
  Text <- MCText
  Contains <- MCContains
  NoText = empty
  Task = {r1}
  MaxSnapshots = 2
  MaxEvents = 1
SPECIFICATION FairSpec
PROPERTIES
  LoadingEnds
