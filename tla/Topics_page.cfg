CONSTANTS
  orders = orders
  empty = empty
  xyz = xyz
  Topic <- MCTopic
  Text <- MCText
  Contains <- MCContains
  NoText = empty
  Task = {r1, r2}
  MaxSnapshots = 2
  MaxEvents = 2
SPECIFICATION FairSpec
INVARIANTS
  TypeOK
  BusyMeansRefreshing
  TableHasSnapshot
  TableShowsFilter
PROPERTIES
  ScreenNeverGoesBack
  ButtonComesBack
  RefreshNowIsSeen
