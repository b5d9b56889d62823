CONSTANTS
  Call = {c1, c2, c3}
SPECIFICATION FairSpec
INVARIANTS
  TypeOK
  NeverStranded
  DialogTellsConnection
  ButtonIsThere
PROPERTIES
  LivePageIsKept
  OnlyLostCircuitsReload
  EventuallyBack
