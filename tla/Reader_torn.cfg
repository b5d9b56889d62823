CONSTANTS
  Name <- MCName
  Wildcard = "*"
  Begins <- MCBegins
  Principal <- MCPrincipal
  PrincipalName <- MCPrincipalName
  Topic <- MCTopic
  Internal <- MCInternal
  Group <- MCGroup
  Binding <- MCBinding
  Options <- MCOptions
  Clusters <- MCClusters
  NoGraph = NoGraph
  MaxChanges = 3
SPECIFICATION Spec
INVARIANTS
  TypeOK
  TornWithinBounds
  PagesTornWithinBounds
  GraphJoinsNodes
  OneEnvironment
  PagesAgree
