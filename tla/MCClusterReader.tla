---------------------------- MODULE MCClusterReader ----------------------------
(* A small cluster with two environments, "qa" and "dev", and the ACLs     *)
(* that tell the ways of matching apart.                                   *)
EXTENDS ClusterReader

MCTopic == {"qa.orders", "dev.orders", "__offsets"}
MCInternal == {"__offsets"}
MCGroup == {"qa.billing"}
MCName == MCTopic \cup MCGroup \cup {"qa.", "qa-app", "admin", "*"}
MCBegins ==
  {<<n, n>> : n \in MCName} \cup {<<"qa.orders", "qa.">>, <<"qa.billing", "qa.">>}

MCPrincipal == {"User:qa-app", "User:admin"}
MCPrincipalName ==
  [u \in MCPrincipal |-> IF u = "User:qa-app" THEN "qa-app" ELSE "admin"]

Binds(u, type, name, pattern, operation, permission) ==
  [principal |-> u, resourceType |-> type, resource |-> name, pattern |-> pattern,
   operation |-> operation, permission |-> permission]

MCBinding ==
  {Binds("User:qa-app", "Topic", "qa.", "Prefixed", "Write", "Allow"),
   Binds("User:qa-app", "Topic", "*", "Literal", "Read", "Allow"),
   Binds("User:qa-app", "Group", "qa.billing", "Literal", "Read", "Allow"),
   Binds("User:admin", "Topic", "dev.orders", "Literal", "All", "Allow"),
   Binds("User:admin", "Topic", "*", "Literal", "Write", "Deny")}

Empty == [topicPrefixes |-> {}, userPrefixes |-> {}, groupPrefixes |-> {}, excludedUsers |-> {}]

MCOptions ==
  {Empty,
   [Empty EXCEPT !.topicPrefixes = {"qa."}, !.groupPrefixes = {"qa."}],
   [Empty EXCEPT !.excludedUsers = {"admin"}]}

MCClusters ==
  {NoFacts,
   [topics |-> MCTopic, acls |-> MCBinding, groups |-> MCGroup,
    offsets |-> MCGroup \X MCTopic, scram |-> {"User:admin"}]}
==============================================================================
