----------------------------- MODULE ClusterGraph -----------------------------
(***************************************************************************)
(* From the raw facts of a cluster to the graph that Kafdoc serves: the    *)
(* environment filter (RawClusterDataFilter) and the producer/consumer     *)
(* graph (ClusterGraphBuilder), both pure functions of their input.        *)
(*                                                                         *)
(* Names of topics, groups and users and the prefixes they are matched     *)
(* against are elements of Name; what StartsWith says of two of them is    *)
(* the relation Begins.  Lists are sets: nothing below depends on their    *)
(* order.  Partition counts, group states and member counts are carried    *)
(* along unchanged by the code and left out.                               *)
(***************************************************************************)

CONSTANTS
  Name,             \* topic names, group ids, user names, prefixes
  Wildcard,         \* "*" as the name in an ACL
  Begins,           \* <<n, p>> \in Begins iff n.StartsWith(p)
  Principal,        \* principals, as the brokers write them
  PrincipalName     \* a principal without a leading "User:"

ASSUME NamesAssumption ==
  /\ Wildcard \in Name
  /\ Begins \subseteq Name \X Name
  /\ \A n \in Name : <<n, n>> \in Begins
  /\ PrincipalName \in [Principal -> Name]

Acl == [principal : Principal,
        resourceType : {"Topic", "Group", "Cluster", "Other"},
        resource : Name,
        pattern : {"Literal", "Prefixed", "Other"},
        operation : {"Read", "Write", "All", "Other"},
        permission : {"Allow", "Deny", "Other"}]

(* The facts of a cluster: a pair <<g, t>> of offsets says that group g    *)
(* has committed offsets in topic t.                                       *)
RawClusterData ==
  [topics : SUBSET Name, acls : SUBSET Acl, groups : SUBSET Name,
   offsets : SUBSET (Name \X Name), scram : SUBSET Principal]

ClusterFilterOptions ==
  [topicPrefixes : SUBSET Name, userPrefixes : SUBSET Name,
   groupPrefixes : SUBSET Name, excludedUsers : SUBSET Name]

------------------------------------------------------------------------------
(* RawClusterDataFilter                                                    *)

Matches(value, prefixes) ==
  prefixes = {} \/ \E p \in prefixes : <<value, p>> \in Begins

IsExcluded(principal, options) == PrincipalName[principal] \in options.excludedUsers

KeepsUser(principal, options) ==
  /\ Matches(PrincipalName[principal], options.userPrefixes)
  /\ ~IsExcluded(principal, options)

KeepsGroup(group, options) == Matches(group, options.groupPrefixes)

KeepsTopic(topic, options) == Matches(topic, options.topicPrefixes)

(* Mutant: a group keeps the topics of other environments it consumes.     *)
MutantKeptOffsets(offsets, options) == {o \in offsets : KeepsGroup(o[1], options)}

(* A group's consumed topics are cut down to the environment's as well.    *)
KeptOffsets(offsets, options) ==
  {o \in offsets : KeepsGroup(o[1], options) /\ KeepsTopic(o[2], options)}

Apply(raw, options) ==
  [topics |-> {t \in raw.topics : KeepsTopic(t, options)},
   acls |-> {a \in raw.acls : KeepsUser(a.principal, options)},
   groups |-> {g \in raw.groups : KeepsGroup(g, options)},
   offsets |-> KeptOffsets(raw.offsets, options),
   scram |-> {u \in raw.scram : KeepsUser(u, options)}]

------------------------------------------------------------------------------
(* ClusterGraphBuilder                                                     *)

(* Any pattern that is not a prefix is taken for a literal one.            *)
MatchesResource(acl, candidate) ==
  \/ acl.pattern = "Prefixed" /\ <<candidate, acl.resource>> \in Begins
  \/ acl.pattern # "Prefixed" /\ acl.resource \in {Wildcard, candidate}

Grants(acl, resourceType, operations, candidate) ==
  /\ acl.permission = "Allow"
  /\ acl.resourceType = resourceType
  /\ acl.operation \in operations
  /\ MatchesResource(acl, candidate)

(* The edges of one kind: who may do one of the operations on what.        *)
Edges(acls, resourceType, operations, candidates) ==
  {e \in Principal \X candidates :
     \E a \in acls : a.principal = e[1] /\ Grants(a, resourceType, operations, e[2])}

(* Mutant: only principals with SCRAM credentials are users.               *)
MutantBuildUsers(acls, scram) == scram

(* Every principal of an ACL is a user, of a denying one too, with or      *)
(* without credentials of its own.                                         *)
BuildUsers(acls, scram) == {a.principal : a \in acls} \cup scram

Build(raw) ==
  [topics |-> raw.topics,
   users |-> BuildUsers(raw.acls, raw.scram),
   scram |-> raw.scram,
   groups |-> raw.groups,
   producers |-> Edges(raw.acls, "Topic", {"Write", "All"}, raw.topics),
   consumers |-> Edges(raw.acls, "Topic", {"Read", "All"}, raw.topics),
   userGroups |-> Edges(raw.acls, "Group", {"Read", "All"}, raw.groups),
   groupTopics |-> {o \in raw.offsets : o[1] \in raw.groups}]

------------------------------------------------------------------------------
(* Orders on facts and on graphs, for the properties.                      *)

Within(raw1, raw2) ==
  /\ raw1.topics \subseteq raw2.topics
  /\ raw1.acls \subseteq raw2.acls
  /\ raw1.groups \subseteq raw2.groups
  /\ raw1.offsets \subseteq raw2.offsets
  /\ raw1.scram \subseteq raw2.scram

Subgraph(graph1, graph2) ==
  /\ graph1.topics \subseteq graph2.topics
  /\ graph1.users \subseteq graph2.users
  /\ graph1.scram \subseteq graph2.scram
  /\ graph1.groups \subseteq graph2.groups
  /\ graph1.producers \subseteq graph2.producers
  /\ graph1.consumers \subseteq graph2.consumers
  /\ graph1.userGroups \subseteq graph2.userGroups
  /\ graph1.groupTopics \subseteq graph2.groupTopics

(* The part of a graph that belongs to the configured environment.         *)
EnvironmentPart(graph, options) ==
  [topics |-> {t \in graph.topics : KeepsTopic(t, options)},
   users |-> {u \in graph.users : KeepsUser(u, options)},
   scram |-> {u \in graph.scram : KeepsUser(u, options)},
   groups |-> {g \in graph.groups : KeepsGroup(g, options)},
   producers |-> {e \in graph.producers : KeepsUser(e[1], options) /\ KeepsTopic(e[2], options)},
   consumers |-> {e \in graph.consumers : KeepsUser(e[1], options) /\ KeepsTopic(e[2], options)},
   userGroups |-> {e \in graph.userGroups : KeepsUser(e[1], options) /\ KeepsGroup(e[2], options)},
   groupTopics |-> {e \in graph.groupTopics : KeepsGroup(e[1], options) /\ KeepsTopic(e[2], options)}]

(* Every permission edge joins two nodes of the graph, and every           *)
(* consumption edge leaves from one.                                       *)
EdgesJoinNodes(graph) ==
  /\ graph.producers \subseteq graph.users \X graph.topics
  /\ graph.consumers \subseteq graph.users \X graph.topics
  /\ graph.userGroups \subseteq graph.users \X graph.groups
  /\ \A e \in graph.groupTopics : e[1] \in graph.groups
==============================================================================
