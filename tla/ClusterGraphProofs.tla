-------------------------- MODULE ClusterGraphProofs --------------------------
(***************************************************************************)
(* Theorems about the filter and the graph builder, for every set of raw   *)
(* facts and every filter configuration.                                   *)
(***************************************************************************)
EXTENDS ClusterGraph, TLAPS

USE DEF KeptOffsets, BuildUsers

LEMMA EdgesGrow ==
  ASSUME NEW acls1, NEW acls2, NEW c1, NEW c2, NEW type, NEW ops,
         acls1 \subseteq acls2, c1 \subseteq c2
  PROVE  Edges(acls1, type, ops, c1) \subseteq Edges(acls2, type, ops, c2)
  BY DEF Edges

(* More facts never take a node or an edge away: in particular an ACL that *)
(* denies removes nothing.                                                 *)
THEOREM BuildIsMonotone ==
  ASSUME NEW raw1, NEW raw2, Within(raw1, raw2)
  PROVE  Subgraph(Build(raw1), Build(raw2))
<1> USE DEF Within
<1>1. Build(raw1).users \subseteq Build(raw2).users
  BY DEF Build
<1>2. /\ Build(raw1).producers \subseteq Build(raw2).producers
      /\ Build(raw1).consumers \subseteq Build(raw2).consumers
      /\ Build(raw1).userGroups \subseteq Build(raw2).userGroups
  BY EdgesGrow DEF Build
<1>3. Build(raw1).groupTopics \subseteq Build(raw2).groupTopics
  BY DEF Build
<1> QED BY <1>1, <1>2, <1>3 DEF Subgraph, Build

(* The filter keeps the order of facts.                                    *)
THEOREM ApplyIsMonotone ==
  ASSUME NEW raw1, NEW raw2, NEW options, Within(raw1, raw2)
  PROVE  Within(Apply(raw1, options), Apply(raw2, options))
  BY DEF Within, Apply

(* The graph of whatever facts is closed: permissions join its nodes.      *)
THEOREM BuildJoinsNodes ==
  ASSUME NEW raw \in RawClusterData
  PROVE  EdgesJoinNodes(Build(raw))
<1>1. \A type, ops, candidates :
        Edges(raw.acls, type, ops, candidates) \subseteq Build(raw).users \X candidates
  BY DEF Edges, Build
<1> QED BY <1>1 DEF EdgesJoinNodes, Build

(* Filtering the facts and then building gives the very graph that         *)
(* building first and then keeping the environment's nodes and edges       *)
(* would: matching an ACL, a prefixed or a wildcard one, against the       *)
(* surviving names only loses no edge and leaks none.                      *)
THEOREM FilterThenBuild ==
  ASSUME NEW raw \in RawClusterData, NEW options \in ClusterFilterOptions
  PROVE  Build(Apply(raw, options)) = EnvironmentPart(Build(raw), options)
<1> DEFINE acls == {a \in raw.acls : KeepsUser(a.principal, options)}
           topics == {t \in raw.topics : KeepsTopic(t, options)}
           groups == {g \in raw.groups : KeepsGroup(g, options)}
           left == Build(Apply(raw, options))
           right == EnvironmentPart(Build(raw), options)
<1>1. \A ops : Edges(acls, "Topic", ops, topics)
        = {e \in Edges(raw.acls, "Topic", ops, raw.topics) :
             KeepsUser(e[1], options) /\ KeepsTopic(e[2], options)}
  <2> TAKE ops
  <2> DEFINE kept == Edges(acls, "Topic", ops, topics)
             all == Edges(raw.acls, "Topic", ops, raw.topics)
  <2>1. ASSUME NEW e \in kept
        PROVE  e \in all /\ KeepsUser(e[1], options) /\ KeepsTopic(e[2], options)
    BY DEF Edges
  <2>2. ASSUME NEW e \in all, KeepsUser(e[1], options), KeepsTopic(e[2], options)
        PROVE  e \in kept
    BY <2>2 DEF Edges
  <2> HIDE DEF kept, all
  <2>3. kept = {e \in all : KeepsUser(e[1], options) /\ KeepsTopic(e[2], options)}
    BY <2>1, <2>2
  <2> QED BY <2>3 DEF kept, all
<1>2. \A ops : Edges(acls, "Group", ops, groups)
        = {e \in Edges(raw.acls, "Group", ops, raw.groups) :
             KeepsUser(e[1], options) /\ KeepsGroup(e[2], options)}
  <2> TAKE ops
  <2> DEFINE kept == Edges(acls, "Group", ops, groups)
             all == Edges(raw.acls, "Group", ops, raw.groups)
  <2>1. ASSUME NEW e \in kept
        PROVE  e \in all /\ KeepsUser(e[1], options) /\ KeepsGroup(e[2], options)
    BY DEF Edges
  <2>2. ASSUME NEW e \in all, KeepsUser(e[1], options), KeepsGroup(e[2], options)
        PROVE  e \in kept
    BY <2>2 DEF Edges
  <2> HIDE DEF kept, all
  <2>3. kept = {e \in all : KeepsUser(e[1], options) /\ KeepsGroup(e[2], options)}
    BY <2>1, <2>2
  <2> QED BY <2>3 DEF kept, all
<1>3. left.users = right.users
  <2>1. {a.principal : a \in acls} = {u \in {a.principal : a \in raw.acls} : KeepsUser(u, options)}
    OBVIOUS
  <2> QED BY <2>1 DEF Build, Apply, EnvironmentPart
<1>4. left.groupTopics = right.groupTopics
  BY DEF Build, Apply, EnvironmentPart
<1>5. /\ left.producers = right.producers
      /\ left.consumers = right.consumers
      /\ left.userGroups = right.userGroups
  BY <1>1, <1>2 DEF Build, Apply, EnvironmentPart
<1> QED BY <1>3, <1>4, <1>5 DEF Build, Apply, EnvironmentPart

(* A user on the deny-list is in the graph neither as a node nor at the    *)
(* end of an edge, whatever prefix list keeps it and whatever grants it.   *)
THEOREM ExcludedNeverAppear ==
  ASSUME NEW raw \in RawClusterData, NEW options \in ClusterFilterOptions,
         NEW u \in Principal, PrincipalName[u] \in options.excludedUsers
  PROVE  /\ u \notin Build(Apply(raw, options)).users
         /\ \A e \in Build(Apply(raw, options)).producers : e[1] # u
         /\ \A e \in Build(Apply(raw, options)).consumers : e[1] # u
         /\ \A e \in Build(Apply(raw, options)).userGroups : e[1] # u
<1>1. ~KeepsUser(u, options)
  BY DEF KeepsUser, IsExcluded
<1> QED BY <1>1, FilterThenBuild DEF EnvironmentPart
==============================================================================
