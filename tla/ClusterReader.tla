----------------------------- MODULE ClusterReader -----------------------------
(***************************************************************************)
(* One ReadAsync after another against a cluster that does not stand still *)
(* while it is read, and the filter and the builder on what each returns.  *)
(*                                                                         *)
(* ReadAsync asks for topics, ACLs, the list of groups, their              *)
(* descriptions, the offsets of one group after the other, and the SCRAM   *)
(* users, each with a call of its own; between two calls anything may be   *)
(* created, granted, committed or deleted.  The graph is torn, then, and   *)
(* the question is how far from the truth it can be.                       *)
(***************************************************************************)
EXTENDS ClusterQueries, Naturals

CONSTANTS
  Topic,        \* names of topics
  Internal,     \* the topics whose name begins with "__"
  Group,        \* ids of consumer groups
  Binding,      \* the ACLs that may be granted
  Options,      \* the filter configurations
  Clusters,     \* the facts a run may start from
  NoGraph,      \* no graph was built yet
  MaxChanges    \* bound: how often the cluster changes

(* Offsets are committed by groups that exist.                            *)
Facts == {c \in RawClusterData : \A o \in c.offsets : o[1] \in c.groups}

ASSUME ReaderAssumption ==
  /\ Internal \subseteq Topic
  /\ Topic \subseteq Name
  /\ Group \subseteq Name
  /\ Binding \subseteq Acl
  /\ Options \subseteq ClusterFilterOptions
  /\ Clusters \subseteq Facts
  /\ MaxChanges \in Nat

VARIABLES
  cluster,      \* the facts as they are
  changes,      \* how often they changed
  options,      \* the configured filter
  step,         \* the call ReadAsync is at
  raw,          \* what it has read so far
  listed,       \* the groups that ListConsumerGroupsAsync returned
  asked,        \* those whose offsets were asked for
  graph,        \* the graph built from the last read
  always,       \* history: the facts that held ever since the read began
  ever          \* history: the facts that held at any time since

read == <<step, raw, listed, asked, graph>>
vars == <<cluster, changes, options, read, always, ever>>

NoFacts == [topics |-> {}, acls |-> {}, groups |-> {}, offsets |-> {}, scram |-> {}]

Union2(facts1, facts2) ==
  [topics |-> facts1.topics \cup facts2.topics,
   acls |-> facts1.acls \cup facts2.acls,
   groups |-> facts1.groups \cup facts2.groups,
   offsets |-> facts1.offsets \cup facts2.offsets,
   scram |-> facts1.scram \cup facts2.scram]

Common(facts1, facts2) ==
  [topics |-> facts1.topics \cap facts2.topics,
   acls |-> facts1.acls \cap facts2.acls,
   groups |-> facts1.groups \cap facts2.groups,
   offsets |-> facts1.offsets \cap facts2.offsets,
   scram |-> facts1.scram \cap facts2.scram]

(* What a reader that saw exactly these facts would publish.               *)
GraphOf(facts) ==
  Build(Apply([facts EXCEPT !.topics = @ \ Internal], options))

Steps == {"idle", "topics", "acls", "list", "describe", "offsets", "scram", "build"}

TypeOK ==
  /\ cluster \in Facts
  /\ changes \in 0 .. MaxChanges
  /\ options \in Options
  /\ step \in Steps
  /\ raw \in RawClusterData
  /\ listed \subseteq Name
  /\ asked \subseteq listed
  /\ always \in Facts
  /\ ever \in Facts

Init ==
  /\ cluster \in Clusters
  /\ changes = 0
  /\ options \in Options
  /\ step = "idle"
  /\ raw = NoFacts
  /\ listed = {}
  /\ asked = {}
  /\ graph = NoGraph
  /\ always = cluster
  /\ ever = cluster

------------------------------------------------------------------------------
(* The cluster.                                                            *)

Becomes(facts) ==
  /\ changes < MaxChanges
  /\ changes' = changes + 1
  /\ cluster' = facts
  /\ IF step = "idle"
       THEN UNCHANGED <<always, ever>>
       ELSE /\ always' = Common(always, facts)
            /\ ever' = Union2(ever, facts)
  /\ UNCHANGED <<options, read>>

CreateTopic(t) ==
  /\ t \notin cluster.topics
  /\ Becomes([cluster EXCEPT !.topics = @ \cup {t}])

(* The brokers expire the offsets committed in a deleted topic later.      *)
DeleteTopic(t) ==
  /\ t \in cluster.topics
  /\ Becomes([cluster EXCEPT !.topics = @ \ {t}])

Grant(a) ==
  /\ a \notin cluster.acls
  /\ Becomes([cluster EXCEPT !.acls = @ \cup {a}])

Revoke(a) ==
  /\ a \in cluster.acls
  /\ Becomes([cluster EXCEPT !.acls = @ \ {a}])

CommitOffset(g, t) ==
  /\ t \in cluster.topics
  /\ <<g, t>> \notin cluster.offsets
  /\ Becomes([cluster EXCEPT !.groups = @ \cup {g}, !.offsets = @ \cup {<<g, t>>}])

ExpireOffset(o) ==
  /\ o \in cluster.offsets
  /\ Becomes([cluster EXCEPT !.offsets = @ \ {o}])

DeleteGroup(g) ==
  /\ g \in cluster.groups
  /\ Becomes([cluster EXCEPT !.groups = @ \ {g},
                             !.offsets = {o \in @ : o[1] # g}])

CreateScramUser(u) ==
  /\ u \notin cluster.scram
  /\ Becomes([cluster EXCEPT !.scram = @ \cup {u}])

DeleteScramUser(u) ==
  /\ u \in cluster.scram
  /\ Becomes([cluster EXCEPT !.scram = @ \ {u}])

ClusterChanges ==
  \/ \E t \in Topic : CreateTopic(t) \/ DeleteTopic(t)
  \/ \E a \in Binding : Grant(a) \/ Revoke(a)
  \/ \E g \in Group, t \in Topic : CommitOffset(g, t) \/ ExpireOffset(<<g, t>>)
  \/ \E g \in Group : DeleteGroup(g)
  \/ \E u \in Principal : CreateScramUser(u) \/ DeleteScramUser(u)

------------------------------------------------------------------------------
(* ReadAsync.                                                              *)

Begin ==
  /\ step = "idle"
  /\ step' = "topics"
  /\ raw' = NoFacts
  /\ listed' = {}
  /\ asked' = {}
  /\ graph' = NoGraph
  /\ always' = cluster
  /\ ever' = cluster
  /\ UNCHANGED <<cluster, changes, options>>

world == <<cluster, changes, options, always, ever>>

ReadTopics ==
  /\ step = "topics"
  /\ raw' = [raw EXCEPT !.topics = cluster.topics \ Internal]
  /\ step' = "acls"
  /\ UNCHANGED <<world, listed, asked, graph>>

ReadAcls ==
  /\ step = "acls"
  /\ raw' = [raw EXCEPT !.acls = cluster.acls]
  /\ step' = "list"
  /\ UNCHANGED <<world, listed, asked, graph>>

(* Mutant: the early return leaves the SCRAM users out too.                *)
MutantListGroups ==
  /\ step = "list"
  /\ listed' = cluster.groups
  /\ step' = IF cluster.groups = {} THEN "build" ELSE "describe"
  /\ UNCHANGED <<world, raw, asked, graph>>

(* Without any group the two calls about groups are left out.  A listing   *)
(* is taken to be whole or an exception: of listing.Valid the code asks    *)
(* for no more, and whether a broker that fails makes it shorter is up to  *)
(* the client library.                                                     *)
ListGroups ==
  /\ step = "list"
  /\ listed' = cluster.groups
  /\ step' = IF cluster.groups = {} THEN "scram" ELSE "describe"
  /\ UNCHANGED <<world, raw, asked, graph>>

(* A group deleted since it was listed is still described, as dead.        *)
DescribeGroups ==
  /\ step = "describe"
  /\ raw' = [raw EXCEPT !.groups = listed]
  /\ step' = "offsets"
  /\ UNCHANGED <<world, listed, asked, graph>>

(* The offsets of one listed group, then of the next, in no known order.   *)
ListOffsets(g) ==
  /\ step = "offsets"
  /\ g \in listed \ asked
  /\ raw' = [raw EXCEPT !.offsets = @ \cup {o \in cluster.offsets : o[1] = g}]
  /\ asked' = asked \cup {g}
  /\ step' = IF asked' = listed THEN "scram" ELSE "offsets"
  /\ UNCHANGED <<world, listed, graph>>

(* Mutant: the names are not made principals.                              *)
MutantReadScramUsers ==
  /\ step = "scram"
  /\ raw' = [raw EXCEPT !.scram = {PrincipalName[u] : u \in cluster.scram}]
  /\ step' = "build"
  /\ UNCHANGED <<world, listed, asked, graph>>

ReadScramUsers ==
  /\ step = "scram"
  /\ raw' = [raw EXCEPT !.scram = cluster.scram]
  /\ step' = "build"
  /\ UNCHANGED <<world, listed, asked, graph>>

(* RefreshAsync's next two calls, on the data that ReadAsync returned.     *)
FilterAndBuild ==
  /\ step = "build"
  /\ graph' = Build(Apply(raw, options))
  /\ step' = "idle"
  /\ UNCHANGED <<world, raw, listed, asked>>

(* A call that fails, or a cancellation between two parts, ends the read.  *)
Abandon ==
  /\ step \notin {"idle", "build"}
  /\ step' = "idle"
  /\ UNCHANGED <<world, raw, listed, asked, graph>>

ReadAsync ==
  \/ Begin \/ ReadTopics \/ ReadAcls \/ ListGroups \/ DescribeGroups
  \/ \E g \in Name : ListOffsets(g)
  \/ ReadScramUsers \/ FilterAndBuild \/ Abandon

Next == ClusterChanges \/ ReadAsync

Spec == Init /\ [][Next]_vars

------------------------------------------------------------------------------
Built == step = "idle" /\ graph # NoGraph

(* What has been read of each part lies between what held all through the  *)
(* read and what held at some time during it; of the offsets, what the     *)
(* groups asked so far had.                                                *)
ReadSoFar ==
  /\ step # "idle" =>
       Within(always, cluster) /\ Within(cluster, ever) /\ graph = NoGraph
  /\ step \in Steps \ {"idle", "topics"} =>
       /\ always.topics \ Internal \subseteq raw.topics
       /\ raw.topics \subseteq ever.topics \ Internal
  /\ step \in Steps \ {"idle", "topics", "acls"} =>
       always.acls \subseteq raw.acls /\ raw.acls \subseteq ever.acls
  /\ step \in {"describe", "offsets", "scram", "build"} =>
       always.groups \subseteq listed /\ listed \subseteq ever.groups
  /\ step \in {"offsets", "scram", "build"} => raw.groups = listed
  /\ step # "idle" =>
       /\ raw.offsets \subseteq ever.offsets
       /\ \A o \in always.offsets : o[1] \in asked => o \in raw.offsets
  /\ step \in {"topics", "acls", "list", "describe"} =>
       raw.groups = {} /\ asked = {}
  /\ step \in {"scram", "build"} => asked = listed
  /\ step = "build" => always.scram \subseteq raw.scram /\ raw.scram \subseteq ever.scram
  /\ Built => graph = Build(Apply(raw, options))

(* However the cluster changed while it was read, the graph has every node *)
(* and edge that follows from facts that held all through the read, and    *)
(* none that does not follow from facts that held at some time during it.  *)
(* A read that nothing disturbed gives the graph of the cluster itself.    *)
TornWithinBounds ==
  Built => /\ Subgraph(GraphOf(always), graph)
           /\ Subgraph(graph, GraphOf(ever))

(* So are the pages that are made of it, although the list of read-only    *)
(* principals gets shorter by every group: a group that comes or goes      *)
(* during the read moves its principals from one list to the other, and    *)
(* nobody who could read the topic all along falls out of both.            *)
PagesTornWithinBounds ==
  Built => /\ ViewsWithin(GraphOf(always), graph)
           /\ ViewsWithin(graph, GraphOf(ever))

(* Torn or not, the graph is closed: permissions join users, topics and    *)
(* groups that are in it, and every consuming group is.                    *)
GraphJoinsNodes == Built => EdgesJoinNodes(graph)

(* Nothing of another environment is in it: no node, and no end of an      *)
(* edge, not even that of a group that consumes from both.                 *)
OneEnvironment == Built => graph = EnvironmentPart(graph, options)

(* The pages that show the graph agree with each other about it.           *)
PagesAgree == Built => ViewsAgree(graph)
==============================================================================
