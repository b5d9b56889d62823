---------------------------- MODULE ClusterQueries ----------------------------
(***************************************************************************)
(* TopicQueryService and UserQueryService: the rows of the two tables and  *)
(* the two detail views, each computed from the graph of one snapshot by   *)
(* its own grouping and counting.  Rows are sets (they are sorted for      *)
(* display), documentation is left out.                                    *)
(***************************************************************************)
EXTENDS ClusterGraph, FiniteSets

To(edges, node) == {e \in edges : e[2] = node}
From(edges, node) == {e \in edges : e[1] = node}
Sources(edges) == {e[1] : e \in edges}
Targets(edges) == {e[2] : e \in edges}

GetTopics(graph) ==
  {[name |-> t,
    producers |-> Cardinality(Sources(To(graph.producers, t))),
    consumerGroups |-> Cardinality(Sources(To(graph.groupTopics, t)))] : t \in graph.topics}

Backing(graph, group) == Sources(To(graph.userGroups, group))

(* Mutant: a principal that backs any group at all is not read-only.       *)
MutantReadOnlyPrincipals(graph, topic) ==
  Sources(To(graph.consumers, topic)) \ UNION {Backing(graph, g) : g \in graph.groups}

(* Principals that may read the topic and back no group consuming it.      *)
ReadOnlyPrincipals(graph, topic) ==
  LET groups == Sources(To(graph.groupTopics, topic))
  IN  Sources(To(graph.consumers, topic)) \ UNION {Backing(graph, g) : g \in groups}

GetTopic(graph, topic) ==
  [producers |-> Sources(To(graph.producers, topic)),
   consumerGroups |-> {[id |-> g, known |-> g \in graph.groups, principals |-> Backing(graph, g)] :
                         g \in Sources(To(graph.groupTopics, topic))},
   readOnly |-> ReadOnlyPrincipals(graph, topic)]

GetUsers(graph) ==
  {[principal |-> u,
    produces |-> Cardinality(Targets(From(graph.producers, u))),
    consumes |-> Cardinality(Targets(From(graph.consumers, u)))] : u \in graph.users}

GetUser(graph, user) ==
  [produces |-> Targets(From(graph.producers, user)),
   consumes |-> Targets(From(graph.consumers, user)),
   groups |-> Targets(From(graph.userGroups, user))]

(* Who is shown with a topic for reading it, on their own or with a group. *)
ShownReaders(graph, topic) ==
  LET view == GetTopic(graph, topic)
  IN  view.readOnly \cup UNION {line.principals : line \in view.consumerGroups}

ShownGroups(graph, topic) == {line.id : line \in GetTopic(graph, topic).consumerGroups}

(* What the detail views of one graph show those of the other show too.    *)
ViewsWithin(graph1, graph2) ==
  /\ \A t \in graph1.topics :
       /\ t \in graph2.topics
       /\ GetTopic(graph1, t).producers \subseteq GetTopic(graph2, t).producers
       /\ ShownGroups(graph1, t) \subseteq ShownGroups(graph2, t)
       /\ ShownReaders(graph1, t) \subseteq ShownReaders(graph2, t)
  /\ \A u \in graph1.users :
       /\ u \in graph2.users
       /\ GetUser(graph1, u).produces \subseteq GetUser(graph2, u).produces
       /\ GetUser(graph1, u).consumes \subseteq GetUser(graph2, u).consumes
       /\ GetUser(graph1, u).groups \subseteq GetUser(graph2, u).groups

(* The four views tell one story: a count in a table is the number of      *)
(* lines of the detail view behind it, the topic's view and the user's     *)
(* view agree on who produces, everybody who may read a topic is shown     *)
(* with it exactly once, and no consuming group is of unknown state.       *)
ViewsAgree(graph) ==
  /\ \A row \in GetTopics(graph) :
       LET view == GetTopic(graph, row.name)
       IN  /\ row.producers = Cardinality(view.producers)
           /\ row.consumerGroups = Cardinality(view.consumerGroups)
           /\ \A line \in view.consumerGroups : line.known
           /\ \A u \in graph.users :
                /\ u \in view.producers <=> row.name \in GetUser(graph, u).produces
                /\ row.name \in GetUser(graph, u).consumes =>
                     (u \in view.readOnly) # (\E line \in view.consumerGroups : u \in line.principals)
           /\ view.producers \cup view.readOnly \subseteq graph.users
  /\ \A row \in GetUsers(graph) :
       LET view == GetUser(graph, row.principal)
       IN  /\ row.produces = Cardinality(view.produces)
           /\ row.consumes = Cardinality(view.consumes)
           /\ view.produces \cup view.consumes \subseteq {t.name : t \in GetTopics(graph)}
==============================================================================
