------------------------- MODULE ClusterQueriesProofs -------------------------
(***************************************************************************)
(* The four views of any graph without loose ends agree with each other.   *)
(***************************************************************************)
EXTENDS ClusterQueries, ClusterGraphProofs, FiniteSetTheorems

Groups(graph, t) == Sources(To(graph.groupTopics, t))

Line(graph, g) ==
  [id |-> g, known |-> g \in graph.groups, principals |-> Backing(graph, g)]

LEMMA LinesOfGroups ==
  ASSUME NEW graph, NEW t
  PROVE  GetTopic(graph, t).consumerGroups = {Line(graph, g) : g \in Groups(graph, t)}
  BY DEF GetTopic, Groups, Line

LEMMA GroupsAreNodes ==
  ASSUME NEW graph, EdgesJoinNodes(graph), NEW t
  PROVE  Groups(graph, t) \subseteq graph.groups
  BY DEF EdgesJoinNodes, Groups, Sources, To

(* A topic's view has one line for each of its groups: as many as the      *)
(* table counts.                                                           *)
LEMMA OneLinePerGroup ==
  ASSUME NEW graph, EdgesJoinNodes(graph), IsFiniteSet(graph.groups), NEW t
  PROVE  Cardinality(GetTopic(graph, t).consumerGroups)
           = Cardinality(Groups(graph, t))
<1> DEFINE groups == Groups(graph, t)
           lines == {Line(graph, g) : g \in groups}
           lineOf == [g \in groups |-> Line(graph, g)]
<1>1. IsFiniteSet(groups)
  BY GroupsAreNodes, FS_Subset
<1>2. lineOf \in [groups -> lines]
  OBVIOUS
<1>3. \A g, h \in groups : lineOf[g] = lineOf[h] => g = h
  BY DEF Line
<1>4. \A l \in lines : \E g \in groups : lineOf[g] = l
  OBVIOUS
<1> HIDE DEF lineOf, lines, groups
<1>5. lineOf \in Bijection(groups, lines)
  BY <1>2, <1>3, <1>4 DEF Bijection, Injection, Surjection, IsInjective
<1>6. Cardinality(lines) = Cardinality(groups)
  BY <1>1, <1>5, FS_Bijection DEF ExistsBijection
<1> QED BY <1>6, LinesOfGroups DEF lines, groups

(* Who may read a topic is shown with it once: on its own, or with the     *)
(* groups it backs.                                                        *)
LEMMA ReadersAreShownOnce ==
  ASSUME NEW graph, NEW t, NEW u, t \in GetUser(graph, u).consumes
  PROVE  (u \in GetTopic(graph, t).readOnly)
           # (\E line \in GetTopic(graph, t).consumerGroups : u \in line.principals)
<1> DEFINE backs == \E g \in Groups(graph, t) : u \in Backing(graph, g)
<1>1. u \in Sources(To(graph.consumers, t))
  BY DEF GetUser, Targets, From, Sources, To
<1>2. u \in GetTopic(graph, t).readOnly <=> ~backs
  BY <1>1 DEF GetTopic, ReadOnlyPrincipals, Groups
<1>3. (\E line \in GetTopic(graph, t).consumerGroups : u \in line.principals) <=> backs
  <2>1. \A g : Line(graph, g).principals = Backing(graph, g)
    BY DEF Line
  <2>2. (\E line \in {Line(graph, g) : g \in Groups(graph, t)} : u \in line.principals)
          <=> \E g \in Groups(graph, t) : u \in Line(graph, g).principals
    OBVIOUS
  <2> QED BY <2>1, <2>2, LinesOfGroups
<1> QED BY <1>2, <1>3

LEMMA TopicViewAgrees ==
  ASSUME NEW graph, EdgesJoinNodes(graph), IsFiniteSet(graph.groups),
         NEW row \in GetTopics(graph)
  PROVE  LET view == GetTopic(graph, row.name)
         IN  /\ row.producers = Cardinality(view.producers)
             /\ row.consumerGroups = Cardinality(view.consumerGroups)
             /\ \A line \in view.consumerGroups : line.known
             /\ \A u \in graph.users :
                  /\ u \in view.producers <=> row.name \in GetUser(graph, u).produces
                  /\ row.name \in GetUser(graph, u).consumes =>
                       (u \in view.readOnly) # (\E line \in view.consumerGroups : u \in line.principals)
             /\ view.producers \cup view.readOnly \subseteq graph.users
<1> DEFINE view == GetTopic(graph, row.name)
<1>1. row.producers = Cardinality(view.producers)
  BY DEF GetTopics, GetTopic
<1>2. row.consumerGroups = Cardinality(view.consumerGroups)
  <2>1. row.consumerGroups = Cardinality(Groups(graph, row.name))
    BY DEF GetTopics, Groups
  <2> QED BY <2>1, OneLinePerGroup
<1>3. \A line \in view.consumerGroups : line.known
  <2>1. \A g : Line(graph, g).known = (g \in graph.groups)
    BY DEF Line
  <2>2. view.consumerGroups = {Line(graph, g) : g \in Groups(graph, row.name)}
    BY LinesOfGroups
  <2>3. \A g \in Groups(graph, row.name) : Line(graph, g).known
    BY <2>1, GroupsAreNodes
  <2> HIDE DEF view
  <2> QED BY <2>2, <2>3
<1>4. \A u : u \in view.producers <=> row.name \in GetUser(graph, u).produces
  BY DEF GetTopic, GetUser, Targets, From, Sources, To
<1>5. view.producers \cup view.readOnly \subseteq graph.users
  BY DEF GetTopic, ReadOnlyPrincipals, EdgesJoinNodes, Sources, To
<1> HIDE DEF view
<1> QED BY <1>1, <1>2, <1>3, <1>4, <1>5, ReadersAreShownOnce DEF view

LEMMA UserViewAgrees ==
  ASSUME NEW graph, EdgesJoinNodes(graph), NEW row \in GetUsers(graph)
  PROVE  LET view == GetUser(graph, row.principal)
         IN  /\ row.produces = Cardinality(view.produces)
             /\ row.consumes = Cardinality(view.consumes)
             /\ view.produces \cup view.consumes \subseteq {t.name : t \in GetTopics(graph)}
<1>1. graph.topics \subseteq {t.name : t \in GetTopics(graph)}
  <2> DEFINE topicRow(t) == [name |-> t,
                             producers |-> Cardinality(Sources(To(graph.producers, t))),
                             consumerGroups |-> Cardinality(Sources(To(graph.groupTopics, t)))]
  <2>1. \A t \in graph.topics : topicRow(t) \in GetTopics(graph)
    BY DEF GetTopics
  <2>2. \A t : topicRow(t).name = t
    OBVIOUS
  <2> HIDE DEF topicRow
  <2> QED BY <2>1, <2>2
<1>2. \A u : GetUser(graph, u).produces \cup GetUser(graph, u).consumes \subseteq graph.topics
  BY DEF GetUser, EdgesJoinNodes, Targets, From
<1>3. /\ row.produces = Cardinality(GetUser(graph, row.principal).produces)
      /\ row.consumes = Cardinality(GetUser(graph, row.principal).consumes)
  BY DEF GetUsers, GetUser
<1> QED BY <1>1, <1>2, <1>3

(* All that the pages need for telling one story is a graph whose edges    *)
(* join its own nodes.                                                     *)
THEOREM ClosedGraphsAgree ==
  ASSUME NEW graph, EdgesJoinNodes(graph), IsFiniteSet(graph.groups)
  PROVE  ViewsAgree(graph)
  BY TopicViewAgrees, UserViewAgrees DEF ViewsAgree

------------------------------------------------------------------------------
(* What the detail views show, from what a graph has and from raw facts.   *)

(* Whoever may read a topic is shown with it, and so is whoever backs a    *)
(* group that consumes it: dropping from the one list those who are in the *)
(* other drops nobody from both.                                           *)
LEMMA ReadersShown ==
  ASSUME NEW graph, NEW t
  PROVE  ShownReaders(graph, t)
           = Sources(To(graph.consumers, t)) \cup UNION {Backing(graph, g) : g \in Groups(graph, t)}
<1> DEFINE lines == {Line(graph, g) : g \in Groups(graph, t)}
           backing == UNION {Backing(graph, g) : g \in Groups(graph, t)}
<1>1. UNION {line.principals : line \in lines} = backing
  <2>1. \A g : Line(graph, g).principals = Backing(graph, g)
    BY DEF Line
  <2> QED BY <2>1
<1>2. GetTopic(graph, t).readOnly = Sources(To(graph.consumers, t)) \ backing
  BY DEF GetTopic, ReadOnlyPrincipals, Groups
<1>3. GetTopic(graph, t).consumerGroups = lines
  BY LinesOfGroups
<1> HIDE DEF lines, backing
<1>4. ShownReaders(graph, t) = (Sources(To(graph.consumers, t)) \ backing) \cup backing
  BY <1>1, <1>2, <1>3 DEF ShownReaders
<1> QED BY <1>4 DEF backing

LEMMA GroupsShown ==
  ASSUME NEW graph, NEW t
  PROVE  ShownGroups(graph, t) = Groups(graph, t)
<1>1. \A g : Line(graph, g).id = g
  BY DEF Line
<1>2. {line.id : line \in {Line(graph, g) : g \in Groups(graph, t)}} = Groups(graph, t)
  BY <1>1
<1> QED BY <1>2, LinesOfGroups DEF ShownGroups

(* A graph that has more shows more, on every page: although the list of   *)
(* read-only principals is a difference and may shrink.                    *)
THEOREM ViewsAreMonotone ==
  ASSUME NEW graph1, NEW graph2, Subgraph(graph1, graph2)
  PROVE  ViewsWithin(graph1, graph2)
<1> USE DEF Subgraph
<1>1. \A edges1, edges2, x : edges1 \subseteq edges2 =>
        /\ Sources(To(edges1, x)) \subseteq Sources(To(edges2, x))
        /\ Targets(From(edges1, x)) \subseteq Targets(From(edges2, x))
  BY DEF Sources, Targets, To, From
<1>2. ASSUME NEW t
      PROVE  /\ GetTopic(graph1, t).producers \subseteq GetTopic(graph2, t).producers
             /\ ShownGroups(graph1, t) \subseteq ShownGroups(graph2, t)
             /\ ShownReaders(graph1, t) \subseteq ShownReaders(graph2, t)
  <2>1. GetTopic(graph1, t).producers \subseteq GetTopic(graph2, t).producers
    BY <1>1 DEF GetTopic
  <2>2. Groups(graph1, t) \subseteq Groups(graph2, t)
    BY <1>1 DEF Groups
  <2>3. \A g : Backing(graph1, g) \subseteq Backing(graph2, g)
    BY <1>1 DEF Backing
  <2>4. Sources(To(graph1.consumers, t)) \subseteq Sources(To(graph2.consumers, t))
    BY <1>1
  <2>5. UNION {Backing(graph1, g) : g \in Groups(graph1, t)}
          \subseteq UNION {Backing(graph2, g) : g \in Groups(graph2, t)}
    BY <2>2, <2>3
  <2> QED BY <2>1, <2>2, <2>4, <2>5, GroupsShown, ReadersShown
<1>3. ASSUME NEW u
      PROVE  /\ GetUser(graph1, u).produces \subseteq GetUser(graph2, u).produces
             /\ GetUser(graph1, u).consumes \subseteq GetUser(graph2, u).consumes
             /\ GetUser(graph1, u).groups \subseteq GetUser(graph2, u).groups
  BY <1>1 DEF GetUser
<1> QED BY <1>2, <1>3 DEF ViewsWithin

LEMMA SourcesOfEdges ==
  ASSUME NEW acls \in SUBSET Acl, NEW type, NEW ops, NEW candidates, NEW x \in candidates
  PROVE  \A u : u \in Sources(To(Edges(acls, type, ops, candidates), x))
                 <=> \E a \in acls : a.principal = u /\ Grants(a, type, ops, x)
<1> TAKE u
<1> DEFINE edges == Edges(acls, type, ops, candidates)
<1>1. u \in Sources(To(edges, x)) <=> \E e \in edges : e[1] = u /\ e[2] = x
  BY DEF Sources, To
<1>2. ASSUME NEW e \in edges, e[1] = u, e[2] = x
      PROVE  \E a \in acls : a.principal = u /\ Grants(a, type, ops, x)
  BY <1>2 DEF Edges
<1>3. ASSUME NEW a \in acls, a.principal = u, Grants(a, type, ops, x)
      PROVE  \E e \in edges : e[1] = u /\ e[2] = x
  <2>1. <<u, x>> \in Principal \X candidates /\ <<u, x>>[1] = u /\ <<u, x>>[2] = x
    BY <1>3 DEF Acl
  <2>2. <<u, x>> \in edges
    BY <1>3, <2>1 DEF Edges
  <2> QED BY <2>1, <2>2
<1> QED BY <1>1, <1>2, <1>3

(* The page of a topic, straight from the facts a refresh has read: a user *)
(* of the environment produces iff an ACL lets it write the topic, and is  *)
(* shown as a reader iff an ACL lets it read the topic, or a group of the  *)
(* environment that has offsets in it.  Neither the filter nor the graph   *)
(* nor the query in between adds or loses anybody.                         *)
THEOREM TopicPageShowsTheFacts ==
  ASSUME NEW raw \in RawClusterData, NEW options \in ClusterFilterOptions,
         NEW t \in raw.topics, KeepsTopic(t, options), NEW u \in Principal
  PROVE  LET graph == Build(Apply(raw, options))
             May(type, ops, x) ==
               KeepsUser(u, options) /\ \E a \in raw.acls : a.principal = u /\ Grants(a, type, ops, x)
         IN  /\ u \in GetTopic(graph, t).producers <=> May("Topic", {"Write", "All"}, t)
             /\ u \in ShownReaders(graph, t) <=>
                  \/ May("Topic", {"Read", "All"}, t)
                  \/ \E g \in raw.groups :
                       /\ <<g, t>> \in raw.offsets
                       /\ KeepsGroup(g, options)
                       /\ May("Group", {"Read", "All"}, g)
<1> DEFINE kept == Apply(raw, options)
           graph == Build(kept)
           May(type, ops, x) ==
             KeepsUser(u, options) /\ \E a \in raw.acls : a.principal = u /\ Grants(a, type, ops, x)
<1>1. /\ kept.acls \in SUBSET Acl /\ t \in kept.topics
      /\ \A a : a \in kept.acls <=> a \in raw.acls /\ KeepsUser(a.principal, options)
      /\ \A g : g \in kept.groups <=> g \in raw.groups /\ KeepsGroup(g, options)
      /\ \A o : o \in kept.offsets <=>
           o \in raw.offsets /\ KeepsGroup(o[1], options) /\ KeepsTopic(o[2], options)
  BY DEF Apply, KeptOffsets, RawClusterData
<1>2. /\ graph.producers = Edges(kept.acls, "Topic", {"Write", "All"}, kept.topics)
      /\ graph.consumers = Edges(kept.acls, "Topic", {"Read", "All"}, kept.topics)
      /\ graph.userGroups = Edges(kept.acls, "Group", {"Read", "All"}, kept.groups)
      /\ graph.groupTopics = {o \in kept.offsets : o[1] \in kept.groups}
  BY DEF Build
<1> HIDE DEF kept, graph
<1>3. \A type, ops, candidates : \A x \in candidates :
        u \in Sources(To(Edges(kept.acls, type, ops, candidates), x)) <=> May(type, ops, x)
  <2> TAKE type, ops, candidates
  <2> TAKE x \in candidates
  <2>1. u \in Sources(To(Edges(kept.acls, type, ops, candidates), x))
          <=> \E a \in kept.acls : a.principal = u /\ Grants(a, type, ops, x)
    BY <1>1, SourcesOfEdges
  <2> QED BY <1>1, <2>1
<1> HIDE DEF May
<1>4. u \in GetTopic(graph, t).producers <=> May("Topic", {"Write", "All"}, t)
  BY <1>1, <1>2, <1>3 DEF GetTopic
<1>5. u \in Sources(To(graph.consumers, t)) <=> May("Topic", {"Read", "All"}, t)
  BY <1>1, <1>2, <1>3
<1>6. \A g \in kept.groups : u \in Backing(graph, g) <=> May("Group", {"Read", "All"}, g)
  BY <1>2, <1>3 DEF Backing
<1>7. \A g : g \in Groups(graph, t) <=> g \in kept.groups /\ <<g, t>> \in raw.offsets
  <2> TAKE g
  <2>1. raw.offsets \subseteq Name \X Name
    BY DEF RawClusterData
  <2>2. g \in Groups(graph, t) <=> \E o \in graph.groupTopics : o[1] = g /\ o[2] = t
    BY DEF Groups, Sources, To
  <2>3. \A o \in raw.offsets : o[1] = g /\ o[2] = t <=> o = <<g, t>>
    BY <2>1
  <2>4. \A o : o \in graph.groupTopics <=> o \in kept.offsets /\ o[1] \in kept.groups
    BY <1>2
  <2>5. ASSUME g \in kept.groups, <<g, t>> \in raw.offsets PROVE <<g, t>> \in graph.groupTopics
    BY <1>1, <2>4, <2>5
  <2> QED BY <1>1, <2>2, <2>3, <2>4, <2>5
<1>8. u \in ShownReaders(graph, t) <=>
        \/ May("Topic", {"Read", "All"}, t)
        \/ \E g \in kept.groups : <<g, t>> \in raw.offsets /\ May("Group", {"Read", "All"}, g)
  <2>1. u \in ShownReaders(graph, t) <=>
          u \in Sources(To(graph.consumers, t)) \/ \E g \in Groups(graph, t) : u \in Backing(graph, g)
    BY ReadersShown
  <2> QED BY <1>5, <1>6, <1>7, <2>1
<1> QED BY <1>1, <1>4, <1>8 DEF May, graph, kept
==============================================================================
