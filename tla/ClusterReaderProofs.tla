-------------------------- MODULE ClusterReaderProofs --------------------------
(***************************************************************************)
(* Theorems about reads of a changing cluster, for every set of names,     *)
(* every ACL, every filter and any number of changes.                      *)
(***************************************************************************)
EXTENDS ClusterReader, ClusterQueriesProofs

(* The types of the history are not needed: that of the facts is, and that *)
(* of what has been read.                                                  *)
Typed ==
  /\ cluster \in Facts
  /\ always \in Facts
  /\ ever \in Facts
  /\ options \in ClusterFilterOptions
  /\ step \in Steps
  /\ raw \in RawClusterData
  /\ listed \subseteq Name

LEMMA FactsStayFacts ==
  ASSUME NEW facts1 \in Facts, NEW facts2 \in Facts
  PROVE  Common(facts1, facts2) \in Facts /\ Union2(facts1, facts2) \in Facts
  BY DEF Facts, RawClusterData, Common, Union2

LEMMA BecomesTyped ==
  ASSUME Typed, NEW facts \in Facts, Becomes(facts)
  PROVE  Typed'
  BY FactsStayFacts DEF Typed, Becomes, read

LEMMA ChangeIsFacts ==
  ASSUME Typed, ClusterChanges
  PROVE  \E facts \in Facts : Becomes(facts)
<1> USE NamesAssumption, ReaderAssumption
    DEF NamesAssumption, ReaderAssumption, Typed, Facts, RawClusterData
<1>1. ASSUME NEW t \in Topic, CreateTopic(t) \/ DeleteTopic(t)
      PROVE  \E facts \in Facts : Becomes(facts)
  <2>1. /\ [cluster EXCEPT !.topics = @ \cup {t}] \in Facts
        /\ [cluster EXCEPT !.topics = @ \ {t}] \in Facts
    OBVIOUS
  <2> QED BY <1>1, <2>1 DEF CreateTopic, DeleteTopic
<1>2. ASSUME NEW a \in Binding, Grant(a) \/ Revoke(a)
      PROVE  \E facts \in Facts : Becomes(facts)
  <2>1. /\ [cluster EXCEPT !.acls = @ \cup {a}] \in Facts
        /\ [cluster EXCEPT !.acls = @ \ {a}] \in Facts
    OBVIOUS
  <2> QED BY <1>2, <2>1 DEF Grant, Revoke
<1>3. ASSUME NEW g \in Group, NEW t \in Topic, CommitOffset(g, t) \/ ExpireOffset(<<g, t>>)
      PROVE  \E facts \in Facts : Becomes(facts)
  <2> DEFINE more == [cluster EXCEPT !.groups = @ \cup {g}, !.offsets = @ \cup {<<g, t>>}]
             less == [cluster EXCEPT !.offsets = @ \ {<<g, t>>}]
  <2>1. <<g, t>> \in Name \X Name /\ <<g, t>>[1] = g
    OBVIOUS
  <2>2. more \in RawClusterData
    BY <2>1
  <2>3. \A o \in more.offsets : o[1] \in more.groups
    BY <2>1
  <2>4. more \in Facts
    BY <2>2, <2>3
  <2>5. less \in Facts
    BY <2>1
  <2>6. Becomes(more) \/ Becomes(less)
    BY <1>3 DEF CommitOffset, ExpireOffset
  <2> HIDE DEF more, less
  <2> QED BY <2>4, <2>5, <2>6
<1>4. ASSUME NEW g \in Group, DeleteGroup(g)
      PROVE  \E facts \in Facts : Becomes(facts)
  <2> DEFINE facts == [cluster EXCEPT !.groups = @ \ {g}, !.offsets = {o \in @ : o[1] # g}]
  <2>1. facts \in RawClusterData /\ \A o \in facts.offsets : o[1] \in facts.groups
    OBVIOUS
  <2>2. facts \in Facts
    BY <2>1
  <2>3. Becomes(facts)
    BY <1>4 DEF DeleteGroup
  <2> HIDE DEF facts
  <2> QED BY <2>2, <2>3
<1>5. ASSUME NEW u \in Principal, CreateScramUser(u) \/ DeleteScramUser(u)
      PROVE  \E facts \in Facts : Becomes(facts)
  <2>1. /\ [cluster EXCEPT !.scram = @ \cup {u}] \in Facts
        /\ [cluster EXCEPT !.scram = @ \ {u}] \in Facts
    OBVIOUS
  <2> QED BY <1>5, <2>1 DEF CreateScramUser, DeleteScramUser
<1> QED BY <1>1, <1>2, <1>3, <1>4, <1>5 DEF ClusterChanges

LEMMA TypedStep == ASSUME Typed, [Next]_vars PROVE Typed'
<1>1. CASE ClusterChanges
  BY <1>1, ChangeIsFacts, BecomesTyped
<1>2. CASE ReadAsync
  <2> USE DEF Typed, Steps, Facts, RawClusterData, world
  <2>1. CASE Begin
    BY <2>1 DEF Begin, NoFacts
  <2>2. CASE ReadTopics \/ ReadAcls \/ ReadScramUsers
    BY <2>2 DEF ReadTopics, ReadAcls, ReadScramUsers
  <2>3. CASE ListGroups \/ DescribeGroups
    BY <2>3 DEF ListGroups, DescribeGroups
  <2>4. ASSUME NEW g \in Name, ListOffsets(g) PROVE Typed'
    BY <2>4 DEF ListOffsets
  <2>5. CASE FilterAndBuild \/ Abandon
    BY <2>5 DEF FilterAndBuild, Abandon
  <2> QED BY <1>2, <2>1, <2>2, <2>3, <2>4, <2>5 DEF ReadAsync
<1>3. CASE UNCHANGED vars
  BY <1>3 DEF vars, read, Typed
<1> QED BY <1>1, <1>2, <1>3 DEF Next

LEMMA TypedInit == ASSUME Init PROVE Typed
  BY ReaderAssumption DEF ReaderAssumption, Init, Typed, NoFacts, RawClusterData, Steps, Facts

------------------------------------------------------------------------------
LEMMA ReadSoFarStep == ASSUME Typed, ReadSoFar, [Next]_vars PROVE ReadSoFar'
<1> USE DEF Built
<1>1. ASSUME NEW facts \in Facts, Becomes(facts) PROVE ReadSoFar'
  <2>1. CASE step = "idle"
    BY <1>1, <2>1 DEF Becomes, read, ReadSoFar
  <2>2. CASE step # "idle"
    <3>1. /\ always' = Common(always, facts) /\ ever' = Union2(ever, facts)
          /\ cluster' = facts /\ UNCHANGED <<options, read>>
      BY <1>1, <2>2 DEF Becomes
    <3>2. Within(always', cluster') /\ Within(cluster', ever')
      BY <3>1 DEF Within, Common, Union2
    <3>3. Within(always', always) /\ Within(ever, ever')
      BY <3>1 DEF Within, Common, Union2
    <3> QED BY <2>2, <3>1, <3>2, <3>3 DEF ReadSoFar, read, Within
  <2> QED BY <2>1, <2>2
<1>2. CASE ClusterChanges
  BY <1>1, <1>2, ChangeIsFacts
<1>3. CASE ReadAsync
  <2> USE DEF ReadSoFar, Within, world, Steps, Typed
  <2>1. CASE Begin
    BY <2>1 DEF Begin, NoFacts, Facts, RawClusterData
  <2>2. CASE ReadTopics
    BY <2>2 DEF ReadTopics, RawClusterData
  <2>3. CASE ReadAcls
    BY <2>3 DEF ReadAcls, RawClusterData
  <2>4. CASE ListGroups
    BY <2>4 DEF ListGroups
  <2>5. CASE DescribeGroups
    BY <2>5 DEF DescribeGroups, RawClusterData
  <2>6. ASSUME NEW g \in Name, ListOffsets(g) PROVE ReadSoFar'
    BY <2>6 DEF ListOffsets, RawClusterData
  <2>7. CASE ReadScramUsers
    BY <2>7 DEF ReadScramUsers, RawClusterData
  <2>8. CASE FilterAndBuild
    BY <2>8 DEF FilterAndBuild
  <2>9. CASE Abandon
    BY <2>9 DEF Abandon
  <2> QED BY <1>3, <2>1, <2>2, <2>3, <2>4, <2>5, <2>6, <2>7, <2>8, <2>9 DEF ReadAsync
<1>4. CASE UNCHANGED vars
  BY <1>4 DEF vars, read, ReadSoFar
<1> QED BY <1>2, <1>3, <1>4 DEF Next

LEMMA ReadSoFarInit == ASSUME Init PROVE ReadSoFar
  BY DEF Init, ReadSoFar, Built, NoFacts, Steps

LEMMA Invariants == Spec => [](Typed /\ ReadSoFar)
  BY TypedInit, TypedStep, ReadSoFarInit, ReadSoFarStep, PTL DEF Spec
------------------------------------------------------------------------------
LEMMA ApplyTyped ==
  ASSUME NEW facts \in RawClusterData, NEW opts
  PROVE  Apply(facts, opts) \in RawClusterData
  BY DEF Apply, KeptOffsets, RawClusterData

LEMMA RestrictTwice ==
  ASSUME NEW g, NEW opts
  PROVE  EnvironmentPart(EnvironmentPart(g, opts), opts) = EnvironmentPart(g, opts)
  BY DEF EnvironmentPart

(* What a finished read leaves, in the bounds of what held meanwhile.      *)
LEMMA FinishedReadIsBounded ==
  ASSUME Typed, ReadSoFar, step = "build"
  PROVE  /\ Subgraph(GraphOf(always), Build(Apply(raw, options)))
         /\ Subgraph(Build(Apply(raw, options)), GraphOf(ever))
<1> DEFINE visible(facts) == [facts EXCEPT !.topics = @ \ Internal]
<1>1. Within(visible(always), raw)
  BY DEF Typed, Facts, RawClusterData, ReadSoFar, Within, Steps
<1>2. Within(raw, visible(ever))
  BY DEF Typed, Facts, RawClusterData, ReadSoFar, Within, Steps
<1> HIDE DEF visible
<1>3. Within(Apply(visible(always), options), Apply(raw, options))
  BY <1>1, ApplyIsMonotone
<1>4. Within(Apply(raw, options), Apply(visible(ever), options))
  BY <1>2, ApplyIsMonotone
<1> QED BY <1>3, <1>4, BuildIsMonotone DEF GraphOf, visible

LEMMA TornStep ==
  ASSUME Typed, ReadSoFar, TornWithinBounds, [Next]_vars
  PROVE  TornWithinBounds'
<1>1. ASSUME NEW facts \in Facts, Becomes(facts) PROVE TornWithinBounds'
  BY <1>1 DEF Becomes, read, TornWithinBounds, Built, GraphOf
<1>2. CASE ClusterChanges
  BY <1>1, <1>2, ChangeIsFacts
<1>3. CASE FilterAndBuild
  <2>1. step = "build" /\ graph' = Build(Apply(raw, options)) /\ UNCHANGED world
    BY <1>3 DEF FilterAndBuild
  <2> QED BY <2>1, FinishedReadIsBounded DEF TornWithinBounds, GraphOf, world
<1>4. CASE ReadAsync /\ ~FilterAndBuild
  BY <1>4 DEF ReadAsync, Begin, ReadTopics, ReadAcls, ListGroups, DescribeGroups,
              ListOffsets, ReadScramUsers, Abandon, ReadSoFar, TornWithinBounds, Built
<1>5. CASE UNCHANGED vars
  BY <1>5 DEF vars, read, TornWithinBounds, Built, GraphOf
<1> QED BY <1>2, <1>3, <1>4, <1>5 DEF Next

(* Every variable keeps its type; that only listed groups were asked rests *)
(* on where the read is.                                                   *)
THEOREM TypeCorrect == Spec => []TypeOK
<1>1. Init => TypeOK
  BY TypedInit, ReaderAssumption DEF ReaderAssumption, Init, TypeOK, Typed
<1>2. ASSUME Typed, ReadSoFar, Typed', TypeOK, [Next]_vars PROVE TypeOK'
  <2>1. changes' \in 0 .. MaxChanges /\ options' \in Options
    <3>1. ASSUME NEW facts \in Facts, Becomes(facts)
          PROVE  changes' \in 0 .. MaxChanges /\ options' \in Options
      BY <1>2, <3>1, ReaderAssumption DEF ReaderAssumption, Becomes, TypeOK
    <3>2. CASE ReadAsync
      BY <1>2, <3>2 DEF ReadAsync, Begin, ReadTopics, ReadAcls, ListGroups, DescribeGroups,
                  ListOffsets, ReadScramUsers, FilterAndBuild, Abandon, world, TypeOK
    <3>3. CASE UNCHANGED vars
      BY <1>2, <3>3 DEF vars, TypeOK
    <3> QED BY <1>2, <3>1, <3>2, <3>3, ChangeIsFacts DEF Next
  <2>2. asked' \subseteq listed'
    <3>1. ASSUME NEW facts \in Facts, Becomes(facts) PROVE asked' \subseteq listed'
      BY <1>2, <3>1 DEF Becomes, read, TypeOK
    <3>2. CASE ListGroups
      BY <1>2, <3>2 DEF ListGroups, ReadSoFar
    <3>3. CASE ReadAsync /\ ~ListGroups
      BY <1>2, <3>3 DEF ReadAsync, Begin, ReadTopics, ReadAcls, DescribeGroups,
                  ListOffsets, ReadScramUsers, FilterAndBuild, Abandon, TypeOK
    <3>4. CASE UNCHANGED vars
      BY <1>2, <3>4 DEF vars, read, TypeOK
    <3> QED BY <1>2, <3>1, <3>2, <3>3, <3>4, ChangeIsFacts DEF Next
  <2> QED BY <1>2, <2>1, <2>2 DEF TypeOK, Typed
<1> QED BY <1>1, <1>2, TypedInit, TypedStep, Invariants, PTL DEF Spec

(* A read of a cluster that changes under it is wrong only about what      *)
(* changed: between the graph of what held all along and the graph of what *)
(* held at some time.                                                      *)
THEOREM TornReadsAreBounded == Spec => []TornWithinBounds
<1>1. Init => TornWithinBounds
  BY DEF Init, TornWithinBounds, Built
<1> QED BY <1>1, TornStep, Invariants, PTL DEF Spec

(* And torn or not, no edge of it hangs in the air.                        *)
THEOREM GraphIsClosed == Spec => []GraphJoinsNodes
<1>1. Typed /\ ReadSoFar => GraphJoinsNodes
  <2> SUFFICES ASSUME Typed, ReadSoFar, Built PROVE EdgesJoinNodes(graph)
    BY DEF GraphJoinsNodes
  <2>1. graph = Build(Apply(raw, options)) /\ raw \in RawClusterData
    BY DEF ReadSoFar, Typed
  <2> QED BY <2>1, ApplyTyped, BuildJoinsNodes
<1> QED BY <1>1, Invariants, PTL

(* And nothing of another environment is in it.                            *)
THEOREM GraphIsOfOneEnvironment == Spec => []OneEnvironment
<1>1. Typed /\ ReadSoFar => OneEnvironment
  <2> SUFFICES ASSUME Typed, ReadSoFar, Built PROVE graph = EnvironmentPart(graph, options)
    BY DEF OneEnvironment
  <2>1. graph = Build(Apply(raw, options))
    BY DEF ReadSoFar
  <2>2. graph = EnvironmentPart(Build(raw), options)
    BY <2>1, FilterThenBuild DEF Typed
  <2> QED BY <2>2, RestrictTwice
<1> QED BY <1>1, Invariants, PTL

(* And the pages agree about it, wherever groups can be counted.           *)
THEOREM PagesAlwaysAgree == ASSUME IsFiniteSet(Name) PROVE Spec => []PagesAgree
<1>1. Typed /\ ReadSoFar => PagesAgree
  <2> SUFFICES ASSUME Typed, ReadSoFar, Built PROVE ViewsAgree(graph)
    BY DEF PagesAgree
  <2>1. graph = Build(Apply(raw, options)) /\ Apply(raw, options) \in RawClusterData
    BY ApplyTyped DEF ReadSoFar, Typed
  <2>2. EdgesJoinNodes(graph)
    BY <2>1, BuildJoinsNodes
  <2>3. graph.groups \subseteq Name
    BY <2>1 DEF Build, RawClusterData
  <2>4. IsFiniteSet(graph.groups)
    BY <2>3, FS_Subset
  <2> QED BY <2>2, <2>4, ClosedGraphsAgree
<1> QED BY <1>1, Invariants, PTL

(* And who is shown on a page made of a torn read could be shown on a page *)
(* of what held at some time, and nobody is missing that held all along.   *)
THEOREM TornPagesAreBounded == Spec => []PagesTornWithinBounds
<1>1. TornWithinBounds => PagesTornWithinBounds
  BY ViewsAreMonotone DEF TornWithinBounds, PagesTornWithinBounds
<1> QED BY <1>1, TornReadsAreBounded, PTL

(* A read that nothing disturbed gives the very graph of the cluster,      *)
(* whatever changed before it began.                                       *)
UndisturbedIsExact == Built /\ always = ever => graph = GraphOf(always)

THEOREM UndisturbedReadsAreExact == Spec => []UndisturbedIsExact
<1>1. ReadSoFar /\ TornWithinBounds => UndisturbedIsExact
  <2> SUFFICES ASSUME ReadSoFar, TornWithinBounds, Built, always = ever
               PROVE  graph = GraphOf(always)
    BY DEF UndisturbedIsExact
  <2>1. \A facts1, facts2 :
          Subgraph(Build(facts1), Build(facts2)) /\ Subgraph(Build(facts2), Build(facts1))
            => Build(facts1) = Build(facts2)
    <3> SUFFICES ASSUME NEW facts1, NEW facts2,
                        Subgraph(Build(facts1), Build(facts2)),
                        Subgraph(Build(facts2), Build(facts1))
                 PROVE  Build(facts1) = Build(facts2)
      OBVIOUS
    <3> DEFINE g == Build(facts1)
               h == Build(facts2)
    <3>1. /\ g.topics = h.topics /\ g.users = h.users /\ g.scram = h.scram
          /\ g.groups = h.groups /\ g.producers = h.producers /\ g.consumers = h.consumers
          /\ g.userGroups = h.userGroups /\ g.groupTopics = h.groupTopics
      <4> HIDE DEF g, h
      <4>1. Subgraph(g, h) /\ Subgraph(h, g)
        BY DEF g, h
      <4> QED BY <4>1 DEF Subgraph
    <3>2. \A facts : Build(facts) =
            [topics |-> Build(facts).topics, users |-> Build(facts).users,
             scram |-> Build(facts).scram, groups |-> Build(facts).groups,
             producers |-> Build(facts).producers, consumers |-> Build(facts).consumers,
             userGroups |-> Build(facts).userGroups, groupTopics |-> Build(facts).groupTopics]
      BY DEF Build
    <3> QED BY <3>1, <3>2, Zenon
  <2>2. graph = Build(Apply(raw, options))
    BY DEF ReadSoFar
  <2> QED BY <2>1, <2>2 DEF TornWithinBounds, GraphOf
<1> QED BY <1>1, TornReadsAreBounded, Invariants, PTL
==============================================================================
