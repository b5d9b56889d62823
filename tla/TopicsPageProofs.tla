--------------------------- MODULE TopicsPageProofs ---------------------------
(***************************************************************************)
(* Theorems about the page and its header, for every set of topics and     *)
(* texts, any number of presses, snapshots and events on their way.        *)
(***************************************************************************)
EXTENDS TopicsPage, FiniteSetTheorems, TLAPS

LEMMA StepCases ==
  ASSUME [Next]_vars, NEW P,
         OthersRefresh => P, PressButton => P,
         \A x \in Text : Type(x) => P,
         FilterChanges => P,
         \A r \in Task : RefreshNow(r) => P,
         \A r \in Task : RefreshEnds(r) => P,
         \A r \in Task : Finally(r) => P,
         RenderLoading => P, RenderReady => P, RenderRows => P,
         RenderTable => P, RenderHeader => P,
         UNCHANGED vars => P
  PROVE  P
  BY DEF Next, Circuit, Render

LEMMA TopicsAreCounted ==
  ASSUME NEW ts \in SUBSET Topic, NEW us \in SUBSET ts
  PROVE  /\ Cardinality(ts) \in 0 .. Cardinality(Topic)
         /\ Cardinality(us) \in Nat /\ Cardinality(us) <= Cardinality(ts)
<1>1. IsFiniteSet(Topic)
  BY PageAssumption DEF PageAssumption
<1>2. IsFiniteSet(ts) /\ Cardinality(ts) <= Cardinality(Topic)
  BY <1>1, FS_Subset
<1>3. IsFiniteSet(us) /\ Cardinality(us) <= Cardinality(ts)
  BY <1>2, FS_Subset
<1>4. Cardinality(ts) \in Nat /\ Cardinality(us) \in Nat /\ Cardinality(Topic) \in Nat
  BY <1>1, <1>2, <1>3, FS_CardinalityType
<1> QED BY <1>2, <1>3, <1>4

------------------------------------------------------------------------------
(* What is known of the variables one by one: the parts of TypeOK.         *)

LEMMA PublishTypes ==
  ASSUME TypeOK, Publish \/ Fail
  PROVE  current' \in [number : Number, topics : SUBSET Topic] /\ failed' \in BOOLEAN
<1>1. current.number \in Number /\ current.topics \in SUBSET Topic
  BY DEF TypeOK
<1>2. CASE Publish
  <2>1. current.number + 1 \in Number
    BY <1>1, <1>2, PageAssumption DEF PageAssumption, Publish, Number
  <2>2. PICK ts \in SUBSET Topic : current' = [number |-> current.number + 1, topics |-> ts]
    BY <1>2 DEF Publish
  <2>3. failed' = FALSE
    BY <1>2 DEF Publish
  <2> QED BY <2>1, <2>2, <2>3
<1>3. CASE Fail
  BY <1>3 DEF TypeOK, Fail
<1> QED BY <1>2, <1>3

LEMMA SendTypes ==
  ASSUME TypeOK, NEW event \in Click \cup Input, Send(event), typed' \in Text
  PROVE  TypeOK'
<1>1. inbox' \in Seq(Click \cup Input)
  BY DEF TypeOK, Send
<1> QED BY <1>1 DEF TypeOK, Send, store, fields, screen

LEMMA TakesTypes ==
  ASSUME TypeOK, NEW kind, Takes(kind)
  PROVE  /\ inbox' \in Seq(Click \cup Input)
         /\ Head(inbox) \in Click \cup Input
         /\ kind = "input" => Head(inbox).text \in Text
<1>1. Head(inbox) \in Click \cup Input /\ Tail(inbox) \in Seq(Click \cup Input)
  BY DEF TypeOK, Takes
<1>2. kind = "input" => Head(inbox) \in Input
  BY <1>1 DEF Takes, Click
<1> QED BY <1>1, <1>2 DEF Takes, Input

LEMMA TypeInit == Init => TypeOK
<1> SUFFICES ASSUME Init PROVE TypeOK
  OBVIOUS
<1>1. current \in [number : Number, topics : SUBSET Topic]
  BY PageAssumption DEF PageAssumption, Init, Number
<1>2. inbox \in Seq(Click \cup Input)
  BY DEF Init
<1>3. filter \in Text /\ typed \in Text
  BY PageAssumption DEF PageAssumption, Init
<1>4. header \in [shown : BOOLEAN, of : Number, failed : BOOLEAN, busy : BOOLEAN]
  BY PageAssumption DEF PageAssumption, Init, Number
<1> QED BY <1>1, <1>2, <1>3, <1>4 DEF Init, TypeOK

LEMMA TypeStep == TypeOK /\ [Next]_vars => TypeOK'
<1> SUFFICES ASSUME TypeOK, [Next]_vars PROVE TypeOK'
  OBVIOUS
<1>1. OthersRefresh => TypeOK'
  BY PublishTypes DEF OthersRefresh, TypeOK, browser, fields, screen
<1>2. PressButton => TypeOK'
  <2> SUFFICES ASSUME PressButton PROVE TypeOK'
    OBVIOUS
  <2>1. [kind |-> "click"] \in Click \cup Input
    BY DEF Click
  <2> QED BY <2>1, SendTypes DEF PressButton, TypeOK
<1>3. ASSUME NEW x \in Text, Type(x) PROVE TypeOK'
  <2>1. [kind |-> "input", text |-> x] \in Click \cup Input
    BY DEF Input
  <2> QED BY <1>3, <2>1, SendTypes DEF Type
<1>4. FilterChanges => TypeOK'
  BY TakesTypes DEF FilterChanges, TypeOK, store, screen
<1>5. ASSUME NEW r \in Task, RefreshNow(r) PROVE TypeOK'
  BY <1>5, TakesTypes DEF RefreshNow, TypeOK, store, screen
<1>6. ASSUME NEW r \in Task, RefreshEnds(r) PROVE TypeOK'
  BY <1>6, PublishTypes DEF RefreshEnds, TypeOK, browser, fields, screen
<1>7. ASSUME NEW r \in Task, Finally(r) PROVE TypeOK'
  BY <1>7 DEF Finally, TypeOK, store, browser, screen
<1>8. RenderLoading => TypeOK'
  BY DEF RenderLoading, TypeOK, store, browser, fields
<1>9. RenderReady => TypeOK'
  BY DEF RenderReady, TypeOK, store, browser, fields, screen
<1>10. RenderRows => TypeOK'
  <2> SUFFICES ASSUME RenderRows PROVE TypeOK'
    OBVIOUS
  <2>1. rows' \in Rows
    BY DEF RenderRows, Rows, TypeOK
  <2> QED BY <2>1 DEF RenderRows, TypeOK, store, browser, fields, screen
<1>11. RenderTable => TypeOK'
  <2> SUFFICES ASSUME RenderTable PROVE TypeOK'
    OBVIOUS
  <2>1. rows \in Rows
    BY DEF RenderTable, TypeOK, None, Ready
  <2>2. Cardinality(current.topics) \in 0 .. Cardinality(Topic)
    BY TopicsAreCounted DEF TypeOK
  <2>3. table' \in Table
    BY <2>1, <2>2 DEF RenderTable, Rows, Table, TypeOK
  <2> QED BY <2>3 DEF RenderTable, TypeOK, store, browser, fields
<1>12. RenderHeader => TypeOK'
  BY DEF RenderHeader, TypeOK, store, browser, fields
<1>13. UNCHANGED vars => TypeOK'
  BY DEF vars, TypeOK, store, browser, fields, screen
<1> QED BY <1>1, <1>2, <1>3, <1>4, <1>5, <1>6, <1>7, <1>8, <1>9, <1>10,
           <1>11, <1>12, <1>13, StepCases

(* All of it is kept: every variable has its type.                         *)
THEOREM TypeCorrect == Spec => []TypeOK
  BY TypeInit, TypeStep, PTL DEF Spec

------------------------------------------------------------------------------
(* The button.                                                             *)

Busy ==
  /\ refreshing => \E r \in Task : task[r] # "idle"
  /\ header.busy => "header" \in dirty \/ refreshing

(* The data of a table that is being rendered, or has been.                *)
Serving ==
  /\ rows = Ready => current.number # 0
  /\ rows.shown = "rows" =>
       /\ rows.of # 0 /\ rows.of <= current.number
       /\ rows.of = current.number => rows.topics \subseteq current.topics
  /\ TableHasSnapshot

(* The filter on its way from the box to the table: the last event with a  *)
(* text has the text of the box, and behind it come the field, the rows    *)
(* being rendered and the table.                                           *)
IsInput(i) == i \in DOMAIN inbox /\ inbox[i].kind = "input"

Filtering ==
  /\ \A i \in DOMAIN inbox :
       IsInput(i) /\ (\A j \in DOMAIN inbox : j > i => ~IsInput(j)) => inbox[i].text = typed
  /\ (\A i \in DOMAIN inbox : ~IsInput(i)) => filter = typed
  /\ rows # None => "table" \in dirty
  /\ rows.shown = "rows" => rows.filter = filter
  /\ table.shown = "table" /\ "table" \notin dirty => table.filter = filter

IInv == TypeOK /\ Busy /\ Serving /\ Filtering

(* Each step either leaves the field and the header alone or renders the   *)
(* header behind it.                                                       *)
LEMMA BusyStep == TypeOK /\ Busy /\ [Next]_vars => Busy'
<1> SUFFICES ASSUME TypeOK, Busy, [Next]_vars PROVE Busy'
  OBVIOUS
<1> USE DEF Busy, store, browser, fields, screen
<1>1. OthersRefresh => Busy'
  BY DEF OthersRefresh
<1>2. PressButton => Busy'
  BY DEF PressButton, Send
<1>3. ASSUME NEW x \in Text PROVE Type(x) => Busy'
  BY DEF Type, Send
<1>4. FilterChanges => Busy'
  BY DEF FilterChanges, Takes
<1>5. ASSUME NEW r \in Task PROVE RefreshNow(r) => Busy'
  BY DEF RefreshNow, TypeOK
<1>6. ASSUME NEW r \in Task PROVE RefreshEnds(r) => Busy'
  BY DEF RefreshEnds, TypeOK
<1>7. ASSUME NEW r \in Task PROVE Finally(r) => Busy'
  BY DEF Finally
<1>8. RenderLoading => Busy'
  BY DEF RenderLoading
<1>9. RenderReady => Busy'
  BY DEF RenderReady
<1>10. RenderRows => Busy'
  BY DEF RenderRows
<1>11. RenderTable => Busy'
  BY DEF RenderTable
<1>12. RenderHeader => Busy'
  BY DEF RenderHeader
<1>13. UNCHANGED vars => Busy'
  BY DEF vars
<1> QED
  BY <1>1, <1>2, <1>3, <1>4, <1>5, <1>6, <1>7, <1>8, <1>9, <1>10, <1>11, <1>12, <1>13, StepCases

(* A snapshot is only ever replaced by a later one.                        *)
LEMMA ServedStep ==
  ASSUME TypeOK, Serving, Publish \/ Fail, UNCHANGED <<rows, table>>
  PROVE  Serving'
<1>1. CASE Publish
  BY <1>1 DEF Publish, Serving, TableHasSnapshot, TypeOK, Number, Rows, None, Ready
<1>2. CASE Fail
  BY <1>2 DEF Fail, Serving, TableHasSnapshot
<1> QED BY <1>1, <1>2

LEMMA ServingStep == TypeOK /\ Serving /\ [Next]_vars => Serving'
<1> SUFFICES ASSUME TypeOK, Serving, [Next]_vars PROVE Serving'
  OBVIOUS
<1> USE DEF store, browser, fields, screen
<1>1. ASSUME UNCHANGED <<current, rows, table>> PROVE Serving'
  BY <1>1 DEF Serving, TableHasSnapshot
<1>2. OthersRefresh => Serving'
  BY ServedStep DEF OthersRefresh
<1>3. ASSUME NEW r \in Task PROVE RefreshEnds(r) => Serving'
  BY ServedStep DEF RefreshEnds
<1>4. RenderLoading => Serving'
  BY DEF RenderLoading, Loading, Serving, TableHasSnapshot
<1>5. RenderReady => Serving'
  BY DEF RenderReady, Ready, Serving, TableHasSnapshot
<1>6. RenderRows => Serving'
  <2> SUFFICES ASSUME RenderRows PROVE Serving'
    OBVIOUS
  <2>1. /\ rows'.shown = "rows" /\ rows'.of = current.number
        /\ rows'.topics \subseteq current.topics
        /\ UNCHANGED <<current, table>>
    BY DEF RenderRows
  <2>2. current.number # 0 /\ current.number \in Nat
    BY PageAssumption DEF PageAssumption, RenderRows, Serving, TypeOK, Number
  <2> QED BY <2>1, <2>2 DEF Serving, TableHasSnapshot, Ready
<1>7. RenderTable => Serving'
  <2> SUFFICES ASSUME RenderTable PROVE Serving'
    OBVIOUS
  <2>1. /\ table'.of = rows.of /\ table'.topics = rows.topics
        /\ table'.totalOf = current.number /\ table'.total = Cardinality(current.topics)
        /\ rows' = None /\ UNCHANGED current
    BY DEF RenderTable
  <2>2. /\ rows.of # 0 /\ rows.of <= current.number
        /\ rows.of = current.number => rows.topics \subseteq current.topics
    BY DEF RenderTable, Serving
  <2>3. rows.of = current.number => Cardinality(rows.topics) <= Cardinality(current.topics)
    BY <2>2, TopicsAreCounted DEF TypeOK
  <2> QED BY <2>1, <2>2, <2>3 DEF Serving, TableHasSnapshot, None, Ready
<1> QED
  BY <1>1, <1>2, <1>3, <1>4, <1>5, <1>6, <1>7, StepCases
     DEF PressButton, Type, Send, FilterChanges, RefreshNow, Finally, RenderHeader, vars

(* The texts typed after the one in the field are still on their way.      *)
LEMMA InboxGrows ==
  ASSUME TypeOK, Filtering, NEW event \in Click \cup Input, inbox' = Append(inbox, event),
         event.kind = "input" => typed' = event.text,
         event.kind # "input" => typed' = typed,
         UNCHANGED <<filter, rows, dirty, table>>
  PROVE  Filtering'
<1> DEFINE n == Len(inbox)
<1>1. inbox \in Seq(Click \cup Input) /\ n \in Nat /\ DOMAIN inbox = 1 .. n
  BY DEF TypeOK
<1>2. /\ DOMAIN inbox' = 1 .. n + 1
      /\ inbox'[n + 1] = event
      /\ \A i \in 1 .. n : inbox'[i] = inbox[i]
  BY <1>1
<1> HIDE DEF n
<1>3. CASE event.kind = "input"
  BY <1>1, <1>2, <1>3 DEF Filtering, IsInput
<1>4. CASE event.kind # "input"
  BY <1>1, <1>2, <1>4 DEF Filtering, IsInput
<1> QED BY <1>3, <1>4

LEMMA InboxShrinks ==
  ASSUME TypeOK, Filtering, NEW kind, Takes(kind), UNCHANGED typed,
         kind = "input" => filter' = Head(inbox).text,
         kind # "input" => filter' = filter
  PROVE  /\ \A i \in DOMAIN inbox' :
              IsInput(i)' /\ (\A j \in DOMAIN inbox' : j > i => ~IsInput(j)') => inbox'[i].text = typed'
         /\ (\A i \in DOMAIN inbox' : ~IsInput(i)') => filter' = typed'
<1> DEFINE n == Len(inbox)
<1>1. inbox \in Seq(Click \cup Input) /\ inbox # << >> /\ inbox' = Tail(inbox)
  BY DEF TypeOK, Takes
<1>2. /\ n \in Nat \ {0} /\ DOMAIN inbox = 1 .. n /\ DOMAIN inbox' = 1 .. n - 1
      /\ \A i \in 1 .. n - 1 : inbox'[i] = inbox[i + 1]
      /\ Head(inbox) = inbox[1] /\ inbox[1].kind = kind
  BY <1>1 DEF Takes
<1> HIDE DEF n
<1>3. \A i \in 1 .. n - 1 : IsInput(i)' <=> IsInput(i + 1)
  BY <1>2 DEF IsInput
<1>4. \A i \in 1 .. n - 1 :
         IsInput(i)' /\ (\A j \in 1 .. n - 1 : j > i => ~IsInput(j)') => inbox'[i].text = typed'
  <2> SUFFICES ASSUME NEW i \in 1 .. n - 1, IsInput(i)', \A j \in 1 .. n - 1 : j > i => ~IsInput(j)'
               PROVE  inbox'[i].text = typed'
    OBVIOUS
  <2>1. ASSUME NEW j \in 1 .. n, j > i + 1 PROVE ~IsInput(j)
    <3>1. j - 1 \in 1 .. n - 1 /\ j - 1 > i /\ (j - 1) + 1 = j
      BY <1>2, <2>1
    <3> QED BY <1>3, <3>1
  <2>2. i + 1 \in DOMAIN inbox /\ IsInput(i + 1)
    BY <1>2, <1>3
  <2> QED BY <1>2, <2>1, <2>2 DEF Filtering
<1>5. (\A i \in 1 .. n - 1 : ~IsInput(i)') => filter' = typed'
  <2> SUFFICES ASSUME \A i \in 1 .. n - 1 : ~IsInput(i)' PROVE filter' = typed'
    OBVIOUS
  <2>1. ASSUME NEW j \in 2 .. n PROVE ~IsInput(j)
    <3>1. j - 1 \in 1 .. n - 1 /\ (j - 1) + 1 = j
      BY <1>2
    <3> QED BY <1>3, <3>1
  <2>2. CASE kind = "input"
    <3>1. 1 \in DOMAIN inbox /\ IsInput(1) /\ \A j \in DOMAIN inbox : j > 1 => ~IsInput(j)
      BY <1>2, <2>1, <2>2 DEF IsInput
    <3> QED BY <1>2, <2>2, <3>1 DEF Filtering
  <2>3. CASE kind # "input"
    <3>1. \A j \in DOMAIN inbox : ~IsInput(j)
      BY <1>2, <2>1, <2>3 DEF IsInput
    <3> QED BY <2>3, <3>1 DEF Filtering
  <2> QED BY <2>2, <2>3
<1> QED BY <1>2, <1>4, <1>5

LEMMA FilteringStep == TypeOK /\ Filtering /\ [Next]_vars => Filtering'
<1> SUFFICES ASSUME TypeOK, Filtering, [Next]_vars PROVE Filtering'
  OBVIOUS
<1> USE DEF store, browser, fields, screen
<1>1. ASSUME UNCHANGED <<inbox, typed, filter, rows, dirty, table>> PROVE Filtering'
  BY <1>1 DEF Filtering, IsInput
<1>2. PressButton => Filtering'
  <2> SUFFICES ASSUME PressButton PROVE Filtering'
    OBVIOUS
  <2>1. [kind |-> "click"] \in Click \cup Input
    BY DEF Click
  <2> QED BY <2>1, InboxGrows DEF PressButton, Send
<1>3. ASSUME NEW x \in Text PROVE Type(x) => Filtering'
  <2> SUFFICES ASSUME Type(x) PROVE Filtering'
    OBVIOUS
  <2>1. [kind |-> "input", text |-> x] \in Click \cup Input
    BY DEF Input
  <2> QED BY <2>1, InboxGrows DEF Type, Send
<1>4. FilterChanges => Filtering'
  <2> SUFFICES ASSUME FilterChanges PROVE Filtering'
    OBVIOUS
  <2>1. /\ Takes("input") /\ filter' = Head(inbox).text
        /\ dirty = {} /\ dirty' = {"table"} /\ UNCHANGED <<typed, rows, table>>
    BY DEF FilterChanges, Takes
  <2>2. rows.shown # "rows"
    BY <2>1 DEF Filtering, None
  <2> QED BY <2>1, <2>2, InboxShrinks DEF Filtering, IsInput
<1>5. ASSUME NEW r \in Task PROVE RefreshNow(r) => Filtering'
  <2> SUFFICES ASSUME RefreshNow(r) PROVE Filtering'
    OBVIOUS
  <2>1. /\ Takes("click") /\ UNCHANGED <<typed, filter, rows, table>>
        /\ dirty = {} /\ dirty' = {"header"}
    BY DEF RefreshNow, Takes
  <2> QED BY <2>1, InboxShrinks DEF Filtering, IsInput
<1>6. ASSUME NEW r \in Task PROVE Finally(r) => Filtering'
  BY DEF Finally, Filtering, IsInput
<1>7. RenderLoading => Filtering'
  BY DEF RenderLoading, Loading, None, Filtering, IsInput
<1>8. RenderReady => Filtering'
  BY DEF RenderReady, Ready, Filtering, IsInput
<1>9. RenderRows => Filtering'
  BY DEF RenderRows, Ready, None, Filtering, IsInput
<1>10. RenderTable => Filtering'
  BY DEF RenderTable, None, Filtering, IsInput
<1>11. RenderHeader => Filtering'
  BY DEF RenderHeader, None, Filtering, IsInput
<1> QED
  BY <1>1, <1>2, <1>3, <1>4, <1>5, <1>6, <1>7, <1>8, <1>9, <1>10, <1>11, StepCases
     DEF OthersRefresh, RefreshEnds, vars

------------------------------------------------------------------------------
LEMMA Invariant == Spec => []IInv
<1>1. Init => IInv
  <2> SUFFICES ASSUME Init PROVE Busy /\ Serving /\ Filtering
    BY TypeInit DEF IInv
  <2>1. Busy
    BY DEF Init, Busy
  <2>2. Serving
    BY DEF Init, Serving, TableHasSnapshot, None, Ready
  <2>3. Filtering
    BY DEF Init, Filtering, IsInput, None
  <2> QED BY <2>1, <2>2, <2>3
<1>2. IInv /\ [Next]_vars => IInv'
  BY TypeStep, BusyStep, ServingStep, FilteringStep DEF IInv
<1> QED BY <1>1, <1>2, PTL DEF Spec

(* Whichever press's refresh ends first, the button is only shown as busy  *)
(* while one runs or the header is about to be rendered.                   *)
THEOREM ButtonTellsRefreshing == Spec => []BusyMeansRefreshing
<1>1. IInv => BusyMeansRefreshing
  BY DEF IInv, Busy, BusyMeansRefreshing
<1> QED BY <1>1, Invariant, PTL

(* However many snapshots come between the reads of one render, its table  *)
(* is of a snapshot, and its count of none that is older.                  *)
THEOREM TableIsOfSnapshot == Spec => []TableHasSnapshot
<1>1. IInv => TableHasSnapshot
  BY DEF IInv, Serving
<1> QED BY <1>1, Invariant, PTL

(* When the circuit has caught up with the box, so has the table.          *)
THEOREM TableFollowsFilter == Spec => []TableShowsFilter
<1>1. IInv => TableShowsFilter
  BY DEF IInv, Filtering, IsInput, TableShowsFilter
<1> QED BY <1>1, Invariant, PTL

------------------------------------------------------------------------------
(* The screen and the snapshots it is of.                                  *)

(* Nothing that is or will be shown is ahead of the store, and what is     *)
(* being rendered is not behind what is shown.                             *)
Behind ==
  /\ table.shown = "table" => table.totalOf <= current.number
  /\ table.shown = "table" /\ rows.shown = "rows" => table.totalOf <= rows.of
  /\ header.of <= current.number

(* The filter box comes with the table: there are no texts without one.    *)
BoxComesWithTable == table.shown # "table" => \A i \in DOMAIN inbox : ~IsInput(i)

LEMMA NumbersAreNaturals ==
  ASSUME TypeOK
  PROVE  /\ current.number \in Nat /\ header.of \in Nat
         /\ table.shown = "table" => table.of \in Nat /\ table.totalOf \in Nat
         /\ rows.shown = "rows" => rows.of \in Nat
<1> USE PageAssumption DEF PageAssumption, TypeOK, Number
<1>1. current.number \in Nat /\ header.of \in Nat
  OBVIOUS
<1>2. table.shown = "table" => table \in Table
  BY DEF None, Loading
<1>3. rows.shown = "rows" => rows \in Rows
  BY DEF None, Ready
<1> QED BY <1>1, <1>2, <1>3 DEF Table, Rows

LEMMA LaterSnapshotStep ==
  ASSUME TypeOK, Behind, Publish \/ Fail, UNCHANGED <<rows, table, header>>
  PROVE  Behind'
<1>1. current'.number \in Nat /\ current.number <= current'.number
  BY NumbersAreNaturals DEF Publish, Fail
<1> QED BY <1>1, NumbersAreNaturals DEF Behind

LEMMA BehindStep == TypeOK /\ Serving /\ Behind /\ [Next]_vars => Behind'
<1> SUFFICES ASSUME TypeOK, Serving, Behind, [Next]_vars PROVE Behind'
  OBVIOUS
<1> USE DEF store, browser, fields, screen
<1>1. ASSUME UNCHANGED <<current, rows, table, header>> PROVE Behind'
  BY <1>1 DEF Behind
<1>2. OthersRefresh => Behind'
  BY LaterSnapshotStep DEF OthersRefresh
<1>3. ASSUME NEW r \in Task PROVE RefreshEnds(r) => Behind'
  BY LaterSnapshotStep DEF RefreshEnds
<1>4. RenderLoading => Behind'
  BY DEF RenderLoading, Loading, Behind
<1>5. RenderReady => Behind'
  BY DEF RenderReady, Ready, Behind
<1>6. RenderRows => Behind'
  <2>1. RenderRows => rows'.of = current.number /\ UNCHANGED <<current, table, header>>
    BY DEF RenderRows
  <2> QED BY <2>1 DEF Behind
<1>7. RenderTable => Behind'
  <2>1. RenderTable => /\ table'.totalOf = current.number /\ rows' = None
                       /\ UNCHANGED <<current, header>>
    BY DEF RenderTable
  <2> QED BY <2>1, NumbersAreNaturals DEF Behind, None
<1>8. RenderHeader => Behind'
  <2>1. RenderHeader => header'.of = current.number /\ UNCHANGED <<current, rows, table>>
    BY DEF RenderHeader
  <2> QED BY <2>1, NumbersAreNaturals DEF Behind
<1> QED
  BY <1>1, <1>2, <1>3, <1>4, <1>5, <1>6, <1>7, <1>8, StepCases
     DEF PressButton, Type, Send, FilterChanges, RefreshNow, Finally, vars

Forward ==
  /\ table.shown = "table" =>
       table'.shown = "table" /\ table.of <= table'.of /\ table.totalOf <= table'.totalOf
  /\ header.of <= header'.of

(* A render that has found no snapshot has not been preceded by one that   *)
(* has: IsReady never becomes false again.                                 *)
LEMMA ForwardStep == TypeOK /\ Serving /\ Behind /\ [Next]_vars => Forward
<1> SUFFICES ASSUME TypeOK, Serving, Behind, [Next]_vars PROVE Forward
  OBVIOUS
<1> USE DEF store, browser, fields, screen
<1>1. ASSUME UNCHANGED <<table, header>> PROVE Forward
  BY <1>1, NumbersAreNaturals DEF Forward
<1>2. RenderLoading => Forward
  <2> SUFFICES ASSUME RenderLoading PROVE Forward
    OBVIOUS
  <2>1. current.number = 0 /\ header' = header
    BY DEF RenderLoading
  <2>2. table.shown # "table"
    BY <2>1, NumbersAreNaturals DEF Serving, TableHasSnapshot, Behind
  <2> QED BY <2>1, <2>2, NumbersAreNaturals DEF Forward
<1>3. RenderTable => Forward
  <2> SUFFICES ASSUME RenderTable PROVE Forward
    OBVIOUS
  <2>1. /\ rows.shown = "rows" /\ table'.shown = "table" /\ table'.of = rows.of
        /\ table'.totalOf = current.number /\ header' = header
    BY DEF RenderTable
  <2>2. table.shown = "table" =>
          table.of <= table.totalOf /\ table.totalOf <= rows.of /\ table.totalOf <= current.number
    BY <2>1 DEF Serving, TableHasSnapshot, Behind
  <2> QED BY <2>1, <2>2, NumbersAreNaturals DEF Forward
<1>4. RenderHeader => Forward
  <2>1. RenderHeader => header'.of = current.number /\ table' = table
    BY DEF RenderHeader
  <2> QED BY <2>1, NumbersAreNaturals DEF Forward, Behind
<1> QED
  BY <1>1, <1>2, <1>3, <1>4, StepCases
     DEF OthersRefresh, RefreshEnds, RenderReady, RenderRows,
         PressButton, Type, Send, FilterChanges, RefreshNow, Finally, vars

LEMMA BoxStep ==
  TypeOK /\ Serving /\ Behind /\ BoxComesWithTable /\ [Next]_vars => BoxComesWithTable'
<1> SUFFICES ASSUME TypeOK, Serving, Behind, BoxComesWithTable, [Next]_vars,
                    table'.shown # "table"
             PROVE  \A i \in DOMAIN inbox' : ~IsInput(i)'
  BY DEF BoxComesWithTable
<1> USE DEF store, browser, fields, screen
<1>1. \A i \in DOMAIN inbox : ~IsInput(i)
  BY ForwardStep DEF Forward, BoxComesWithTable
<1>2. ASSUME UNCHANGED inbox PROVE \A i \in DOMAIN inbox' : ~IsInput(i)'
  BY <1>1, <1>2 DEF IsInput
<1>3. PressButton => \A i \in DOMAIN inbox' : ~IsInput(i)'
  <2> SUFFICES ASSUME PressButton PROVE \A i \in DOMAIN inbox' : ~IsInput(i)'
    OBVIOUS
  <2> DEFINE event == [kind |-> "click"]
             n == Len(inbox)
  <2>1. inbox \in Seq(Click \cup Input) /\ event \in Click \cup Input /\ inbox' = Append(inbox, event)
    BY DEF TypeOK, PressButton, Send, Click
  <2>2. /\ n \in Nat /\ DOMAIN inbox = 1 .. n /\ DOMAIN inbox' = 1 .. n + 1
        /\ inbox'[n + 1] = event /\ event.kind # "input"
        /\ \A i \in 1 .. n : inbox'[i] = inbox[i]
    BY <2>1
  <2> HIDE DEF n, event
  <2> QED BY <1>1, <2>2 DEF IsInput
<1>4. ASSUME NEW x \in Text PROVE ~Type(x)
  BY DEF Type, Send
<1>5. ASSUME NEW kind, Takes(kind) PROVE \A i \in DOMAIN inbox' : ~IsInput(i)'
  <2> DEFINE n == Len(inbox)
  <2>1. inbox \in Seq(Click \cup Input) /\ inbox # << >> /\ inbox' = Tail(inbox)
    BY <1>5 DEF TypeOK, Takes
  <2>2. /\ n \in Nat \ {0} /\ DOMAIN inbox = 1 .. n /\ DOMAIN inbox' = 1 .. n - 1
        /\ \A i \in 1 .. n - 1 : inbox'[i] = inbox[i + 1] /\ i + 1 \in 1 .. n
    BY <2>1
  <2> HIDE DEF n
  <2> QED BY <1>1, <2>2 DEF IsInput
<1> QED
  BY <1>2, <1>3, <1>4, <1>5, StepCases
     DEF OthersRefresh, RefreshEnds, FilterChanges, RefreshNow, Finally,
         RenderLoading, RenderReady, RenderRows, RenderTable, RenderHeader, vars

LEMMA ScreenInvariant == Spec => [](Behind /\ BoxComesWithTable)
<1>1. Init => Behind /\ BoxComesWithTable
  BY DEF Init, Behind, BoxComesWithTable, IsInput, None
<1>2. IInv /\ Behind /\ BoxComesWithTable /\ [Next]_vars => Behind' /\ BoxComesWithTable'
  BY BehindStep, BoxStep DEF IInv
<1> QED BY <1>1, <1>2, Invariant, PTL DEF Spec

(* Neither the table nor the header goes back to an older snapshot, and    *)
(* the table not to loading, however renders, refreshes and events         *)
(* interleave: each part of a render reads the store of its own accord.    *)
THEOREM ScreenGoesForward == Spec => ScreenNeverGoesBack
<1>1. IInv /\ Behind /\ [Next]_vars
        => [/\ table.shown = "table" =>
                 table'.shown = "table" /\ table.of <= table'.of /\ table.totalOf <= table'.totalOf
            /\ header.of <= header'.of]_screen
  BY ForwardStep DEF IInv, Forward
<1> QED BY <1>1, Invariant, ScreenInvariant, PTL DEF Spec, ScreenNeverGoesBack

(* A tab that has rendered "Loading" is never rendered again, whatever     *)
(* snapshots land and however often the button is pressed: the events that *)
(* render the table come out of the box that comes with it.  It is why the *)
(* loading state does not end when the first snapshot lands.               *)
THEOREM LoadingIsForGood ==
  Spec => [][table = Loading /\ "table" \notin dirty
               => table' = Loading /\ "table" \notin dirty']_vars
<1>1. ASSUME IInv, BoxComesWithTable, [Next]_vars, table = Loading, "table" \notin dirty
      PROVE  table' = Loading /\ "table" \notin dirty'
  <2> USE DEF store, browser, fields, screen
  <2>1. ~FilterChanges
    <3>1. \A i \in DOMAIN inbox : inbox[i].kind # "input"
      BY <1>1 DEF BoxComesWithTable, IsInput, Loading
    <3>2. inbox \in Seq(Click \cup Input)
      BY <1>1 DEF IInv, TypeOK
    <3>3. inbox # << >> => 1 \in DOMAIN inbox /\ Head(inbox) = inbox[1]
      BY <3>2
    <3> QED BY <3>1, <3>3 DEF FilterChanges, Takes
  <2>2. rows = None /\ ~RenderTable
    BY <1>1 DEF IInv, Filtering, RenderTable, None
  <2>3. ~RenderLoading /\ ~RenderReady /\ ~RenderRows
    BY <1>1, <2>2 DEF RenderLoading, RenderReady, RenderRows, None, Ready
  <2>4. ~\E x \in Text : Type(x)
    BY <1>1 DEF Type, Loading
  <2>5. OthersRefresh \/ PressButton \/ UNCHANGED vars => UNCHANGED <<table, dirty>>
    BY DEF OthersRefresh, PressButton, Send, vars
  <2>6. RenderHeader => UNCHANGED table /\ dirty' = {}
    BY DEF RenderHeader
  <2>7. ASSUME NEW r \in Task, RefreshNow(r) \/ RefreshEnds(r) \/ Finally(r)
        PROVE  UNCHANGED table /\ (dirty' = dirty \/ dirty' = {"header"})
    BY <2>7 DEF RefreshNow, RefreshEnds, Finally
  <2> QED
    BY <1>1, <2>1, <2>2, <2>3, <2>4, <2>5, <2>6, <2>7 DEF Next, Circuit, Render
<1>2. IInv /\ BoxComesWithTable /\ [Next]_vars
        => [table = Loading /\ "table" \notin dirty
              => table' = Loading /\ "table" \notin dirty']_vars
  BY <1>1
<1> QED BY <1>2, Invariant, ScreenInvariant, PTL DEF Spec
==============================================================================
