------------------------------ MODULE TopicsPage ------------------------------
(***************************************************************************)
(* Topics.razor with its header RefreshStatus.razor: one browser tab and   *)
(* the circuit that renders it.                                            *)
(*                                                                         *)
(* A circuit runs one thing at a time: it handles an event of the browser, *)
(* or what follows an await, and then renders what that changed before it  *)
(* takes the next.  The store does not wait for it: snapshots come between *)
(* two reads of one render.  Events and renders travel, so a button may be *)
(* pressed that the circuit has meanwhile disabled.                        *)
(*                                                                         *)
(* Of the store the page sees what StaleButServing promises: a snapshot    *)
(* that is replaced as a whole, numbered here in the order of publication, *)
(* and whether the last refresh failed.                                    *)
(***************************************************************************)
EXTENDS Naturals, Sequences, FiniteSets

CONSTANTS
  Topic,        \* the topics there may be
  Text,         \* what may be typed into the filter
  Contains,     \* <<x, t>> \in Contains iff topic t contains text x
  NoText,       \* the empty filter
  Task,         \* the runs of RefreshNow there may be at a time
  MaxSnapshots, \* bound: how many snapshots are published
  MaxEvents     \* bound: how many events are on their way at a time

ASSUME PageAssumption ==
  /\ IsFiniteSet(Topic)
  /\ NoText \in Text
  /\ Contains \subseteq Text \X Topic
  /\ \A t \in Topic : <<NoText, t>> \in Contains
  /\ MaxSnapshots \in Nat \ {0}
  /\ MaxEvents \in Nat

VARIABLES
  current,      \* the snapshot being served: its number, 0 for none, and topics
  failed,       \* whether LastError is set
  inbox,        \* what the browser sent and the circuit has not handled
  typed,        \* what the filter box shows
  filter,       \* Topics._filter
  refreshing,   \* RefreshStatus._refreshing
  task,         \* the runs of RefreshNow on this circuit
  dirty,        \* the components that have to be rendered now
  rows,         \* the rows of the table being rendered, none before Filtered()
  table,        \* the table the browser shows
  header        \* the header the browser shows

store == <<current, failed>>
browser == <<inbox, typed>>
fields == <<filter, refreshing>>
screen == <<table, header>>
vars == <<store, browser, fields, task, dirty, rows, screen>>

Number == 0 .. MaxSnapshots
Click == [kind : {"click"}]
Input == [kind : {"input"}, text : Text]

None == [shown |-> "nothing"]
Ready == [shown |-> "ready"]
Rows == [shown : {"rows"}, of : Number, topics : SUBSET Topic, filter : Text]
Loading == [shown |-> "loading"]

(* "n of m": the rows, and the topics counted by a read of its own.        *)
Table == [shown : {"table"}, of : Number, topics : SUBSET Topic, filter : Text,
          totalOf : Number, total : 0 .. Cardinality(Topic)]

TypeOK ==
  /\ current \in [number : Number, topics : SUBSET Topic]
  /\ failed \in BOOLEAN
  /\ inbox \in Seq(Click \cup Input)
  /\ typed \in Text
  /\ filter \in Text
  /\ refreshing \in BOOLEAN
  /\ task \in [Task -> {"idle", "running", "ended"}]
  /\ dirty \subseteq {"table", "header"}
  /\ rows \in Rows \cup {None, Ready}
  /\ table \in Table \cup {None, Loading}
  /\ header \in [shown : BOOLEAN, of : Number, failed : BOOLEAN, busy : BOOLEAN]

(* A tab is opened before or after the first snapshot.                     *)
Init ==
  /\ \/ current = [number |-> 0, topics |-> {}]
     \/ \E ts \in SUBSET Topic : current = [number |-> 1, topics |-> ts]
  /\ failed \in BOOLEAN
  /\ inbox = << >>
  /\ typed = NoText
  /\ filter = NoText
  /\ refreshing = FALSE
  /\ task = [r \in Task |-> "idle"]
  /\ dirty = {"table", "header"}
  /\ rows = None
  /\ table = None
  /\ header = [shown |-> FALSE, of |-> 0, failed |-> FALSE, busy |-> FALSE]

------------------------------------------------------------------------------
(* Refreshes that are not this tab's, and the user.                        *)

Publish ==
  /\ current.number < MaxSnapshots
  /\ \E ts \in SUBSET Topic : current' = [number |-> current.number + 1, topics |-> ts]
  /\ failed' = FALSE

Fail ==
  /\ failed' = TRUE
  /\ UNCHANGED current

OthersRefresh ==
  /\ Publish \/ Fail
  /\ UNCHANGED <<browser, fields, task, dirty, rows, screen>>

Send(event) ==
  /\ Len(inbox) < MaxEvents
  /\ inbox' = Append(inbox, event)
  /\ UNCHANGED <<store, fields, task, dirty, rows, screen>>

(* The button is disabled once the browser shows it so; presses are        *)
(* bounded by Task.                                                        *)
Running == {r \in Task : task[r] # "idle"}
IsClick(event) == event.kind = "click"

PressButton ==
  /\ header.shown /\ ~header.busy
  /\ Cardinality(Running) + Len(SelectSeq(inbox, IsClick)) < Cardinality(Task)
  /\ Send([kind |-> "click"])
  /\ UNCHANGED typed

(* The filter box comes with the table.                                    *)
Type(x) ==
  /\ table.shown = "table"
  /\ typed' = x
  /\ Send([kind |-> "input", text |-> x])

------------------------------------------------------------------------------
(* The circuit: what it does when nothing is left to render.               *)

Takes(kind) ==
  /\ dirty = {}
  /\ inbox # << >>
  /\ Head(inbox).kind = kind
  /\ inbox' = Tail(inbox)

(* Mutants: what is bound is the event; the box is bound to the field, and *)
(* nothing is rendered after it.                                           *)
MutantFilterChanges ==
  /\ Takes("input")
  /\ filter' = Head(inbox)
  /\ dirty' = {"table"}
  /\ UNCHANGED <<store, typed, refreshing, task, rows, screen>>

MutantFilterChangesUnseen ==
  /\ Takes("input")
  /\ filter' = Head(inbox).text
  /\ UNCHANGED <<store, typed, refreshing, task, dirty, rows, screen>>

(* @bind with oninput.                                                     *)
FilterChanges ==
  /\ Takes("input")
  /\ filter' = Head(inbox).text
  /\ dirty' = {"table"}
  /\ UNCHANGED <<store, typed, refreshing, task, rows, screen>>

(* RefreshNow up to its await.  No field is looked at: what is disabled is *)
(* the button.                                                             *)
RefreshNow(r) ==
  /\ Takes("click")
  /\ task[r] = "idle"
  /\ refreshing' = TRUE
  /\ task' = [task EXCEPT ![r] = "running"]
  /\ dirty' = {"header"}
  /\ UNCHANGED <<store, typed, filter, rows, screen>>

(* RefreshAsync, on other threads.                                         *)
RefreshEnds(r) ==
  /\ task[r] = "running"
  /\ Publish \/ Fail
  /\ task' = [task EXCEPT ![r] = "ended"]
  /\ UNCHANGED <<browser, fields, dirty, rows, screen>>

(* Mutants: the field is reset where the refresh begins only; the header   *)
(* is not rendered again.                                                  *)
MutantFinally(r) ==
  /\ dirty = {}
  /\ task[r] = "ended"
  /\ task' = [task EXCEPT ![r] = "idle"]
  /\ dirty' = {"header"}
  /\ UNCHANGED <<store, browser, fields, rows, screen>>

MutantFinallyUnseen(r) ==
  /\ dirty = {}
  /\ task[r] = "ended"
  /\ refreshing' = FALSE
  /\ task' = [task EXCEPT ![r] = "idle"]
  /\ UNCHANGED <<store, browser, filter, dirty, rows, screen>>

(* RefreshNow behind its await.                                            *)
Finally(r) ==
  /\ dirty = {}
  /\ task[r] = "ended"
  /\ refreshing' = FALSE
  /\ task' = [task EXCEPT ![r] = "idle"]
  /\ dirty' = {"header"}
  /\ UNCHANGED <<store, browser, filter, rows, screen>>

------------------------------------------------------------------------------
(* Rendering.  Topics reads the store up to three times; its header, which *)
(* has no parameters, is rendered with it the first time only.             *)

(* Mutant: there is no data where the last refresh failed.                 *)
MutantRenderLoading ==
  /\ "table" \in dirty /\ rows = None
  /\ current.number = 0 \/ failed
  /\ table' = Loading
  /\ dirty' = dirty \ {"table"}
  /\ UNCHANGED <<store, browser, fields, task, rows, header>>

RenderLoading ==
  /\ "table" \in dirty /\ rows = None
  /\ current.number = 0
  /\ table' = Loading
  /\ dirty' = dirty \ {"table"}
  /\ UNCHANGED <<store, browser, fields, task, rows, header>>

(* Mutant: the table without asking whether there is data.                 *)
MutantRenderReady ==
  /\ "table" \in dirty /\ rows = None
  /\ rows' = Ready
  /\ UNCHANGED <<store, browser, fields, task, dirty, screen>>

RenderReady ==
  /\ "table" \in dirty /\ rows = None
  /\ current.number # 0
  /\ rows' = Ready
  /\ UNCHANGED <<store, browser, fields, task, dirty, screen>>

(* Filtered().                                                             *)
RenderRows ==
  /\ rows = Ready
  /\ rows' = [shown |-> "rows", of |-> current.number, filter |-> filter,
               topics |-> {t \in current.topics : <<filter, t>> \in Contains}]
  /\ UNCHANGED <<store, browser, fields, task, dirty, screen>>

(* GetTopics().Count; the table is complete.                               *)
RenderTable ==
  /\ rows.shown = "rows"
  /\ table' = [shown |-> "table", of |-> rows.of, topics |-> rows.topics, filter |-> rows.filter,
                totalOf |-> current.number, total |-> Cardinality(current.topics)]
  /\ rows' = None
  /\ dirty' = dirty \ {"table"}
  /\ UNCHANGED <<store, browser, fields, task, header>>

RenderHeader ==
  /\ dirty = {"header"}
  /\ header' = [shown |-> TRUE, of |-> current.number, failed |-> failed, busy |-> refreshing]
  /\ dirty' = {}
  /\ UNCHANGED <<store, browser, fields, task, rows, table>>

Render == RenderLoading \/ RenderReady \/ RenderRows \/ RenderTable \/ RenderHeader

Circuit == Render \/ FilterChanges \/ \E r \in Task : RefreshNow(r) \/ Finally(r)

Next ==
  \/ OthersRefresh
  \/ PressButton
  \/ \E x \in Text : Type(x)
  \/ Circuit
  \/ \E r \in Task : RefreshEnds(r)

Spec == Init /\ [][Next]_vars

(* The circuit's dispatcher goes on with whatever there is; a refresh ends *)
(* (see ClusterRefresh).  The user and other refreshes owe nothing.        *)
Fairness ==
  /\ WF_vars(Render)
  /\ WF_vars(FilterChanges)
  /\ \A r \in Task : SF_vars(Finally(r)) /\ WF_vars(RefreshEnds(r))
  /\ SF_vars(\E r \in Task : RefreshNow(r))

FairSpec == Spec /\ Fairness
------------------------------------------------------------------------------
(* The button is only shown as busy while a refresh of this page runs, or  *)
(* the header is about to be rendered: whichever press's refresh ends      *)
(* first or last, none leaves the button disabled behind it.               *)
BusyMeansRefreshing ==
  header.busy => "header" \in dirty \/ \E r \in Task : task[r] # "idle"

(* A table is of a snapshot, although IsReady, the topics and their count  *)
(* are asked for one after the other: "No topics match" is never said of   *)
(* no data, the count is of no older snapshot than the rows, and where it  *)
(* is of the same one, "n of m" has no more rows than topics.              *)
TableHasSnapshot ==
  table.shown = "table" =>
    /\ table.of # 0 /\ table.of <= table.totalOf
    /\ table.of = table.totalOf => Cardinality(table.topics) <= table.total

(* When all that was typed has been handled and rendered, the rows are     *)
(* those of the text in the box, among whatever refreshes and presses.     *)
TableShowsFilter ==
  /\ table.shown = "table"
  /\ "table" \notin dirty
  /\ \A i \in DOMAIN inbox : inbox[i].kind # "input"
  => table.filter = typed

(* Nothing on the screen goes back to a snapshot published earlier, or     *)
(* from data to loading, however renders, refreshes and events interleave. *)
ScreenNeverGoesBack ==
  [][/\ table.shown = "table" =>
         table'.shown = "table" /\ table.of <= table'.of /\ table.totalOf <= table'.totalOf
     /\ header.of <= header'.of]_screen

(* The button comes back after every press, however often it is pressed.   *)
ButtonComesBack == []<>(~header.busy)

(* What a refresh of this page has published is soon in the header's time  *)
(* of the last refresh.                                                    *)
RefreshNowIsSeen ==
  \A r \in Task : \A n \in Number :
    task[r] = "ended" /\ current.number = n ~> header.of >= n

------------------------------------------------------------------------------
(* What the documents of the source say and the code does not do.          *)

(* The design: "Until the first snapshot lands, the UI shows a loading     *)
(* state."  Nothing renders Topics again when it has landed.               *)
LoadingEnds == current.number # 0 ~> table.shown # "loading"
==============================================================================
