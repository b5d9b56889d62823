---------------------------- MODULE ClusterRefresh ----------------------------
(***************************************************************************)
(* The refresh loop of Kafdoc and the snapshot store it writes.            *)
(*                                                                         *)
(* ClusterRefreshHostedService runs a refresh at startup and then one per  *)
(* tick of a periodic timer.  Every press of "Refresh now" on a page runs  *)
(* one more, concurrently, through the same ClusterRefreshService: read    *)
(* the cluster part by part, build the graph, stamp it with the time, and  *)
(* swap it into the singleton SnapshotStore with two volatile writes.      *)
(* Pages read the store's status with three separate lock-free reads.      *)
(*                                                                         *)
(* Content is abstracted to versions: a draft snapshot carries the first   *)
(* and the last version of the cluster that its parts were read at, which  *)
(* is what tells a whole, a torn and a stale snapshot apart.               *)
(***************************************************************************)
EXTENDS Naturals

CONSTANTS
  Host,         \* the hosted service, the refresher with the timer
  Manual,       \* the tasks that run "Refresh now", one press at a time each
  Reader,       \* the pages reading the status
  NoSnapshot,   \* null, for the snapshot
  NoTime,       \* null, for the time of the last refresh
  Message,      \* what an exception caught by RefreshAsync can say
  NoError,      \* null, for the error message
  MaxVersion,   \* bound: how often the cluster changes
  MaxTime       \* bound: how far the clock runs

Refresher == {Host} \cup Manual

Version == 0 .. MaxVersion
Time == 0 .. MaxTime

ASSUME ConstantsAssumption ==
  /\ Host \notin Manual
  /\ MaxVersion \in Nat
  /\ MaxTime \in Nat
  /\ NoSnapshot \notin [first : Nat, last : Nat, at : Nat]
  /\ NoTime \notin Nat
  /\ NoError \notin Message

VARIABLES
  version,      \* the version the cluster's content is at
  reachable,    \* whether the brokers answer before the request timeout
  now,          \* the wall clock
  settings,     \* how the process was configured
  stopping,     \* the host's stopping token was cancelled
  timer,        \* the hosted service's PeriodicTimer
  pc,           \* where each refresher is
  draft,        \* the snapshot each refresher is making
  begun,        \* history: the version of the cluster when the refresh began
  current,      \* SnapshotStore._current
  lastError,    \* SnapshotStore._lastError
  status        \* the status each page has read so far

environment == <<version, reachable, now, settings>>
store == <<current, lastError>>
host == <<stopping, timer>>
tasks == <<pc, draft, begun>>
vars == <<environment, host, tasks, store, status>>

(* What the four reads of ReadAsync are about, and the checks of the token *)
(* before all of them but the first, in the order of the code.  Where a    *)
(* refresh is at a part, its calls are under way.                          *)
Reading == {"topics", "acls", "groups", "scram"}
Checking == {"checkAcls", "checkGroups", "checkScram"}
After(place) ==
  CASE place = "topics" -> "checkAcls"
    [] place = "checkAcls" -> "acls"
    [] place = "acls" -> "checkGroups"
    [] place = "checkGroups" -> "groups"
    [] place = "groups" -> "checkScram"
    [] place = "checkScram" -> "scram"
    [] place = "scram" -> "stamp"

(* Where a refresh is while it runs, and where a refresher is otherwise.   *)
Running == Reading \cup Checking \cup {"stamp", "swap", "clear", "fail"}
Resting == {"idle", "returned", "stopped", "crashed"}

Draft == [first : Version, last : Version, at : Time]

Status == [ready : BOOLEAN, at : Time \cup {NoTime}, error : Message \cup {NoError},
           next : {"ready", "at", "error"}]

TypeOK ==
  /\ version \in Version
  /\ reachable \in BOOLEAN
  /\ now \in Time
  /\ settings \in {"good", "badClient", "badInterval"}
  /\ stopping \in BOOLEAN
  /\ timer \in {"absent", "running", "ticked"}
  /\ pc \in [Refresher -> Running \cup Resting]
  /\ draft \in [Refresher -> Draft]
  /\ begun \in [Refresher -> Version]
  /\ current \in Draft \cup {NoSnapshot}
  /\ lastError \in Message \cup {NoError}
  /\ status \in [Reader -> Status]

EmptyDraft == [first |-> 0, last |-> 0, at |-> 0]

Init ==
  /\ version = 0
  /\ reachable \in BOOLEAN
  /\ now = 0
  /\ settings \in {"good", "badClient", "badInterval"}
  /\ stopping = FALSE
  /\ timer = "absent"
  /\ pc = [r \in Refresher |-> "idle"]
  /\ draft = [r \in Refresher |-> EmptyDraft]
  /\ begun = [r \in Refresher |-> 0]
  /\ current = NoSnapshot
  /\ lastError = NoError
  /\ status = [p \in Reader |->
       [ready |-> FALSE, at |-> NoTime, error |-> NoError, next |-> "ready"]]

------------------------------------------------------------------------------
(* The environment: the cluster, the network, the clock, the operator.     *)
(* The wall clock is taken to be never set back.                           *)

ClusterChanges ==
  /\ version < MaxVersion
  /\ version' = version + 1
  /\ UNCHANGED <<reachable, now, settings, host, tasks, store, status>>

BrokersComeAndGo ==
  /\ reachable' = ~reachable
  /\ UNCHANGED <<version, now, settings, host, tasks, store, status>>

ClockAdvances ==
  /\ now < MaxTime
  /\ now' = now + 1
  /\ UNCHANGED <<version, reachable, settings, host, tasks, store, status>>

StopRequested ==
  /\ ~stopping
  /\ stopping' = TRUE
  /\ UNCHANGED <<environment, timer, tasks, store, status>>

------------------------------------------------------------------------------
(* The hosted service's loop.                                              *)

(* RefreshOnceAsync is due: at startup, before the timer exists, and when  *)
(* WaitForNextTickAsync returned a tick.  A cancelled token wins over a    *)
(* tick that is there, and a service stopped before it started never runs. *)
HostIsDue ==
  /\ pc[Host] = "idle"
  /\ timer \in {"absent", "ticked"}
  /\ ~stopping

(* The scope resolves the refresh service and with it, the first time, the *)
(* admin client.  Then RefreshAsync begins.                                *)
Begin(r) ==
  /\ settings # "badClient"
  /\ pc' = [pc EXCEPT ![r] = "topics"]
  /\ begun' = [begun EXCEPT ![r] = version]
  /\ UNCHANGED draft

HostBegins ==
  /\ HostIsDue
  /\ Begin(Host)
  /\ timer' = IF timer = "ticked" THEN "running" ELSE timer
  /\ UNCHANGED <<environment, stopping, store, status>>

(* Settings the admin client cannot be built from: the exception leaves    *)
(* ExecuteAsync and the generic host stops the application.                *)
HostFailsToResolve ==
  /\ HostIsDue
  /\ settings = "badClient"
  /\ pc' = [pc EXCEPT ![Host] = "crashed"]
  /\ stopping' = TRUE
  /\ UNCHANGED <<environment, timer, draft, begun, store, status>>

(* The first RefreshOnceAsync returned and the timer is made; an interval  *)
(* PeriodicTimer refuses ends the loop and the application the same way.   *)
HostStartsTimer ==
  /\ pc[Host] = "returned"
  /\ timer = "absent"
  /\ IF settings = "badInterval"
       THEN /\ pc' = [pc EXCEPT ![Host] = "crashed"]
            /\ stopping' = TRUE
            /\ UNCHANGED timer
       ELSE /\ pc' = [pc EXCEPT ![Host] = "idle"]
            /\ timer' = "running"
            /\ UNCHANGED stopping
  /\ UNCHANGED <<environment, draft, begun, store, status>>

HostLoops ==
  /\ pc[Host] = "returned"
  /\ timer # "absent"
  /\ pc' = [pc EXCEPT ![Host] = "idle"]
  /\ UNCHANGED <<environment, host, draft, begun, store, status>>

(* Ticks that come while a refresh runs are remembered as one.             *)
TimerTicks ==
  /\ timer = "running"
  /\ timer' = "ticked"
  /\ UNCHANGED <<environment, stopping, tasks, store, status>>

(* Mutant: the wait for the next tick does not take the token.             *)
MutantHostStops ==
  /\ pc[Host] = "idle"
  /\ stopping /\ timer = "absent"
  /\ pc' = [pc EXCEPT ![Host] = "stopped"]
  /\ UNCHANGED <<environment, host, draft, begun, store, status>>

HostStops ==
  /\ pc[Host] = "idle"
  /\ stopping
  /\ pc' = [pc EXCEPT ![Host] = "stopped"]
  /\ UNCHANGED <<environment, host, draft, begun, store, status>>

------------------------------------------------------------------------------
(* "Refresh now".  Where the client cannot be built the exception reaches  *)
(* the page's circuit and changes nothing here.                            *)

Press(r) ==
  /\ r \in Manual
  /\ pc[r] = "idle"
  /\ Begin(r)
  /\ UNCHANGED <<environment, host, store, status>>

------------------------------------------------------------------------------
(* RefreshAsync.                                                           *)

(* ThrowIfCancellationRequested.  Only the hosted service passes a token   *)
(* that is ever cancelled.                                                 *)
SeesCancellation(r) == r = Host /\ stopping

(* Mutant: the token is not looked at.                                     *)
MutantPassCheck(r) ==
  /\ pc[r] \in Checking
  /\ pc' = [pc EXCEPT ![r] = After(pc[r])]
  /\ UNCHANGED <<environment, host, draft, begun, store, status>>

(* The next part begins, and what comes of the token meanwhile is not seen *)
(* before the check behind it.                                             *)
PassCheck(r) ==
  /\ pc[r] \in Checking
  /\ ~SeesCancellation(r)
  /\ pc' = [pc EXCEPT ![r] = After(pc[r])]
  /\ UNCHANGED <<environment, host, draft, begun, store, status>>

(* RefreshAsync returns: the host goes on with its loop, a page's task is  *)
(* over.                                                                   *)
Return(r) == pc' = [pc EXCEPT ![r] = IF r = Host THEN "returned" ELSE "idle"]

(* Mutant: the topics of a snapshot are read once and kept.                *)
MutantReadPart(r) ==
  /\ pc[r] \in Reading
  /\ reachable
  /\ draft' = [draft EXCEPT
       ![r].first = IF pc[r] = "topics" /\ current = NoSnapshot THEN version ELSE @,
       ![r].last = version]
  /\ pc' = [pc EXCEPT ![r] = After(pc[r])]
  /\ UNCHANGED <<environment, host, begun, store, status>>

(* A part has been read.  The groups are several calls, one after the      *)
(* other; that their answers too are of different versions makes no        *)
(* difference to the first and the last version of the draft.              *)
ReadPart(r) ==
  /\ pc[r] \in Reading
  /\ reachable
  /\ draft' = [draft EXCEPT
       ![r].first = IF pc[r] = "topics" THEN version ELSE @,
       ![r].last = version]
  /\ pc' = [pc EXCEPT ![r] = After(pc[r])]
  /\ UNCHANGED <<environment, host, begun, store, status>>

(* Mutants: the failed part is left out and the read goes on; the failure  *)
(* is not recorded.                                                        *)
MutantReadGoesOn(r) ==
  /\ pc[r] \in Reading
  /\ ~reachable
  /\ pc' = [pc EXCEPT ![r] = After(pc[r])]
  /\ UNCHANGED <<environment, host, draft, begun, store, status>>

MutantFailsSilently(r) ==
  /\ pc[r] \in Reading
  /\ ~reachable
  /\ Return(r)
  /\ draft' = [draft EXCEPT ![r] = EmptyDraft]
  /\ UNCHANGED <<environment, host, begun, store, status>>

ReadFails(r) ==
  /\ pc[r] \in Reading
  /\ ~reachable
  /\ pc' = [pc EXCEPT ![r] = "fail"]
  /\ draft' = [draft EXCEPT ![r] = EmptyDraft]
  /\ UNCHANGED <<environment, host, begun, store, status>>

(* OperationCanceledException is rethrown, through ExecuteAsync.           *)
Cancel(r) ==
  /\ pc[r] \in Checking
  /\ SeesCancellation(r)
  /\ pc' = [pc EXCEPT ![r] = "stopped"]
  /\ draft' = [draft EXCEPT ![r] = EmptyDraft]
  /\ UNCHANGED <<environment, host, begun, store, status>>

(* Mutant: the snapshot is not stamped.                                    *)
MutantStamp(r) ==
  /\ pc[r] = "stamp"
  /\ draft' = [draft EXCEPT ![r].at = NoTime]
  /\ pc' = [pc EXCEPT ![r] = "swap"]
  /\ UNCHANGED <<environment, host, begun, store, status>>

(* The filter and the builder work on the draft alone; then GetUtcNow.     *)
Stamp(r) ==
  /\ pc[r] = "stamp"
  /\ draft' = [draft EXCEPT ![r].at = now]
  /\ pc' = [pc EXCEPT ![r] = "swap"]
  /\ UNCHANGED <<environment, host, begun, store, status>>

(* SetSnapshot: the first of its two writes.                               *)
SwapCurrent(r) ==
  /\ pc[r] = "swap"
  /\ current' = draft[r]
  /\ pc' = [pc EXCEPT ![r] = "clear"]
  /\ draft' = [draft EXCEPT ![r] = EmptyDraft]
  /\ UNCHANGED <<environment, host, begun, lastError, status>>

(* Mutant: the error stays.                                                *)
MutantClearError(r) ==
  /\ pc[r] = "clear"
  /\ Return(r)
  /\ UNCHANGED <<environment, host, draft, begun, store, status>>

(* SetSnapshot: the second.                                                *)
ClearError(r) ==
  /\ pc[r] = "clear"
  /\ lastError' = NoError
  /\ Return(r)
  /\ UNCHANGED <<environment, host, draft, begun, current, status>>

(* Mutant: a failed refresh takes the snapshot down.                       *)
MutantSetError(r) ==
  /\ pc[r] = "fail"
  /\ lastError' \in Message
  /\ current' = NoSnapshot
  /\ Return(r)
  /\ UNCHANGED <<environment, host, draft, begun, status>>

SetError(r) ==
  /\ pc[r] = "fail"
  /\ lastError' \in Message
  /\ Return(r)
  /\ UNCHANGED <<environment, host, draft, begun, current, status>>

Proceed(r) ==
  \/ ReadPart(r) \/ ReadFails(r) \/ PassCheck(r) \/ Cancel(r)
  \/ Stamp(r) \/ SwapCurrent(r) \/ ClearError(r) \/ SetError(r)

------------------------------------------------------------------------------
(* GetStatus: IsReady, LastRefresh and LastError, read in that order.      *)

(* Mutant: there is no last refresh to speak of while an error is shown.   *)
MutantCapturedAt ==
  IF current = NoSnapshot \/ lastError # NoError THEN NoTime ELSE current.at

CapturedAt == IF current = NoSnapshot THEN NoTime ELSE current.at

ReadIsReady(p) ==
  /\ status[p].next = "ready"
  /\ status' = [status EXCEPT ![p].ready = (current # NoSnapshot), ![p].next = "at"]
  /\ UNCHANGED <<environment, host, tasks, store>>

ReadLastRefresh(p) ==
  /\ status[p].next = "at"
  /\ status' = [status EXCEPT ![p].at = CapturedAt, ![p].next = "error"]
  /\ UNCHANGED <<environment, host, tasks, store>>

ReadLastError(p) ==
  /\ status[p].next = "error"
  /\ status' = [status EXCEPT ![p].error = lastError, ![p].next = "ready"]
  /\ UNCHANGED <<environment, host, tasks, store>>

------------------------------------------------------------------------------
Environment == ClusterChanges \/ BrokersComeAndGo \/ ClockAdvances \/ StopRequested

HostLoop ==
  HostBegins \/ HostFailsToResolve \/ HostStartsTimer \/ HostLoops \/ HostStops

GetStatus(p) == ReadIsReady(p) \/ ReadLastRefresh(p) \/ ReadLastError(p)

Next ==
  \/ Environment
  \/ HostLoop
  \/ TimerTicks
  \/ \E r \in Manual : Press(r)
  \/ \E r \in Refresher : Proceed(r)
  \/ \E p \in Reader : GetStatus(p)

Spec == Init /\ [][Next]_vars

(* Every exception of a refresh is caught or ends the task and every call  *)
(* to a broker ends with an answer or at the request timeout, so a refresh *)
(* that runs goes on; the loop's own steps and the timer are the runtime's *)
(* to schedule.  Presses, pages and the environment owe nothing.           *)
Fairness ==
  /\ WF_vars(HostLoop)
  /\ WF_vars(TimerTicks)
  /\ \A r \in Refresher : WF_vars(Proceed(r))

FairSpec == Spec /\ Fairness

------------------------------------------------------------------------------
(* A status that says "ready" has the time of a snapshot, although it is   *)
(* put together from separate reads while refreshes write: GetStatus reads *)
(* IsReady before LastRefresh, and a snapshot is never taken away.         *)
ReadyStatusHasTime ==
  \A p \in Reader :
    status[p].ready /\ status[p].next # "at" => status[p].at # NoTime

(* Once the hosted service's first refresh is over, the store always has a *)
(* snapshot or an error to show, whatever other refreshes do meanwhile: an *)
(* error goes away only behind a snapshot that was swapped in before.      *)
NeverSilentlyEmpty ==
  timer # "absent" => current # NoSnapshot \/ lastError # NoError

(* What a refresh has read so far was read since it began, and what is     *)
(* being served was read and stamped in the past.                          *)
InWindow(r) ==
  /\ begun[r] <= version
  /\ pc[r] \in (Reading \ {"topics"}) \cup Checking \cup {"stamp", "swap"} =>
       /\ begun[r] <= draft[r].first
       /\ draft[r].first <= draft[r].last
       /\ draft[r].last <= version
  /\ pc[r] = "swap" => draft[r].at <= now

ReadsInWindow ==
  /\ \A r \in Refresher : InWindow(r)
  /\ current # NoSnapshot => current.last <= version /\ current.at <= now

(* When nobody presses "Refresh now", the snapshot the host is making is   *)
(* not older, in any of its parts nor in its time, than the one served.    *)
HostIsAhead ==
  Manual = {} /\ current # NoSnapshot =>
    /\ pc[Host] \in Reading \cup Checking \cup {"stamp", "swap"} => current.last <= begun[Host]
    /\ pc[Host] = "swap" => current.at <= draft[Host].at

(* The store and its refreshes implement the atomic store: the error of a  *)
(* swap that is half done already counts as cleared.  So a snapshot is     *)
(* replaced as a whole, by one refresh, with parts read since it began; a  *)
(* failed refresh leaves the snapshot, a cancelled one leaves no trace;    *)
(* and when nobody presses "Refresh now" what is served never goes back.   *)
HalfSwapped == \E r \in Refresher : pc[r] = "clear"

Promise == INSTANCE StaleButServing WITH
  requested <- begun,
  snapshot <- current,
  error <- IF HalfSwapped THEN NoError ELSE lastError,
  InOrder <- Manual = {}

KeepsPromise == Promise!Spec

(* With the hosted service as the only refresher, the time that a page     *)
(* shows as "Last refreshed" never goes back from one status to the next,  *)
(* nor to "Never refreshed", as long as the wall clock is never set back.  *)
ShownTimeNeverGoesBack ==
  [][\A p \in Reader :
       status[p].at # NoTime =>
         status'[p].at # NoTime /\ status[p].at <= status'[p].at]_status

(* Once the brokers answer for good and nobody stops the host, the store   *)
(* comes to serve the cluster as it is, without an error, and stays so:    *)
(* no late refresh leaves an old snapshot or an old error behind for good. *)
Fresh ==
  /\ current # NoSnapshot
  /\ current.first = version
  /\ lastError = NoError

EventuallyFresh == <>[](reachable /\ ~stopping) => <>[]Fresh

(* And it stays so until the cluster changes or the brokers fail: once     *)
(* every refresh that runs began after the last change and none has        *)
(* failed, whatever they do in whatever order leaves the store fresh.      *)
Calm ==
  /\ Fresh
  /\ \A r \in Refresher : pc[r] \in Running => begun[r] = version /\ pc[r] # "fail"

StaysFresh == [][Calm /\ reachable /\ UNCHANGED version => Calm']_vars

(* Once a stop is requested every step of the hosted service takes it      *)
(* nearer to its end, wherever its refresh is and whatever has ticked: it  *)
(* finishes the part that is under way and begins neither another nor a    *)
(* new refresh.  Where that part is the last, which no check follows, it   *)
(* still publishes, and where the part fails it still records the error.   *)
StepsToEnd ==
  CASE pc[Host] \in {"stopped", "crashed"} -> 0
    [] pc[Host] \in Checking \cup {"idle"} -> 1
    [] pc[Host] = "returned" -> 2
    [] pc[Host] \in {"clear", "fail"} -> 3
    [] pc[Host] \in {"topics", "acls", "groups", "swap"} -> 4
    [] pc[Host] = "stamp" -> 5
    [] pc[Host] = "scram" -> 6

StopShortensHost ==
  [][stopping => stopping' /\ (pc'[Host] # pc[Host] => StepsToEnd' < StepsToEnd)]_vars

(* A stop request ends the hosted service, wherever its refresh is.        *)
StopEndsHost == stopping ~> pc[Host] \in {"stopped", "crashed"}

------------------------------------------------------------------------------
(* What comments of the source say and the code does not do.               *)

(* ISnapshotStore.SetSnapshot: "Atomically replaces the current snapshot   *)
(* and clears the last error."                                             *)
SetSnapshotIsAtomic == [][current' # current => lastError' = NoError]_vars

(* ISnapshotStore.Current: "The most recently captured snapshot".          *)
CurrentIsMostRecent ==
  [][current # NoSnapshot => current'.at >= current.at]_current

(* ClusterRefreshService: "Refresh must never crash the host".             *)
RefreshNeverCrashesHost == pc[Host] # "crashed"
==============================================================================
