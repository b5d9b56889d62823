# Kafdoc in TLA+

Kafdoc is a Blazor Server application that documents a Kafka cluster: it reads
topics, ACLs, consumer groups and SCRAM users with the Kafka admin API, derives
a graph of who produces to and consumes from what, keeps the latest graph in
memory and renders it next to markdown written by the operators. This directory
models it in TLA+, checks the models with TLC on small instances and proves the
main results with TLAPS for every instance. Paths below are relative to the
repository (`src/` is its source directory).

## 1. The system

| Component | State | Operations | Interacts with |
|---|---|---|---|
| Snapshot store (`Kafdoc.Application/Snapshot/SnapshotStore.cs`), singleton | `_current`, `_lastError`, both volatile | `SetSnapshot`, `SetError`, reads `Current`, `LastRefresh`, `LastError`, `IsReady` | written by refreshes, read by pages, no lock |
| Refresh service (`ClusterRefreshService.cs`) | none | `RefreshAsync` | reader, filter, builder, store, clock |
| Hosted service (`ClusterRefreshHostedService.cs`) | its timer and its position | `ExecuteAsync`, `RefreshOnceAsync` | resolves and calls the refresh service; stopped by the host |
| Cluster reader (`ConfluentKafkaClusterReader.cs`) | what one call has read so far | `ReadAsync` and its four parts | the brokers, one admin call at a time |
| Environment filter (`RawClusterDataFilter.cs`) | options | `Apply` | between reader and builder |
| Graph builder (`ClusterGraphBuilder.cs`) | none | `Build` | after the filter |
| Query services (`TopicQueryService.cs`, `UserQueryService.cs`) | none | `GetTopics`, `GetTopic`, `GetUsers`, `GetUser` | one read of the store each; the documentation store |
| Status service (`SnapshotStatusService.cs`) | none | `GetStatus` | three reads of the store |
| Pages and header (`Kafdoc.Web/Components`) | `_refreshing`, `_filter`, what was rendered | render, Refresh now | query services, status, refresh service |
| Documentation store (`FileDocumentationStore.cs`) | two lazily built indexes | `Read`, `HasDocumentation`, `Rebuild` | files on disk, slugs, alias globs |
| Reconnect dialog (`ReconnectModal.razor.js`) | the dialog's class, whether it is open, a listener, calls waiting for the server | Blazor's events, `retry`, `resume`, the tab shown again | Blazor's circuit client, the browser, the user |
| Introduction, markdown, wiring, seeding, vendored assets | - | - | listed in `PROJECT.json` with the reason they are left out |

What is hard about it:

- *Overlapping refreshes.* The timer's refresh and every press of Refresh now
  run the same service concurrently, without a lock or a queue.
- *A store of two words.* `SetSnapshot` writes the snapshot and then clears the
  error; `SetError` may come between; a page reads the status in three reads.
- *A torn read.* The reader makes one call after another while the cluster
  changes, and uses the list of groups after it was read.
- *Failure and cancellation in the middle.* Any call may fail; the token is
  looked at only between parts; an exception outside `RefreshAsync` stops the host.
- *Views by different joins.* Four views group, count and join the same graph in
  different ways and have to agree.
- *A lazy cache of files* that no lock guards: first lookups build the same
  index side by side, file by file, while files change, and the last one stays.
- *A page that renders only when something of its own happens*, reads the store
  several times in one render, and handles events sent before the browser showed
  what the circuit had already decided.
- *Calls of a browser script side by side*: a retry or a resume waits for a server
  that may never answer, and nothing keeps a second one from starting meanwhile.
- *A hand-written glob matcher* that backtracks to its last star only.

What makes each component correct:

- store and refreshes: what is served is always one whole read of one refresh
  with parts no older than the refresh; failed refreshes keep the snapshot;
  once the first refresh is over there is always a snapshot or an error to show;
  the store converges to the cluster; a stop ends the host with the part of a read
  that is under way;
- status: no "ready" without a time, and, where nobody presses Refresh now, the
  shown time does not go back;
- reader, filter, builder: a torn graph is bounded by what was true during the
  read, closed, and of one environment;
- query services: the views agree;
- documentation: a name only gets a file that was meant for it, its own file
  goes before any alias and is never hidden by a race, an index that is current
  answers as the files say;
- aliases: a name matches a pattern exactly when the pattern can be laid along it;
- pages: the button comes back after every press, what is shown is of data that
  was there and of what was typed;
- reconnect dialog: it is open exactly while there is no connection, has the
  button that leads on, and a page is never left without a way back.

## 2. The modules

### StaleButServing: the promise

The abstract store: one atomic `Publish` replaces the snapshot and forgets the
error, `Fail` records an error and leaves the snapshot, a refresh begins with
`Request`. A published snapshot has parts read between its request and now, and
if refreshes never overlap (`InOrder`) it is nowhere older than its predecessor.

### ClusterRefresh: host, refreshes, store, status

The variables follow the code's state: `current` and `lastError` are the two
fields of `SnapshotStore`; `pc` and `draft` are the position and the local
variables of each `RefreshAsync` in flight; `timer` is the `PeriodicTimer`
(`absent` before line 22 made it, `ticked` when a tick is pending: ticks that
come during a refresh coalesce); `stopping` is the token; `status` is what each
page has assembled of `GetStatus`. `version`, `reachable`, `now` and `settings`
are the environment. `begun` is a history variable.

Content is a version number: a draft carries the first and the last version its
four parts were read at, and that is all that tells a whole, a torn and an old
snapshot apart. The atomic steps are the reads of shared state and the writes to
it: one step per part of `ReadAsync`, one for each check of the token between two
parts, one for `GetUtcNow`, one for each of the two volatile writes, one for each read of `GetStatus`. Filter and builder work
on local data and are part of the step before. A check is a step of its own, as a
stop may come between it and the end of the part behind it: that part is then
finished, and for the last one no check follows. The groups are one part although
they are several calls (`ClusterReader` has them one by one): no check is among them.

| Code | Action |
|---|---|
| `RefreshOnceAsync`, scope and resolution | `HostBegins`, or `HostFailsToResolve` when the settings break the admin client |
| `new PeriodicTimer` | `HostStartsTimer`, which also ends the host for an interval it refuses |
| `WaitForNextTickAsync` | `TimerTicks`, `HostIsDue`, `HostStops` |
| Refresh now, `CancellationToken.None` | `Press` |
| a part of `ReadAsync` | `ReadPart`, `ReadFails` |
| `ThrowIfCancellationRequested` | `PassCheck`, `Cancel` |
| `SetSnapshot` | `SwapCurrent`, then `ClearError` |
| the catch clauses | `Cancel`, and `ReadFails` followed by `SetError` |
| `GetStatus` | `ReadIsReady`, `ReadLastRefresh`, `ReadLastError` |

The wall clock is assumed never to be set back (`ClockAdvances`); what is said about
times rests on it. A host that stops or crashes ends the loop; pages' refreshes may
still finish.
A process restart begins with an empty store, that is, with `Init`.

### ClusterGraph, ClusterQueries: the pure part

`ClusterGraph` has the filter (`Apply`) and the builder (`Build`) as set
functions. Names are elements of a set with the relation `Begins` for
`StartsWith`: what the code does to names is compare them and test prefixes.
`ClusterQueries` has the four views. Order (sorting), partition counts, states
and member counts are left out; duplicates cannot matter as every edge list is
made distinct by the code.

### ClusterReader: reading a cluster that moves

`cluster` holds the facts as they are; any action of the environment (create or
delete a topic, grant or revoke an ACL, commit or expire an offset, delete a
group, create or delete a user) may come between two admin calls. The read goes
through `ReadTopics`, `ReadAcls`, `ListGroups` (with the early return for no
group), `DescribeGroups`, `ListOffsets` group by group, `ReadScramUsers`, and
`FilterAndBuild`; `Abandon` is a failed call or a cancellation. The history
variables `always` and `ever` collect the facts that held all through the read
and at some time during it. A call answers as a whole or fails. Of the listing of
groups this is an assumption: the code takes `listing.Valid`, and whether the client
leaves out the groups of a broker that failed or throws cannot be told from the
repository. A deleted group stays in what was listed (the
brokers describe it as dead) and has no offsets.

`MCClusterReader` gives the constants for TLC. The reader refines the four
`ReadPart` steps of `ClusterRefresh` into calls: there the content is a version,
here it is the facts. The composition is on the plan.

### GlobMatch: an alias and a name

The loop of `DocumentationPattern.Matches`, one action per branch (`TakeStar`,
`TakeChar`, `Backtrack`, `Reject`), the loop behind it (`SkipStar`) and the
return (`Answer`). `p`, `n`, `star` and `mark` are the code's variables.
`IsMatch` says what the answer should be without a loop: there is a function
from the positions of the pattern to those of the name that leads a star over
any run and every other character over one equal to it. `MCGlobMatch` takes
every pattern and every name up to a length.

### DocumentationStore: lookups, builders and files

`index` is the pair `_topicIndex`, `_userIndex`; a thread's `pc`, `held` and
`todo` are its position in `GetIndex`, `BuildIndex` or `Rebuild`, the index it
is building or has got, and the files of the list it has still to scan.
`present` and `aliases` are the files, which the operator writes and deletes at
any time (`WriteFile`, `DeleteFile`). The atomic steps are the reads and writes
of what threads share: a field of `index`, the directory, a file.

| Code | Action |
|---|---|
| `_topicIndex ??= ...`, the test | `GetIndex`, which goes on with the index or begins to build one |
| `Directory.EnumerateFiles`, or its catch | `ListFiles`, `ListFails` |
| `ReadAliases` for the next file, or its catch | `ScanFile`, `ScanFails` |
| the assignment of a field, lazily or by `Rebuild` | `Assign` |
| `Resolve` and the end of either method | `HasDocumentation`, `Read`, `ReadFails` |

A file is its aliases (none, when it has no front matter or a malformed one). A
slug is the file it names: `Own` maps names to files, several names to one where
their slugs agree (`orders` and `.orders`). `Globs` is the relation that
`GlobMatch` shows the matcher to compute. The path check of `Read` never fails for a
path that came from the directory's own listing, and is left out. Which file
comes first is `Rank`, the ordinal order of file names. `asOf`, `meant` and `kept`
are history. Nothing in the application calls `Rebuild` yet; it is
modelled as the public method it is, and `Rebuilder = {}` is the application
as it stands.

### TopicsPage: a tab, its circuit and the store

The page `Topics` with its header `RefreshStatus`. `filter` and `refreshing` are
the components' fields, `task` the runs of `RefreshNow`, `inbox` the events the
browser has sent and the circuit has not handled, `typed`, `table` and `header`
what the user sees. A circuit does one thing at a time: an event, or what follows
an await, and then the renders this asks for (`dirty`); its actions are guarded
accordingly. The store goes on meanwhile, so each read of a render is a step.

| Code | Action |
|---|---|
| `@bind="_filter" @bind:event="oninput"` | `Type` in the browser, `FilterChanges` on the circuit |
| `RefreshNow` up to its await, the refresh, `finally` | `RefreshNow`, `RefreshEnds`, `Finally` |
| `disabled="@_refreshing"` | `PressButton`: what counts is the header as it was last rendered |
| `IsReady`, `Filtered()`, `GetTopics().Count` in one render | `RenderLoading` or `RenderReady`, `RenderRows`, `RenderTable` |
| the header | `RenderHeader`: with the page the first time, and after its own button |

A component without parameters is not rendered again with its parent, and an event
renders only the component that handles it: the filter does not render the
header, nor the button the table. The store is reduced to what `StaleButServing`
promises: snapshots in order of publication, and whether the last refresh failed;
that the header's three reads fit together is a property of `ClusterRefresh`. So "older"
means published earlier: which of two snapshots was captured earlier is a question
about `ClusterRefresh` too. The first part of a refresh, `GetMetadata`, is a synchronous
call and keeps the circuit from rendering until it has returned; here the renders
that follow the press may come at once. The first, static render of a page
(prerendering) is not modelled: the tab begins with the circuit's own.
Where the refresh service cannot be resolved, `RefreshNow` throws and Blazor ends
the circuit: the tab is then the reconnect dialog's. `Users` is the same page
without a filter and a second read, the detail pages render once.

### ReconnectModal: the script over a lost page

`open`, `mark` and `armed` are the dialog, its class and the `visibilitychange`
listener; `pc` is what each call of `retry` or `resume` awaits. What a call does
from one await to the next is one action: `retry`, then `RetrySucceeds`,
`RetryIsRejected`, `RetryThrows`, `RetryResumes` or `RetryReloads`; `resume`, then
`ResumeSucceeds`, `ResumeReloads` or `ResumeThrows`. Nothing in the script keeps a
second call from starting while one waits, so `Call` is a set. `overlapped` is a
history variable: calls ran side by side, and one of them still waits or has left
the listener behind on a page that needs none. Such a listener matters: it can start
a retry on its own while Blazor is reconnecting, and that retry may reload the page
that Blazor has just got back. Reloads by an overlap and what it left are what the
code does, and are permitted; that nothing else reloads a page that works is checked.

The rest is external and modelled as the script meets it: Blazor sets the
dialog's class and then dispatches its event (`Becomes`), tries to reconnect on
its own and gives up; a circuit is held, then stored, then gone; a request that
was on its way when the server went away never arrives (`missed`) and its call
ends with an exception. `Blazor.reconnect()` is taken to say yes on a page that is
connected, and `Blazor.resumeCircuit()` to say either when another call has just
resumed it. A reload starts the script anew, or ends at the browser's error page.

## 3. What the runs check

| Run | Instance | Shows |
|---|---|---|
| `refresh_host` | host only, one page, 2 changes, clock to 2 | `TypeOK`; `KeepsPromise`: the store implements `StaleButServing` with `InOrder`; `ShownTimeNeverGoesBack`, and `ReadyStatusHasTime` although the three reads are torn; `StopShortensHost`: a stopped host finishes the part it is in and begins no other, and is at its end within six steps |
| `refresh_overlap` | host and one Refresh now, 1 change, clock to 1, fair | `NeverSilentlyEmpty`; `KeepsPromise` with overlapping refreshes; `EventuallyFresh`, and `StaysFresh`, what keeps it so; `StopEndsHost` |
| `reader_torn` | 3 topics (one internal, one of another environment), 1 group, 2 principals, 5 ACLs, 3 filters, 3 changes | `TypeOK`, `TornWithinBounds`, and `PagesTornWithinBounds` for what the pages make of a torn graph; `GraphJoinsNodes`, `OneEnvironment`, `PagesAgree` |
| `glob_match` | two characters and the star, patterns and names up to 4 characters, fair | `TypeOK`, `MatchesMeaning`, `Terminates`, and `EveryStepAdvances`, the reason for it |
| `docs_rebuilder` | 1 thread that looks up, 1 that builds both indexes, 2 topics and a user, 3 files, 1 alias, 1 change, 1 fault | `TypeOK`; `AnswersWereMeant`; `OwnFileIsShown`; `CurrentIndexIsRight` for indexes built side by side; `SettledStaysRight` for builders that overtake each other |
| `reconnect` | 3 calls side by side, any number of outages, fair | `TypeOK`; `NeverStranded`, `DialogTellsConnection`, `ButtonIsThere`; `LivePageIsKept`, `OnlyLostCircuitsReload`; `EventuallyBack` |
| `topics_page` | 1 topic, the empty text and one that does not match, 2 runs of `RefreshNow`, 2 snapshots, 2 events on their way, fair | `TypeOK`; `BusyMeansRefreshing`, `TableHasSnapshot`, `TableShowsFilter`; `ScreenNeverGoesBack`; `ButtonComesBack`, `RefreshNowIsSeen` |

**Bounds.** Two refreshers are enough for every overlap of two writes, and a
refresher starts again any number of times. One change of version makes two
versions, and two (the host alone) make three: a snapshot whose parts straddle a
change and one that is older than another. A clock that runs to 1 or 2 orders
stamps, and equal stamps happen too. Three changes of the facts fall anywhere among the seven calls of a
read. The five ACLs cover prefixed, literal and wildcard patterns, read, write
and all, topic and group resources, allow and deny; the filters are none, one
environment, an excluded user. Patterns of four characters have two stars with
something between and behind them, which is where backtracking to the last star
could go wrong. Two builders are enough for one to overtake the other; one
change comes before, between or after the steps of either; the files begin as any
subset with any aliases. Three calls are two that overlap and one that finds what
they left. Two presses in flight are a press sent before the button was disabled;
two snapshots are one that comes between two reads; two events are a text typed
behind a press, or two texts. The theorems below remove the bounds for
all safety properties.

**Fairness.** `WF` of the loop's own steps, of the timer and of each refresh
that runs: every call to the brokers carries a request timeout, every exception
of a refresh is caught or ends it, and the thread pool runs what is ready. The
cluster, the brokers, the operator, presses and pages owe nothing: without
`<>[](reachable /\ ~stopping)` nothing is promised. `WF` is enough as a started
refresh stays enabled until it moves. The circuit's dispatcher takes its work in
order, so what waits while renders come and go gets its turn (`SF` of the events
and of what follows an await); a refresh ends, as above. In the browser a call of
Blazor settles, Blazor's own attempts end, a page loads or fails to; the user only
has to leave the tab and come back now and then, as a premise of `EventuallyBack`.
`Terminates` assumes that a loop takes its next step. `DocumentationStore` has no
fairness: what it promises is safety.

**Where the code and its documents part.** Five runs are expected to fail.
For each of them something is also proved that says exactly how far the document
is right: what the disagreement needs, or that there is nothing behind it.

- `refresh_atomic`: `ISnapshotStore.SetSnapshot` is documented to replace the
  snapshot and clear the error atomically. It is two writes; between them a page
  shows the new time beside the old error. `KeepsPromise` shows that this is
  all: counting a half-done swap as done, the store is atomic (`ImplementsPromise`).
- `refresh_recent`: `Current` is documented as the most recently captured
  snapshot. With overlapping refreshes the older one may be stored last and
  stays until the next refresh. Without presses it cannot
  (`MostRecentWithoutPresses`).
- `refresh_crash`: a comment says that a refresh must never crash the host. What
  `RefreshAsync` throws is caught, but the resolution of the service (and with
  it the construction of the admin client from settings) and the construction
  of the timer are outside, and the generic host stops when `ExecuteAsync`
  throws. With settings that both accept no refresh does it
  (`GoodSettingsKeepHostUp`).
- `docs_outage`: `DocumentationLookup.Content` is documented as null when no file
  exists. A directory that cannot be listed at the first lookup (the code logs
  it) is indexed as empty, the empty index is kept, and files that were there
  all the time stay missing. Without faults it never happens
  (`NullMeansNoFileWithoutFaults`).
- `topics_loading`: the design document says that the pages show a loading state
  until the first snapshot lands, and a manual test of the plan that the list
  populates then. The page asks once; nothing renders it again, not even its own
  Refresh now, which renders the header. (Typing is not possible: the filter comes
  with the table.) It loads for ever until it is opened
  anew: `LoadingIsForGood`.

Two more have no run. `FileDocumentationStore.Rebuild` is documented to swap in both
indexes atomically (`FileDocumentationStore.cs:94`); it swaps in one, builds the other
and swaps that in, and the model has the two `Assign` steps. No page asks both
indexes, so nobody sees the state in between, and nothing calls `Rebuild` yet. The
design document of 2026-06-12 has the builder flag orphans; no such code exists, so
there is nothing to model.

## 4. What is proved

`ClusterRefreshProofs`, for any set of refreshers, pages, messages and any bounds:

- `TypeCorrect`: `TypeOK` is invariant.
- `StatusIsWhole`: `ReadyStatusHasTime`, inductive once strengthened with the
  fact that a page that saw "ready" saw a store that keeps its snapshot.
- `NeverSilent`: `NeverSilentlyEmpty`. On its own it is not inductive: the second
  write of `SetSnapshot` may clear the only error. It is with the fact that a
  refresher between the two writes has already put a snapshot there, and that
  the host's first refresh ends with a snapshot or an error behind it.
- `ImplementsPromise`: `KeepsPromise`, by step refinement, from `ReadsAreInWindow`
  (a draft's parts were read since its refresh began, in order) and `HostAhead`
  (without Refresh now, the draft is ahead of what is served). The mapping shows
  the error as cleared while any refresher is between the two writes, so
  `SwapCurrent` maps to `Publish`, `ClearError` to a stutter, and a `SetError`
  in between to `Fail` or a stutter.
- `ShownTimeForward`: `ShownTimeNeverGoesBack` when `Manual = {}`, and
  `MostRecentWithoutPresses`: then `Current` is the most recently captured snapshot.
  Both from `HostIsAhead`.
- `FreshStays`: `StaysFresh`. A store that is fresh stays fresh although refreshes
  overlap in any order, as long as every one that runs began behind the last
  change (`CalmDraftIsFresh`: its draft can then only hold the version there is) and
  none is about to record a failure. That second half is needed: an old failure
  recorded late makes a fresh store look failed. It is the safety half of
  `EventuallyFresh`.
- `StoppingOnlyShortens`: `StopShortensHost`. `StepsByPlace` tabulates the distance to
  the end. A host that is stopped finishes the part it is in, which for the groups may
  be several calls more, and goes to the next check or to the record of a failure;
  only from the last part, behind which there is no check, it goes on to publish,
  which is why that one is farthest from the end. It is the variant of `StopEndsHost`.
- `GoodSettingsKeepHostUp`: `RefreshNeverCrashesHost` of every behaviour whose settings
  are good at the start; nothing changes them later (`GoodHostRuns`).

`ClusterGraphProofs`: `BuildIsMonotone` and `ApplyIsMonotone` (more facts, more
graph), `BuildJoinsNodes`, `FilterThenBuild` (filter then build equals build then
restrict), `ExcludedNeverAppear`. No assumption but that prefixes are a relation
on names and principals have names.

`ClusterQueriesProofs`: `TopicPageShowsTheFacts` follows the topic page from the raw
facts through filter, builder (`SourcesOfEdges`) and query: a user is shown as
producer or reader iff an ACL says so, or a group of the environment that has
offsets in the topic. `ViewsAreMonotone`: more graph, more on the detail pages.
This is not obvious of the readers, which `GetTopic` lists as those that are no
member of a listed group: a difference, that shrinks when groups appear.
`ReadersShown` says that the page as a whole shows a union. `ClosedGraphsAgree`: for
any graph whose edges join nodes of it and that has finitely many groups, the pages
agree. The counts of the lists
and the rows of the pages are of different things (group names, rows with a
principal or none); `OneLinePerGroup` counts them alike by a bijection between the
groups and their rows.

`ClusterReaderProofs`: `TypeCorrect`, `TornReadsAreBounded`, `GraphIsClosed`,
`GraphIsOfOneEnvironment`, `PagesAlwaysAgree`. The inductive invariant is
`ReadSoFar`: after each call, the part read lies between `always` and `ever` of that
part, and the offsets of a group already asked for contain those that always held.
`TornReadsAreBounded` is then monotonicity of `Apply` and `Build`, and
`TornPagesAreBounded` (`PagesTornWithinBounds`) that of the views behind them.
`UndisturbedReadsAreExact` is its special case where the bounds meet: a read during
which nothing changed gives the very graph of the facts.
`PagesAlwaysAgree` is `ClosedGraphsAgree` of a graph that `GraphIsClosed` closes, and
assumes finitely many names, as counting does.

`GlobMatchProofs`, for any characters, patterns and names:

- `StaysInRange`: `TypeOK`, with `Positions` (the star is behind `p`, its mark not
  behind `n`), so no step indexes outside a string.
- `MatchesIsRight`: `MatchesMeaning`. That TRUE is right rests on `PassedIsLaid`:
  what was passed of the pattern lies along what was passed of the name, and the
  part before the last star can be laid so that the star may begin at its mark.
  That FALSE is right, which is the reason for backtracking to the last star
  only, rests on `NothingIsMissed`: any way to lay out the whole pattern lets the
  last star run at least as far as it was tried.
- `LoopAdvances`: `EveryStepAdvances`. With every step the last star, its mark and the
  pattern position grow in this lexicographic order, or the loop is left: the variant
  behind `Terminates`. A step back in the pattern is paid for by the mark.

`DocumentationStoreProofs`, for any files, names, aliases, threads and bounds:

- `StoreTypeCorrect`: `TypeOK`.
- `AnswersAlwaysWereMeant`, `OwnFileIsAlwaysShown`, `CurrentIndexIsAlwaysRight`:
  the three properties, from one invariant `IInv`. Its centre is `Good`, said of
  any index that is being built, held or kept, with the files still to be
  scanned: it is `Sound` (what it finds for a name was meant for it), `Complete`
  (a file that was there all the time is in it, or to come) and `Exact` (if no
  change came after its building began, it is what the files say). None of the
  three properties is inductive: a thread answers from an index that another one
  built long ago. `ThreadKeepsInvariant` is the common part of all steps of a
  thread; `TypeOK` and `IInv` were checked with TLC first.
- `SettledIndexStaysRight`: `SettledStaysRight`. What the others do with indexes of
  other kinds leaves it alone (`SettledByOthers`); what a builder of the same kind
  assigns was begun behind the last change and is therefore `Exact`, and an exact
  index serves every name (`ExactIndexServes`).
- `NullMeansNoFileWithoutFaults`: `NullOnlyWithoutFile` when `MaxFaults = 0`, from
  the same invariant in the state that `Read` leads to.

`ReconnectModalProofs`, for any set of calls:

- `TypeCorrect`: `TypeOK`. `StepCases` takes a step of `Next` apart once for all.
- `AlwaysTriesAgain`, `DialogIsRight`, `ButtonsAreRight` (`NeverStranded`,
  `DialogTellsConnection`, `ButtonIsThere`) from one invariant, `DialogInv`, that
  `DialogStep` proves for every event and every outcome of a call: the class of the
  dialog follows what Blazor told it last, whatever call settles late, and a call
  that gives up leaves the listener behind it.
- `LoneCallsKeepPage`: `LivePageIsKept`. `LoneCallStep` is why: where nothing is left
  of an overlap at most one call waits, a retry waits only where Blazor gave up, a resume
  only where the server paused.
- `OnlyLostCircuitsAreReloaded`: `OnlyLostCircuitsReload`, which also speaks
  of pages that are not connected. It needs `CircuitInv` besides: the circuit of a
  paused page is not held by the server, nor is that of a lone call that was told so,
  as nobody else gets it back meanwhile. So a call that is refused both a
  reconnection and a resumption was refused by a server that has lost the circuit.

`TopicsPageProofs`, for any finite set of topics and any bounds:

- `TypeCorrect`: `TypeOK`.
- `ButtonTellsRefreshing`, `TableIsOfSnapshot`, `TableFollowsFilter`
  (`BusyMeansRefreshing`, `TableHasSnapshot`, `TableShowsFilter`) from `IInv`, the
  conjunction of `TypeOK` with `Busy`, `Serving` and `Filtering`: the circuit's own
  flag is set only with a run behind it; a render that has got past its first read
  found a snapshot, and what it has read so far is in order; the last text that is
  on its way, or else the circuit's filter, is the text in the box. `InboxGrows` and
  `InboxShrinks` say what sending and taking an event do to that last text. `IInv`
  was checked with TLC first.
- `ScreenGoesForward`: `ScreenNeverGoesBack`, from `Behind`: what is on the screen is
  no newer than what the store serves, and no newer than what a render that is under
  way has read. This is what makes the order of a render's two reads safe.
- `LoadingIsForGood`, from `BoxComesWithTable`: no text is typed or on its way where
  there is no table, and only an event of the box renders the page again.

Only model-checked: liveness (`EventuallyFresh`, `StopEndsHost`, `Terminates`,
`EventuallyBack`, `ButtonComesBack`, `RefreshNowIsSeen`), as fairness and `ENABLED` are
out of the prover's reach. Of the first three the safety half is proved, the part
that does not depend on fairness: `StaysFresh`, `StopShortensHost`,
`EveryStepAdvances`. Every invariant and every action property of a passing run
is a theorem.

## 5. What is not modelled, and the plan

Not modelled and not planned: rendering of markdown, the introduction file, the
vendored assets, the seeding script (no state, or not the project's code).

Planned, in this order:

1. Composition of `ClusterReader` with `ClusterRefresh`: the version of a draft
   replaced by the facts, `StaleButServing` with `TornWithinBounds` as its
   condition on a published snapshot.
2. Documentation in the views: the lists ask `HasDocumentation` name by name, so
   one list may be answered from two indexes; slugs as functions of characters.
3. An abstract documentation store (a lookup answers from the files as they were
   at some time) that `DocumentationStore` implements on a still directory.
4. Proofs of the same bounds for the composed system.
