------------------------- MODULE ClusterRefreshProofs -------------------------
(***************************************************************************)
(* Theorems about ClusterRefresh, for every number of pages and of presses *)
(* of "Refresh now", and for every bound on versions and time.             *)
(***************************************************************************)
EXTENDS ClusterRefresh, TLAPS

(* The steps that run one refresh are all there is to say about pc, draft  *)
(* and begun.                                                              *)
USE DEF ConstantsAssumption, Refresher, Version, Time, Reading, Checking, Running, Resting, Draft, Status,
        environment, store, host, tasks, vars

LEMMA Typing == ASSUME TypeOK, [Next]_vars PROVE TypeOK'
<1> USE ConstantsAssumption DEF TypeOK
<1>1. CASE Environment
  <2>1. CASE ClusterChanges
    BY <2>1 DEF ClusterChanges
  <2>2. CASE BrokersComeAndGo
    BY <2>2 DEF BrokersComeAndGo
  <2>3. CASE ClockAdvances
    BY <2>3 DEF ClockAdvances
  <2>4. CASE StopRequested
    BY <2>4 DEF StopRequested
  <2> QED BY <1>1, <2>1, <2>2, <2>3, <2>4 DEF Environment
<1>2. CASE HostLoop
  <2>1. CASE HostBegins
    BY <2>1 DEF HostBegins, Begin
  <2>2. CASE HostFailsToResolve
    BY <2>2 DEF HostFailsToResolve
  <2>3. CASE HostStartsTimer
    BY <2>3 DEF HostStartsTimer
  <2>4. CASE HostLoops
    BY <2>4 DEF HostLoops
  <2>5. CASE HostStops
    BY <2>5 DEF HostStops
  <2> QED BY <1>2, <2>1, <2>2, <2>3, <2>4, <2>5 DEF HostLoop
<1>3. CASE TimerTicks
  BY <1>3 DEF TimerTicks
<1>4. ASSUME NEW r \in Manual, Press(r) PROVE TypeOK'
  BY <1>4 DEF Press, Begin, EmptyDraft
<1>5. ASSUME NEW r \in Refresher, Proceed(r) PROVE TypeOK'
  <2>1. CASE ReadPart(r) \/ PassCheck(r)
    BY <2>1 DEF ReadPart, PassCheck, After
  <2>2. CASE ReadFails(r) \/ Cancel(r)
    BY <2>2 DEF ReadFails, Cancel, EmptyDraft
  <2>3. CASE Stamp(r)
    BY <2>3 DEF Stamp
  <2>4. CASE SwapCurrent(r)
    BY <2>4 DEF SwapCurrent, EmptyDraft
  <2>5. CASE ClearError(r) \/ SetError(r)
    BY <2>5 DEF ClearError, SetError, Return
  <2> QED BY <1>5, <2>1, <2>2, <2>3, <2>4, <2>5 DEF Proceed
<1>6. ASSUME NEW p \in Reader, GetStatus(p) PROVE TypeOK'
  <2>1. CASE ReadIsReady(p)
    BY <2>1 DEF ReadIsReady
  <2>2. CASE ReadLastRefresh(p)
    BY <2>2 DEF ReadLastRefresh, CapturedAt
  <2>3. CASE ReadLastError(p)
    BY <2>3 DEF ReadLastError
  <2> QED BY <1>6, <2>1, <2>2, <2>3 DEF GetStatus
<1>7. CASE UNCHANGED vars
  BY <1>7
<1> QED BY <1>1, <1>2, <1>3, <1>4, <1>5, <1>6, <1>7 DEF Next

(* Every variable keeps to the values the code can give it.                *)
THEOREM TypeCorrect == Spec => []TypeOK
<1>1. ASSUME Init PROVE TypeOK
  <2> USE <1>1, ConstantsAssumption DEF Init
  <2>1. draft \in [Refresher -> Draft] /\ begun \in [Refresher -> Version]
    BY DEF EmptyDraft
  <2>2. status \in [Reader -> Status]
    OBVIOUS
  <2>3. pc \in [Refresher -> Running \cup Resting]
    OBVIOUS
  <2>4. reachable \in BOOLEAN /\ stopping \in BOOLEAN
    OBVIOUS
  <2> QED BY <2>1, <2>2, <2>3, <2>4 DEF TypeOK
<1> QED BY <1>1, Typing, PTL DEF Spec

------------------------------------------------------------------------------
(* A status that says "ready" has a time, because a snapshot, once there,  *)
(* stays: between the read of IsReady and that of LastRefresh too.         *)

ReadyMeansSnapshot ==
  \A p \in Reader : status[p].ready => current # NoSnapshot

THEOREM StatusIsWhole == Spec => []ReadyStatusHasTime
<1> DEFINE Inv == ReadyMeansSnapshot /\ ReadyStatusHasTime
<1>1. Init => Inv
  BY DEF Init, ReadyMeansSnapshot, ReadyStatusHasTime
<1>2. ASSUME TypeOK, Inv, [Next]_vars PROVE Inv'
  <2> USE <1>2 DEF ReadyMeansSnapshot, ReadyStatusHasTime
  <2>1. ASSUME UNCHANGED <<current, status>> PROVE Inv'
    BY <2>1
  <2>2. CASE Environment
    BY <2>1, <2>2 DEF Environment, ClusterChanges, BrokersComeAndGo, ClockAdvances, StopRequested
  <2>3. CASE HostLoop
    BY <2>1, <2>3 DEF HostLoop, HostBegins, HostFailsToResolve, HostStartsTimer, HostLoops, HostStops
  <2>4. CASE TimerTicks \/ UNCHANGED vars
    BY <2>1, <2>4 DEF TimerTicks
  <2>5. ASSUME NEW r \in Manual, Press(r) PROVE Inv'
    BY <2>1, <2>5 DEF Press
  <2>6. ASSUME NEW r \in Refresher, Proceed(r) PROVE Inv'
    <3>1. CASE SwapCurrent(r)
      BY <3>1, ConstantsAssumption DEF SwapCurrent, TypeOK
    <3>2. CASE ~SwapCurrent(r)
      BY <2>1, <2>6, <3>2
      DEF Proceed, ReadPart, ReadFails, PassCheck, Cancel, Stamp, ClearError, SetError
    <3> QED BY <3>1, <3>2
  <2>7. ASSUME NEW p \in Reader, GetStatus(p) PROVE Inv'
    <3>1. CASE ReadIsReady(p)
      BY <3>1 DEF ReadIsReady, TypeOK
    <3>2. CASE ReadLastRefresh(p)
      <4>1. current # NoSnapshot => CapturedAt # NoTime
        BY ConstantsAssumption DEF CapturedAt, TypeOK
      <4> QED BY <3>2, <4>1 DEF ReadLastRefresh, TypeOK
    <3>3. CASE ReadLastError(p)
      BY <3>3 DEF ReadLastError, TypeOK
    <3> QED BY <2>7, <3>1, <3>2, <3>3 DEF GetStatus
  <2> QED BY <2>2, <2>3, <2>4, <2>5, <2>6, <2>7 DEF Next
<1> QED BY <1>1, <1>2, TypeCorrect, PTL DEF Spec

------------------------------------------------------------------------------
(* After the first refresh there is always a snapshot or an error to show. *)

SomethingToShow == current # NoSnapshot \/ lastError # NoError

EmptinessExplained ==
  /\ \A r \in Refresher : pc[r] = "clear" => current # NoSnapshot
  /\ pc[Host] = "returned" => SomethingToShow
  /\ NeverSilentlyEmpty

THEOREM NeverSilent == Spec => []NeverSilentlyEmpty
<1>1. Init => EmptinessExplained
  BY DEF Init, EmptinessExplained, NeverSilentlyEmpty
<1>2. ASSUME TypeOK, EmptinessExplained, [Next]_vars PROVE EmptinessExplained'
  <2> USE <1>2 DEF EmptinessExplained, NeverSilentlyEmpty, SomethingToShow
  <2>1. CASE Environment
    BY <2>1 DEF Environment, ClusterChanges, BrokersComeAndGo, ClockAdvances, StopRequested
  <2>2. CASE HostLoop
    <3> USE DEF TypeOK
    <3>1. CASE HostBegins
      BY <3>1 DEF HostBegins, HostIsDue, Begin
    <3>2. CASE HostFailsToResolve \/ HostStops
      BY <3>2 DEF HostFailsToResolve, HostStops
    <3>3. CASE HostStartsTimer \/ HostLoops
      BY <3>3 DEF HostStartsTimer, HostLoops
    <3> QED BY <2>2, <3>1, <3>2, <3>3 DEF HostLoop
  <2>3. CASE TimerTicks \/ UNCHANGED vars
    BY <2>3 DEF TimerTicks
  <2>4. ASSUME NEW r \in Manual, Press(r) PROVE EmptinessExplained'
    BY <2>4, ConstantsAssumption DEF Press, Begin, TypeOK
  <2>5. ASSUME NEW r \in Refresher, Proceed(r) PROVE EmptinessExplained'
    <3> USE ConstantsAssumption DEF TypeOK
    <3>1. CASE ReadPart(r) \/ PassCheck(r)
      BY <3>1 DEF ReadPart, PassCheck, After
    <3>2. CASE ReadFails(r) \/ Cancel(r) \/ Stamp(r)
      BY <3>2 DEF ReadFails, Cancel, Stamp
    <3>3. CASE SwapCurrent(r)
      BY <3>3 DEF SwapCurrent
    <3>4. CASE ClearError(r)
      BY <3>4 DEF ClearError, Return
    <3>5. CASE SetError(r)
      BY <3>5 DEF SetError, Return
    <3> QED BY <2>5, <3>1, <3>2, <3>3, <3>4, <3>5 DEF Proceed
  <2>6. ASSUME NEW p \in Reader, GetStatus(p) PROVE EmptinessExplained'
    BY <2>6 DEF GetStatus, ReadIsReady, ReadLastRefresh, ReadLastError
  <2> QED BY <2>1, <2>2, <2>3, <2>4, <2>5, <2>6 DEF Next
<1>3. EmptinessExplained => NeverSilentlyEmpty
  BY DEF EmptinessExplained
<1> QED BY <1>1, <1>2, <1>3, TypeCorrect, PTL DEF Spec
------------------------------------------------------------------------------
(* What a draft and the store hold was read in the past, and a draft's     *)
(* parts after its refresh began.                                          *)

LEMMA WindowStep == ASSUME TypeOK, ReadsInWindow, [Next]_vars PROVE ReadsInWindow'
<1> USE ConstantsAssumption DEF TypeOK, ReadsInWindow, InWindow
<1>1. CASE Environment
  <2>1. CASE ClusterChanges
    BY <2>1 DEF ClusterChanges
  <2>2. CASE ClockAdvances
    BY <2>2 DEF ClockAdvances
  <2>3. CASE BrokersComeAndGo \/ StopRequested
    BY <2>3 DEF BrokersComeAndGo, StopRequested
  <2> QED BY <1>1, <2>1, <2>2, <2>3 DEF Environment
<1>2. CASE HostLoop
  <2>1. CASE HostBegins
    BY <2>1 DEF HostBegins, Begin
  <2>2. CASE HostFailsToResolve \/ HostStops
    BY <2>2 DEF HostFailsToResolve, HostStops
  <2>3. CASE HostStartsTimer \/ HostLoops
    BY <2>3 DEF HostStartsTimer, HostLoops
  <2> QED BY <1>2, <2>1, <2>2, <2>3 DEF HostLoop
<1>3. CASE TimerTicks \/ UNCHANGED vars
  BY <1>3 DEF TimerTicks
<1>4. ASSUME NEW r \in Manual, Press(r) PROVE ReadsInWindow'
  BY <1>4 DEF Press, Begin
<1>5. ASSUME NEW r \in Refresher, Proceed(r) PROVE ReadsInWindow'
  <2>1. CASE ReadPart(r) \/ PassCheck(r)
    BY <2>1 DEF ReadPart, PassCheck, After
  <2>2. CASE ReadFails(r) \/ Cancel(r)
    BY <2>2 DEF ReadFails, Cancel
  <2>3. CASE Stamp(r)
    BY <2>3 DEF Stamp
  <2>4. CASE SwapCurrent(r)
    BY <2>4 DEF SwapCurrent
  <2>5. CASE ClearError(r) \/ SetError(r)
    BY <2>5 DEF ClearError, SetError, Return
  <2> QED BY <1>5, <2>1, <2>2, <2>3, <2>4, <2>5 DEF Proceed
<1>6. ASSUME NEW p \in Reader, GetStatus(p) PROVE ReadsInWindow'
  BY <1>6 DEF GetStatus, ReadIsReady, ReadLastRefresh, ReadLastError
<1> QED BY <1>1, <1>2, <1>3, <1>4, <1>5, <1>6 DEF Next

LEMMA WindowInit == ASSUME Init PROVE ReadsInWindow
  BY ConstantsAssumption DEF Init, ReadsInWindow, InWindow

THEOREM ReadsAreInWindow == Spec => []ReadsInWindow
  BY WindowInit, WindowStep, TypeCorrect, PTL DEF Spec

LEMMA AheadStep ==
  ASSUME TypeOK, ReadsInWindow, HostIsAhead, [Next]_vars
  PROVE  HostIsAhead'
<1> SUFFICES ASSUME Manual = {} PROVE HostIsAhead'
  BY DEF HostIsAhead
<1>0. Refresher = {Host}
  OBVIOUS
<1> USE ConstantsAssumption DEF TypeOK, ReadsInWindow, InWindow, HostIsAhead
<1>1. CASE Environment
  BY <1>1 DEF Environment, ClusterChanges, BrokersComeAndGo, ClockAdvances, StopRequested
<1>2. CASE HostLoop
  <2>1. CASE HostBegins
    BY <2>1 DEF HostBegins, Begin
  <2>2. CASE HostFailsToResolve \/ HostStops
    BY <2>2 DEF HostFailsToResolve, HostStops
  <2>3. CASE HostStartsTimer \/ HostLoops
    BY <2>3 DEF HostStartsTimer, HostLoops
  <2> QED BY <1>2, <2>1, <2>2, <2>3 DEF HostLoop
<1>3. CASE TimerTicks \/ UNCHANGED vars
  BY <1>3 DEF TimerTicks
<1>4. ASSUME Proceed(Host) PROVE HostIsAhead'
  <2>1. CASE ReadPart(Host) \/ PassCheck(Host)
    BY <2>1 DEF ReadPart, PassCheck, After
  <2>2. CASE ReadFails(Host) \/ Cancel(Host)
    BY <2>2 DEF ReadFails, Cancel
  <2>3. CASE Stamp(Host)
    BY <2>3 DEF Stamp
  <2>4. CASE SwapCurrent(Host)
    BY <2>4 DEF SwapCurrent
  <2>5. CASE ClearError(Host) \/ SetError(Host)
    BY <2>5 DEF ClearError, SetError, Return
  <2> QED BY <1>4, <2>1, <2>2, <2>3, <2>4, <2>5 DEF Proceed
<1>5. ASSUME NEW p \in Reader, GetStatus(p) PROVE HostIsAhead'
  BY <1>5 DEF GetStatus, ReadIsReady, ReadLastRefresh, ReadLastError
<1> QED BY <1>0, <1>1, <1>2, <1>3, <1>4, <1>5 DEF Next

(* With the hosted service alone, what it is about to publish is at least  *)
(* as recent as what is served.                                            *)
THEOREM HostAhead == Spec => []HostIsAhead
<1>1. Init => HostIsAhead
  BY DEF Init, HostIsAhead
<1> QED BY <1>1, AheadStep, ReadsAreInWindow, TypeCorrect, PTL DEF Spec

------------------------------------------------------------------------------
(* The implementation of StaleButServing.                                  *)

(* The steps that neither swap, nor record an error, nor begin a refresh   *)
(* change nothing that the abstract store has but the cluster's version.   *)
LEMMA Stutters ==
  ASSUME UNCHANGED <<version, begun, current, lastError>>,
         HalfSwapped' = HalfSwapped
  PROVE  UNCHANGED Promise!vars
  BY DEF Promise!vars

LEMMA StepKeepsPromise ==
  ASSUME TypeOK, TypeOK', ReadsInWindow, HostIsAhead, [Next]_vars
  PROVE  [Promise!Next]_(Promise!vars)
<1> USE ConstantsAssumption DEF TypeOK
<1>1. CASE Environment
  <2>1. CASE ClusterChanges
    <3>1. HalfSwapped' = HalfSwapped
      BY <2>1 DEF ClusterChanges, HalfSwapped
    <3> QED BY <2>1, <3>1 DEF ClusterChanges, Promise!Next, Promise!ClusterChanges
  <2>2. CASE BrokersComeAndGo \/ ClockAdvances \/ StopRequested
    BY <2>2, Stutters DEF BrokersComeAndGo, ClockAdvances, StopRequested, HalfSwapped
  <2> QED BY <1>1, <2>1, <2>2 DEF Environment
<1>2. ASSUME NEW r \in Refresher, r = Host \/ pc[r] = "idle", pc[r] # "clear",
             Begin(r), UNCHANGED <<version, store>>
      PROVE  [Promise!Next]_(Promise!vars)
  <2>1. HalfSwapped' = HalfSwapped
    BY <1>2 DEF Begin, HalfSwapped
  <2> QED BY <1>2, <2>1 DEF Begin, Promise!Next, Promise!Request
<1>3. CASE HostLoop
  <2>1. CASE HostBegins
    BY <2>1, <1>2 DEF HostBegins, HostIsDue
  <2>2. CASE HostFailsToResolve \/ HostStops
    BY <2>2, Stutters DEF HostFailsToResolve, HostIsDue, HostStops, HalfSwapped
  <2>3. CASE HostStartsTimer \/ HostLoops
    BY <2>3, Stutters DEF HostStartsTimer, HostLoops, HalfSwapped
  <2> QED BY <1>3, <2>1, <2>2, <2>3 DEF HostLoop
<1>4. CASE TimerTicks \/ UNCHANGED vars
  BY <1>4, Stutters DEF TimerTicks, HalfSwapped
<1>5. ASSUME NEW r \in Manual, Press(r) PROVE [Promise!Next]_(Promise!vars)
  BY <1>5, <1>2 DEF Press
<1>6. ASSUME NEW r \in Refresher, Proceed(r) PROVE [Promise!Next]_(Promise!vars)
  <2>1. CASE ReadPart(r) \/ PassCheck(r)
    BY <2>1, Stutters DEF ReadPart, PassCheck, After, HalfSwapped
  <2>2. CASE ReadFails(r) \/ Cancel(r) \/ Stamp(r)
    BY <2>2, Stutters DEF ReadFails, Cancel, SeesCancellation, Stamp, HalfSwapped
  <2>3. CASE SwapCurrent(r)
    <3>1. HalfSwapped'
      BY <2>3 DEF SwapCurrent, HalfSwapped
    <3>2. /\ current' \in [first : Nat, last : Nat, at : Nat]
          /\ begun[r] <= current'.first
          /\ current'.first <= current'.last
          /\ current'.last <= version
      BY <2>3 DEF SwapCurrent, ReadsInWindow, InWindow
    <3>3. Manual = {} /\ current # NoSnapshot =>
            current.last <= current'.first /\ current.at <= current'.at
      BY <2>3 DEF SwapCurrent, HostIsAhead, ReadsInWindow, InWindow
    <3>4. Promise!Publish(r)
      BY <2>3, <3>1, <3>2, <3>3 DEF SwapCurrent, Promise!Publish, Promise!Supersedes
    <3> QED BY <3>4 DEF Promise!Next
  <2>4. CASE ClearError(r)
    <3>1. HalfSwapped /\ lastError' = NoError
      BY <2>4 DEF ClearError, HalfSwapped
    <3> QED BY <2>4, <3>1 DEF ClearError, Promise!vars
  <2>5. CASE SetError(r)
    <3>1. HalfSwapped' = HalfSwapped
      BY <2>5 DEF SetError, Return, HalfSwapped
    <3>2. CASE HalfSwapped
      BY <2>5, <3>1, <3>2 DEF SetError, Promise!vars
    <3>3. CASE ~HalfSwapped
      BY <2>5, <3>1, <3>3 DEF SetError, Promise!Next, Promise!Fail
    <3> QED BY <3>2, <3>3
  <2> QED BY <1>6, <2>1, <2>2, <2>3, <2>4, <2>5 DEF Proceed
<1>7. ASSUME NEW p \in Reader, GetStatus(p) PROVE [Promise!Next]_(Promise!vars)
  BY <1>7, Stutters DEF GetStatus, ReadIsReady, ReadLastRefresh, ReadLastError, HalfSwapped
<1> QED BY <1>1, <1>3, <1>4, <1>5, <1>6, <1>7 DEF Next

(* The threads, the timer and the two volatile writes implement the atomic *)
(* store, for any number of concurrent presses of "Refresh now"; and with  *)
(* none, in the stronger form in which what is served never goes back.     *)
THEOREM ImplementsPromise == Spec => KeepsPromise
<1>1. Init => Promise!Init
  BY DEF Init, Promise!Init, HalfSwapped
<1> QED
  BY <1>1, StepKeepsPromise, TypeCorrect, ReadsAreInWindow, HostAhead, PTL
  DEF Spec, KeepsPromise, Promise!Spec
------------------------------------------------------------------------------
(* "Last refreshed", as a page shows it.                                   *)

ShownTimeIsPast ==
  Manual = {} =>
    \A p \in Reader :
      status[p].at # NoTime => current # NoSnapshot /\ status[p].at <= current.at

LEMMA ShownTimeStep ==
  ASSUME TypeOK, HostIsAhead, ShownTimeIsPast, [Next]_vars, Manual = {}
  PROVE  /\ ShownTimeIsPast'
         /\ \A p \in Reader : status[p].at # NoTime =>
              status'[p].at # NoTime /\ status[p].at <= status'[p].at
<1> DEFINE Goal == /\ ShownTimeIsPast'
                   /\ \A p \in Reader : status[p].at # NoTime =>
                        status'[p].at # NoTime /\ status[p].at <= status'[p].at
<1> USE ConstantsAssumption DEF TypeOK, ShownTimeIsPast
<1>0. \A p \in Reader : status[p].at # NoTime => status[p].at \in Nat
  OBVIOUS
<1>1. ASSUME UNCHANGED <<current, status>> PROVE Goal
  BY <1>0, <1>1
<1>2. CASE Environment
  BY <1>1, <1>2 DEF Environment, ClusterChanges, BrokersComeAndGo, ClockAdvances, StopRequested
<1>3. CASE HostLoop
  BY <1>1, <1>3 DEF HostLoop, HostBegins, HostFailsToResolve, HostStartsTimer, HostLoops, HostStops
<1>4. CASE TimerTicks \/ UNCHANGED vars
  BY <1>1, <1>4 DEF TimerTicks
<1>5. ASSUME NEW r \in Refresher, Proceed(r) PROVE Goal
  <2>1. CASE SwapCurrent(r)
    <3>1. r = Host
      OBVIOUS
    <3>2. current # NoSnapshot => current.at <= current'.at
      BY <2>1, <3>1 DEF SwapCurrent, HostIsAhead
    <3>3. current' # NoSnapshot /\ current'.at \in Nat
      BY <2>1 DEF SwapCurrent
    <3>4. current # NoSnapshot => current.at \in Nat
      OBVIOUS
    <3> QED BY <1>0, <2>1, <3>2, <3>3, <3>4 DEF SwapCurrent
  <2>2. CASE ~SwapCurrent(r)
    BY <1>1, <1>5, <2>2
    DEF Proceed, ReadPart, ReadFails, PassCheck, Cancel, Stamp, ClearError, SetError
  <2> QED BY <2>1, <2>2
<1>6. ASSUME NEW p \in Reader, GetStatus(p) PROVE Goal
  <2>1. CASE ReadIsReady(p) \/ ReadLastError(p)
    BY <1>0, <2>1 DEF ReadIsReady, ReadLastError
  <2>2. CASE ReadLastRefresh(p)
    <3>1. current # NoSnapshot => current.at \in Nat /\ CapturedAt = current.at
      BY DEF CapturedAt
    <3>2. current = NoSnapshot => CapturedAt = NoTime
      BY DEF CapturedAt
    <3>3. \A q \in Reader : status'[q].at = IF q = p THEN CapturedAt ELSE status[q].at
      BY <2>2 DEF ReadLastRefresh
    <3> QED BY <1>0, <2>2, <3>1, <3>2, <3>3 DEF ReadLastRefresh
  <2> QED BY <1>6, <2>1, <2>2 DEF GetStatus
<1> QED BY <1>2, <1>3, <1>4, <1>5, <1>6 DEF Next, Press

(* While nobody presses "Refresh now", the time a page shows as the last   *)
(* refresh never goes back, in whatever order it reads the store.          *)
THEOREM ShownTimeForward == ASSUME Manual = {} PROVE Spec => ShownTimeNeverGoesBack
<1>1. Init => ShownTimeIsPast
  BY DEF Init, ShownTimeIsPast
<1>2. TypeOK /\ HostIsAhead /\ ShownTimeIsPast /\ [Next]_vars
        => ShownTimeIsPast'
           /\ [\A p \in Reader : status[p].at # NoTime =>
                 status'[p].at # NoTime /\ status[p].at <= status'[p].at]_status
  BY ShownTimeStep, Manual = {}
<1> QED BY <1>1, <1>2, TypeCorrect, HostAhead, PTL DEF Spec, ShownTimeNeverGoesBack
------------------------------------------------------------------------------
(* Where the comments of the source that overlapping presses or bad        *)
(* settings refute do hold.                                                *)

LEMMA MostRecentStep ==
  ASSUME TypeOK, HostIsAhead, Manual = {}, current # NoSnapshot, [Next]_vars
  PROVE  current' = current \/ current'.at >= current.at
<1> USE ConstantsAssumption DEF TypeOK
<1>1. CASE SwapCurrent(Host)
  <2>1. current.at <= draft[Host].at /\ current' = draft[Host]
    BY <1>1 DEF SwapCurrent, HostIsAhead
  <2>2. current.at \in Nat /\ draft[Host].at \in Nat
    OBVIOUS
  <2> QED BY <2>1, <2>2
<1>2. CASE Proceed(Host) /\ ~SwapCurrent(Host)
  BY <1>2 DEF Proceed, ReadPart, ReadFails, PassCheck, Cancel, Stamp, ClearError, SetError
<1>3. CASE HostLoop
  BY <1>3 DEF HostLoop, HostBegins, HostFailsToResolve, HostStartsTimer, HostLoops, HostStops
<1>4. CASE Environment
  BY <1>4 DEF Environment, ClusterChanges, BrokersComeAndGo, ClockAdvances, StopRequested
<1>5. ASSUME NEW p \in Reader, GetStatus(p) PROVE UNCHANGED current
  BY <1>5 DEF GetStatus, ReadIsReady, ReadLastRefresh, ReadLastError
<1>6. CASE TimerTicks \/ UNCHANGED vars
  BY <1>6 DEF TimerTicks
<1> QED BY <1>1, <1>2, <1>3, <1>4, <1>5, <1>6 DEF Next

(* ISnapshotStore.Current is "the most recently captured snapshot" where   *)
(* nobody presses "Refresh now": the presses, and nothing else, refute it. *)
THEOREM MostRecentWithoutPresses == ASSUME Manual = {} PROVE Spec => CurrentIsMostRecent
<1>1. TypeOK /\ HostIsAhead /\ [Next]_vars
        => [current # NoSnapshot => current'.at >= current.at]_current
  BY MostRecentStep, Manual = {}
<1> QED BY <1>1, TypeCorrect, HostAhead, PTL DEF Spec, CurrentIsMostRecent

(* No refresh crashes the host that could be configured: whatever fails    *)
(* while it runs, the two ways out of ExecuteAsync are about settings.     *)
GoodHostRuns == settings = "good" /\ RefreshNeverCrashesHost

LEMMA GoodHostStep == ASSUME TypeOK, GoodHostRuns, [Next]_vars PROVE GoodHostRuns'
<1> USE ConstantsAssumption DEF TypeOK, GoodHostRuns, RefreshNeverCrashesHost
<1>1. CASE Environment
  BY <1>1 DEF Environment, ClusterChanges, BrokersComeAndGo, ClockAdvances, StopRequested
<1>2. CASE HostLoop
  BY <1>2 DEF HostLoop, HostBegins, Begin, HostFailsToResolve, HostStartsTimer, HostLoops, HostStops
<1>3. CASE TimerTicks \/ UNCHANGED vars
  BY <1>3 DEF TimerTicks
<1>4. ASSUME NEW r \in Manual, Press(r) PROVE GoodHostRuns'
  BY <1>4 DEF Press, Begin
<1>5. ASSUME NEW r \in Refresher, Proceed(r) PROVE GoodHostRuns'
  <2>1. CASE ReadPart(r) \/ PassCheck(r)
    BY <2>1 DEF ReadPart, PassCheck, After
  <2>2. CASE ReadFails(r) \/ Cancel(r) \/ Stamp(r) \/ SwapCurrent(r)
    BY <2>2 DEF ReadFails, Cancel, Stamp, SwapCurrent
  <2>3. CASE ClearError(r) \/ SetError(r)
    BY <2>3 DEF ClearError, SetError, Return
  <2> QED BY <1>5, <2>1, <2>2, <2>3 DEF Proceed
<1>6. ASSUME NEW p \in Reader, GetStatus(p) PROVE GoodHostRuns'
  BY <1>6 DEF GetStatus, ReadIsReady, ReadLastRefresh, ReadLastError
<1> QED BY <1>1, <1>2, <1>3, <1>4, <1>5, <1>6 DEF Next

THEOREM GoodSettingsKeepHostUp == Spec /\ settings = "good" => []RefreshNeverCrashesHost
<1>1. Init /\ settings = "good" => GoodHostRuns
  BY ConstantsAssumption DEF Init, GoodHostRuns, RefreshNeverCrashesHost
<1>2. TypeOK /\ GoodHostRuns /\ [Next]_vars => GoodHostRuns'
  BY GoodHostStep
<1>3. GoodHostRuns => RefreshNeverCrashesHost
  BY DEF GoodHostRuns
<1> QED BY <1>1, <1>2, <1>3, TypeCorrect, PTL DEF Spec

------------------------------------------------------------------------------
(* What is fresh stays fresh.                                              *)

(* A draft of a refresh that began at the present version is of it.        *)
LEMMA CalmDraftIsFresh ==
  ASSUME TypeOK, ReadsInWindow, NEW r \in Refresher, pc[r] = "swap", begun[r] = version
  PROVE  draft[r] # NoSnapshot /\ draft[r].first = version
<1> USE ConstantsAssumption DEF TypeOK, ReadsInWindow, InWindow
<1>1. draft[r] \in Draft /\ version \in Nat
  OBVIOUS
<1>2. version <= draft[r].first /\ draft[r].first <= draft[r].last /\ draft[r].last <= version
  OBVIOUS
<1>3. draft[r].first \in Nat /\ draft[r].last \in Nat /\ draft[r].at \in Nat
  BY <1>1
<1>4. draft[r].first = version
  <2>1. \A v, f, l \in Nat : v <= f /\ f <= l /\ l <= v => f = v
    OBVIOUS
  <2> QED BY <1>1, <1>2, <1>3, <2>1
<1>5. draft[r] # NoSnapshot
  <2>1. draft[r] = [first |-> draft[r].first, last |-> draft[r].last, at |-> draft[r].at]
    BY <1>1
  <2>3. draft[r] \in [first : Nat, last : Nat, at : Nat]
    BY <1>3, <2>1, Zenon
  <2> QED BY <2>3
<1> QED BY <1>4, <1>5

LEMMA CalmStep ==
  ASSUME TypeOK, ReadsInWindow, Calm, reachable, UNCHANGED version, [Next]_vars
  PROVE  Calm'
<1> USE ConstantsAssumption DEF TypeOK, Calm, Fresh
<1>1. CASE Environment
  BY <1>1 DEF Environment, ClusterChanges, BrokersComeAndGo, ClockAdvances, StopRequested
<1>2. CASE HostLoop
  <2>1. CASE HostBegins
    BY <2>1 DEF HostBegins, Begin
  <2>2. CASE HostFailsToResolve \/ HostStops
    BY <2>2 DEF HostFailsToResolve, HostStops
  <2>3. CASE HostStartsTimer \/ HostLoops
    BY <2>3 DEF HostStartsTimer, HostLoops
  <2> QED BY <1>2, <2>1, <2>2, <2>3 DEF HostLoop
<1>3. CASE TimerTicks \/ UNCHANGED vars
  BY <1>3 DEF TimerTicks
<1>4. ASSUME NEW r \in Manual, Press(r) PROVE Calm'
  BY <1>4 DEF Press, Begin
<1>5. ASSUME NEW r \in Refresher, Proceed(r) PROVE Calm'
  <2>1. CASE ReadPart(r) \/ PassCheck(r)
    BY <2>1 DEF ReadPart, PassCheck, After
  <2>2. CASE Cancel(r) \/ Stamp(r)
    BY <2>2 DEF Cancel, SeesCancellation, Stamp
  <2>3. CASE SwapCurrent(r)
    <3>1. begun[r] = version /\ pc[r] = "swap"
      BY <2>3 DEF SwapCurrent
    <3>2. current' # NoSnapshot /\ current'.first = version
      BY <2>3, <3>1, CalmDraftIsFresh DEF SwapCurrent
    <3> QED BY <2>3, <3>2 DEF SwapCurrent
  <2>4. CASE ClearError(r)
    BY <2>4 DEF ClearError, Return
  (* No part fails, and no refresh has failed that has not said so.        *)
  <2>5. CASE ReadFails(r) \/ SetError(r)
    BY <2>5 DEF ReadFails, SetError
  <2> QED BY <1>5, <2>1, <2>2, <2>3, <2>4, <2>5 DEF Proceed
<1>6. ASSUME NEW p \in Reader, GetStatus(p) PROVE Calm'
  BY <1>6 DEF GetStatus, ReadIsReady, ReadLastRefresh, ReadLastError
<1> QED BY <1>1, <1>2, <1>3, <1>4, <1>5, <1>6 DEF Next

(* The half of EventuallyFresh that needs no fairness, for any number of   *)
(* overlapping refreshes.                                                  *)
THEOREM FreshStays == Spec => StaysFresh
<1>1. TypeOK /\ ReadsInWindow /\ [Next]_vars
        => [Calm /\ reachable /\ UNCHANGED version => Calm']_vars
  BY CalmStep
<1> QED BY <1>1, TypeCorrect, ReadsAreInWindow, PTL DEF Spec, StaysFresh

------------------------------------------------------------------------------
(* What a stop request leaves to do.                                       *)

(* StepsToEnd, place by place, now and in the next state.                  *)
LEMMA StepsByPlace ==
  /\ pc[Host] \in {"stopped", "crashed"} => StepsToEnd = 0
  /\ pc[Host] \in Checking \cup {"idle"} => StepsToEnd = 1
  /\ pc[Host] = "returned" => StepsToEnd = 2
  /\ pc[Host] \in {"clear", "fail"} => StepsToEnd = 3
  /\ pc[Host] \in {"topics", "acls", "groups", "swap"} => StepsToEnd = 4
  /\ pc[Host] = "stamp" => StepsToEnd = 5
  /\ pc[Host] = "scram" => StepsToEnd = 6
  BY DEF StepsToEnd

LEMMA NextStepsByPlace ==
  /\ pc'[Host] \in {"stopped", "crashed"} => StepsToEnd' = 0
  /\ pc'[Host] \in Checking \cup {"idle"} => StepsToEnd' = 1
  /\ pc'[Host] = "returned" => StepsToEnd' = 2
  /\ pc'[Host] \in {"clear", "fail"} => StepsToEnd' = 3
  /\ pc'[Host] \in {"topics", "acls", "groups", "swap"} => StepsToEnd' = 4
  /\ pc'[Host] = "stamp" => StepsToEnd' = 5
  BY DEF StepsToEnd

LEMMA StopStep ==
  ASSUME TypeOK, stopping, [Next]_vars
  PROVE  stopping' /\ (pc'[Host] # pc[Host] => StepsToEnd' < StepsToEnd)
<1> USE ConstantsAssumption DEF TypeOK
<1> DEFINE Steps(from, to) == pc[Host] \in from /\ pc'[Host] \in to
<1>0. Host \in DOMAIN pc
  BY DEF Refresher
<1>1. CASE Environment
  BY <1>1 DEF Environment, ClusterChanges, BrokersComeAndGo, ClockAdvances, StopRequested
<1>2. CASE HostLoop
  <2>1. CASE HostBegins \/ HostFailsToResolve
    BY <2>1 DEF HostBegins, HostFailsToResolve, HostIsDue
  <2>2. CASE HostStops
    <3>1. stopping' /\ Steps({"idle"}, {"stopped"})
      BY <1>0, <2>2 DEF HostStops
    <3> QED BY <3>1, StepsByPlace, NextStepsByPlace
  <2>3. CASE HostStartsTimer \/ HostLoops
    <3>1. stopping' /\ Steps({"returned"}, {"idle", "crashed"})
      BY <1>0, <2>3 DEF HostStartsTimer, HostLoops
    <3> QED BY <3>1, StepsByPlace, NextStepsByPlace
  <2> QED BY <1>2, <2>1, <2>2, <2>3 DEF HostLoop
<1>3. CASE TimerTicks \/ UNCHANGED vars
  BY <1>3 DEF TimerTicks
<1>4. ASSUME NEW r \in Manual, Press(r) PROVE stopping' /\ pc'[Host] = pc[Host]
  BY <1>4 DEF Press, Begin
<1>5. ASSUME Proceed(Host) PROVE stopping' /\ StepsToEnd' < StepsToEnd
  (* The part that is under way is waited for, and leads to a check if it  *)
  (* is not the last.                                                      *)
  <2>1. CASE ReadPart(Host)
    <3>1. stopping' /\ \/ Steps({"topics", "acls", "groups"}, Checking)
                       \/ Steps({"scram"}, {"stamp"})
      BY <1>0, <2>1 DEF ReadPart, After
    <3> QED BY <3>1, StepsByPlace, NextStepsByPlace
  <2>2. CASE ReadFails(Host)
    <3>1. stopping' /\ Steps(Reading, {"fail"})
      BY <1>0, <2>2 DEF ReadFails
    <3> QED BY <3>1, StepsByPlace, NextStepsByPlace
  <2>3. CASE PassCheck(Host) \/ Cancel(Host)
    <3>1. stopping' /\ Steps(Checking, {"stopped"})
      BY <1>0, <2>3 DEF PassCheck, Cancel, SeesCancellation
    <3> QED BY <3>1, StepsByPlace, NextStepsByPlace
  <2>4. CASE Stamp(Host)
    <3>1. stopping' /\ Steps({"stamp"}, {"swap"})
      BY <1>0, <2>4 DEF Stamp
    <3> QED BY <3>1, StepsByPlace, NextStepsByPlace
  <2>5. CASE SwapCurrent(Host)
    <3>1. stopping' /\ Steps({"swap"}, {"clear"})
      BY <1>0, <2>5 DEF SwapCurrent
    <3> QED BY <3>1, StepsByPlace, NextStepsByPlace
  <2>6. CASE ClearError(Host) \/ SetError(Host)
    <3>1. stopping' /\ Steps({"clear", "fail"}, {"returned"})
      BY <1>0, <2>6 DEF ClearError, SetError, Return
    <3> QED BY <3>1, StepsByPlace, NextStepsByPlace
  <2> QED BY <1>5, <2>1, <2>2, <2>3, <2>4, <2>5, <2>6 DEF Proceed
<1>6. ASSUME NEW r \in Manual, Proceed(r) PROVE stopping' /\ pc'[Host] = pc[Host]
  BY <1>6 DEF Proceed, ReadPart, ReadFails, PassCheck, Cancel, Stamp, SwapCurrent, ClearError, SetError, Return
<1>7. ASSUME NEW p \in Reader, GetStatus(p) PROVE stopping' /\ pc'[Host] = pc[Host]
  BY <1>7 DEF GetStatus, ReadIsReady, ReadLastRefresh, ReadLastError
<1> QED
  <2>1. ASSUME pc'[Host] = pc[Host] PROVE pc'[Host] # pc[Host] => StepsToEnd' < StepsToEnd
    BY <2>1
  <2>2. \A r \in Refresher : r = Host \/ r \in Manual
    BY DEF Refresher
  <2> QED BY <1>1, <1>2, <1>3, <1>4, <1>5, <1>6, <1>7, <2>1, <2>2 DEF Next

(* The half of StopEndsHost that needs no fairness: nothing turns a host   *)
(* back that is stopping, and no other refresh moves it.                   *)
THEOREM StoppingOnlyShortens == Spec => StopShortensHost
<1>1. TypeOK /\ [Next]_vars
        => [stopping => stopping' /\ (pc'[Host] # pc[Host] => StepsToEnd' < StepsToEnd)]_vars
  BY StopStep
<1> QED BY <1>1, TypeCorrect, PTL DEF Spec, StopShortensHost
==============================================================================
