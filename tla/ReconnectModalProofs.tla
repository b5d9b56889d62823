------------------------- MODULE ReconnectModalProofs -------------------------
(***************************************************************************)
(* Proofs about ReconnectModal, for any number of calls at a time.         *)
(***************************************************************************)
EXTENDS ReconnectModal, TLAPS

USE DEF Retrying, RetryButton, ResumeButton

(* Every step there is, with its definitions opened.                       *)
LEMMA StepCases ==
  ASSUME [Next]_vars, NEW P,
         ServerBecomesReachable => P, ServerBecomesUnreachable => P,
         ServerForgets => P, ServerPauses => P, ConnectionIsLost => P,
         BlazorReconnects => P, BlazorIsRejected => P, BlazorGivesUp => P,
         PageLoads => P, PageFailsToLoad => P, VisibilityChanges => P,
         \A c \in Call : RetryIsPressed(c) => P,
         \A c \in Call : resume(c) => P,
         \A c \in Call : RetrySucceeds(c) => P,
         \A c \in Call : RetryIsRejected(c) => P,
         \A c \in Call : RetryThrows(c) => P,
         \A c \in Call : RetryResumes(c) => P,
         \A c \in Call : RetryReloads(c) => P,
         \A c \in Call : ResumeSucceeds(c) => P,
         \A c \in Call : ResumeReloads(c) => P,
         \A c \in Call : ResumeThrows(c) => P,
         UNCHANGED vars => P
  PROVE  P
  BY DEF Next, Environment, Attempt, Browser, Settle

(* The type invariant: classes, states of Blazor and what calls wait for.  *)
THEOREM TypeCorrect == Spec => []TypeOK
<1>1. Init => TypeOK
  BY DEF Init, TypeOK, Waiting
<1>2. TypeOK /\ [Next]_vars => TypeOK'
  <2> SUFFICES ASSUME TypeOK, [Next]_vars PROVE TypeOK'
    OBVIOUS
  <2> USE DEF TypeOK, Waiting
  <2>1. ServerBecomesReachable => TypeOK'
    BY DEF ServerBecomesReachable, dialog, calls
  <2>2. ServerBecomesUnreachable => TypeOK'
    BY DEF ServerBecomesUnreachable, dialog
  <2>3. ServerForgets => TypeOK'
    BY DEF ServerForgets, dialog, calls
  <2>4. ServerPauses => TypeOK'
    BY DEF ServerPauses, Becomes, handleReconnectStateChanged, reload, calls
  <2>5. ConnectionIsLost => TypeOK'
    BY DEF ConnectionIsLost, Becomes, handleReconnectStateChanged, reload, calls
  <2>6. BlazorReconnects => TypeOK'
    BY DEF BlazorReconnects, Becomes, handleReconnectStateChanged, reload, calls
  <2>7. BlazorIsRejected => TypeOK'
    BY DEF BlazorIsRejected, Becomes, handleReconnectStateChanged, reload, calls
  <2>8. BlazorGivesUp => TypeOK'
    BY DEF BlazorGivesUp, Becomes, handleReconnectStateChanged, reload, calls
  <2>9. PageLoads => TypeOK'
    BY DEF PageLoads
  <2>10. PageFailsToLoad => TypeOK'
    BY DEF PageFailsToLoad, world, dialog, calls
  <2>11. VisibilityChanges => TypeOK'
    BY DEF VisibilityChanges, retryWhenDocumentBecomesVisible, retry, Requests, dialog, calls
  <2>12. ASSUME NEW c \in Call PROVE RetryIsPressed(c) => TypeOK'
    BY DEF RetryIsPressed, retry, Requests
  <2>13. ASSUME NEW c \in Call PROVE resume(c) => TypeOK'
    BY DEF resume, Requests, world, dialog
  <2>14. ASSUME NEW c \in Call PROVE RetrySucceeds(c) => TypeOK'
    BY DEF RetrySucceeds, Reconnected, Returns, Becomes, handleReconnectStateChanged, reload, world, dialog
  <2>15. ASSUME NEW c \in Call PROVE RetryIsRejected(c) => TypeOK'
    BY DEF RetryIsRejected, world, dialog
  <2>16. ASSUME NEW c \in Call PROVE RetryThrows(c) => TypeOK'
    BY DEF RetryThrows, Returns, world
  <2>17. ASSUME NEW c \in Call PROVE RetryResumes(c) => TypeOK'
    BY DEF RetryResumes, Returns
  <2>18. ASSUME NEW c \in Call PROVE RetryReloads(c) => TypeOK'
    BY DEF RetryReloads, reloads, reload, Returns, world
  <2>19. ASSUME NEW c \in Call PROVE ResumeSucceeds(c) => TypeOK'
    BY DEF ResumeSucceeds, Reconnected, Returns, Becomes, handleReconnectStateChanged, reload, world, dialog
  <2>20. ASSUME NEW c \in Call PROVE ResumeReloads(c) => TypeOK'
    BY DEF ResumeReloads, reloads, reload, Returns, world
  <2>21. ASSUME NEW c \in Call PROVE ResumeThrows(c) => TypeOK'
    BY DEF ResumeThrows, Returns, world
  <2>22. UNCHANGED vars => TypeOK'
    BY DEF vars, world, dialog, calls
  <2> QED
    BY <2>1, <2>2, <2>3, <2>4, <2>5, <2>6, <2>7, <2>8, <2>9, <2>10, <2>11, <2>12, <2>13,
       <2>14, <2>15, <2>16, <2>17, <2>18, <2>19, <2>20, <2>21, <2>22, StepCases
<1> QED
  BY <1>1, <1>2, PTL DEF Spec
------------------------------------------------------------------------------
(* What the dialog shows, and who tries next, go together with what Blazor *)
(* does.                                                                   *)
Told == page = "running" => blazor # "rejected"

DialogInv == Told /\ NeverStranded /\ DialogTellsConnection /\ ButtonIsThere

(* Where nothing is left of an overlap, the one call there is belongs to   *)
(* the state Blazor is in: nobody else mends the connection meanwhile.     *)
LoneCall ==
  page = "running" /\ ~overlapped =>
    /\ \A c, d \in Call : pc[c] # "idle" /\ pc[d] # "idle" => c = d
    /\ \A c \in Call : Retrying(c) => blazor = "gaveUp" /\ ~armed
    /\ \A c \in Call : pc[c] = "resumeCircuit" => blazor = "paused"
    /\ armed => blazor = "gaveUp"

IInv == TypeOK /\ DialogInv /\ LoneCall

(* Each event and each outcome of a call leaves dialog, button and listener *)
(* as the state of the connection wants them.                              *)
LEMMA DialogStep == TypeOK /\ DialogInv /\ [Next]_vars => DialogInv'
<1> SUFFICES ASSUME TypeOK, DialogInv, [Next]_vars PROVE DialogInv'
  OBVIOUS
<1> USE DEF TypeOK, Waiting, DialogInv, Told, NeverStranded, DialogTellsConnection, ButtonIsThere
<1>1. ServerBecomesReachable => DialogInv'
  BY DEF ServerBecomesReachable, dialog, calls
<1>2. ServerBecomesUnreachable => DialogInv'
  BY DEF ServerBecomesUnreachable, dialog
<1>3. ServerForgets => DialogInv'
  BY DEF ServerForgets, dialog, calls
<1>4. ServerPauses => DialogInv'
  BY DEF ServerPauses, Becomes, handleReconnectStateChanged, reload, calls
<1>5. ConnectionIsLost => DialogInv'
  BY DEF ConnectionIsLost, Becomes, handleReconnectStateChanged, reload, calls
<1>6. BlazorReconnects => DialogInv'
  BY DEF BlazorReconnects, Becomes, handleReconnectStateChanged, reload, calls
<1>7. BlazorIsRejected => DialogInv'
  BY DEF BlazorIsRejected, Becomes, handleReconnectStateChanged, reload, calls
<1>8. BlazorGivesUp => DialogInv'
  BY DEF BlazorGivesUp, Becomes, handleReconnectStateChanged, reload, calls
<1>9. PageLoads => DialogInv'
  BY DEF PageLoads
<1>10. PageFailsToLoad => DialogInv'
  BY DEF PageFailsToLoad, world, dialog, calls
<1>11. VisibilityChanges => DialogInv'
  BY DEF VisibilityChanges, retryWhenDocumentBecomesVisible, retry, Requests, dialog, calls
<1>12. ASSUME NEW c \in Call PROVE RetryIsPressed(c) => DialogInv'
  BY DEF RetryIsPressed, retry, Requests
<1>13. ASSUME NEW c \in Call PROVE resume(c) => DialogInv'
  BY DEF resume, Requests, world, dialog
<1>14. ASSUME NEW c \in Call PROVE RetrySucceeds(c) => DialogInv'
  BY DEF RetrySucceeds, Answered, Reconnected, Returns, Becomes, handleReconnectStateChanged, reload, world, dialog
<1>15. ASSUME NEW c \in Call PROVE RetryIsRejected(c) => DialogInv'
  BY DEF RetryIsRejected, Answered, world, dialog
<1>16. ASSUME NEW c \in Call PROVE RetryThrows(c) => DialogInv'
  BY DEF RetryThrows, Returns, world
<1>17. ASSUME NEW c \in Call PROVE RetryResumes(c) => DialogInv'
  BY DEF RetryResumes, Answered, Returns
<1>18. ASSUME NEW c \in Call PROVE RetryReloads(c) => DialogInv'
  BY DEF RetryReloads, reloads, reload, Returns, world
<1>19. ASSUME NEW c \in Call PROVE ResumeSucceeds(c) => DialogInv'
  BY DEF ResumeSucceeds, Answered, Reconnected, Returns, Becomes, handleReconnectStateChanged, reload, world, dialog
<1>20. ASSUME NEW c \in Call PROVE ResumeReloads(c) => DialogInv'
  BY DEF ResumeReloads, reloads, reload, Returns, world
<1>21. ASSUME NEW c \in Call PROVE ResumeThrows(c) => DialogInv'
  BY DEF ResumeThrows, Returns, world
<1>22. UNCHANGED vars => DialogInv'
  BY DEF vars, world, dialog, calls
<1> QED
  BY <1>1, <1>2, <1>3, <1>4, <1>5, <1>6, <1>7, <1>8, <1>9, <1>10, <1>11,
     <1>12, <1>13, <1>14, <1>15, <1>16, <1>17, <1>18, <1>19, <1>20, <1>21, <1>22, StepCases

LEMMA LoneCallStep == IInv /\ [Next]_vars => LoneCall'
<1> SUFFICES ASSUME TypeOK, DialogInv, LoneCall, [Next]_vars PROVE LoneCall'
  BY DEF IInv
<1> USE DEF TypeOK, Waiting, DialogInv, ButtonIsThere, LoneCall
<1>1. ServerBecomesReachable => LoneCall'
  BY DEF ServerBecomesReachable, dialog, calls
<1>2. ServerBecomesUnreachable => LoneCall'
  BY DEF ServerBecomesUnreachable, dialog
<1>3. ServerForgets => LoneCall'
  BY DEF ServerForgets, dialog, calls
<1>4. ServerPauses => LoneCall'
  BY DEF ServerPauses, Becomes, handleReconnectStateChanged, reload, calls
<1>5. ConnectionIsLost => LoneCall'
  BY DEF ConnectionIsLost, Becomes, handleReconnectStateChanged, reload, calls
<1>6. BlazorReconnects => LoneCall'
  BY DEF BlazorReconnects, Becomes, handleReconnectStateChanged, reload, calls
<1>7. BlazorIsRejected => LoneCall'
  BY DEF BlazorIsRejected, Becomes, handleReconnectStateChanged, reload, calls
<1>8. BlazorGivesUp => LoneCall'
  BY DEF BlazorGivesUp, Becomes, handleReconnectStateChanged, reload, calls
<1>9. PageLoads => LoneCall'
  BY DEF PageLoads
<1>10. PageFailsToLoad => LoneCall'
  BY DEF PageFailsToLoad, world, dialog, calls
<1>11. VisibilityChanges => LoneCall'
  BY DEF VisibilityChanges, retryWhenDocumentBecomesVisible, retry, Requests, dialog, calls
<1>12. ASSUME NEW c \in Call PROVE RetryIsPressed(c) => LoneCall'
  BY DEF RetryIsPressed, retry, Requests
<1>13. ASSUME NEW c \in Call, resume(c) PROVE LoneCall'
  <2>1. page = "running" /\ blazor = "paused" /\ blazor' = blazor /\ armed' = armed
    BY <1>13 DEF resume, Requests, world, dialog
  <2>2. /\ overlapped' = (overlapped \/ \E d \in Call : pc[d] # "idle")
        /\ pc' = [pc EXCEPT ![c] = "resumeCircuit"]
    BY <1>13 DEF resume, Requests
  <2>3. ~overlapped' => ~overlapped /\ \A d \in Call : pc[d] = "idle"
    BY <2>2
  <2>4. ~overlapped' => ~armed
    BY <2>1, <2>3
  <2>5. ~overlapped' => \A d \in Call : pc'[d] = IF d = c THEN "resumeCircuit" ELSE "idle"
    BY <2>2, <2>3
  <2> QED
    BY <2>1, <2>4, <2>5
<1>14. ASSUME NEW c \in Call PROVE RetrySucceeds(c) => LoneCall'
  BY DEF RetrySucceeds, Answered, Reconnected, Returns, Becomes, handleReconnectStateChanged, reload, world, dialog
<1>15. ASSUME NEW c \in Call PROVE RetryIsRejected(c) => LoneCall'
  BY DEF RetryIsRejected, Answered, world, dialog
<1>16. ASSUME NEW c \in Call PROVE RetryThrows(c) => LoneCall'
  BY DEF RetryThrows, Returns, world
<1>17. ASSUME NEW c \in Call PROVE RetryResumes(c) => LoneCall'
  BY DEF RetryResumes, Answered, Returns
<1>18. ASSUME NEW c \in Call PROVE RetryReloads(c) => LoneCall'
  BY DEF RetryReloads, reloads, reload, Returns, world
<1>19. ASSUME NEW c \in Call PROVE ResumeSucceeds(c) => LoneCall'
  BY DEF ResumeSucceeds, Answered, Reconnected, Returns, Becomes, handleReconnectStateChanged, reload, world, dialog
<1>20. ASSUME NEW c \in Call PROVE ResumeReloads(c) => LoneCall'
  BY DEF ResumeReloads, reloads, reload, Returns, world
<1>21. ASSUME NEW c \in Call PROVE ResumeThrows(c) => LoneCall'
  BY DEF ResumeThrows, Returns, world
<1>22. UNCHANGED vars => LoneCall'
  BY DEF vars, world, dialog, calls
<1> QED
  BY <1>1, <1>2, <1>3, <1>4, <1>5, <1>6, <1>7, <1>8, <1>9, <1>10, <1>11,
     <1>12, <1>13, <1>14, <1>15, <1>16, <1>17, <1>18, <1>19, <1>20, <1>21, <1>22, StepCases

LEMMA Invariant == Spec => []IInv
<1>1. Init => IInv
  BY DEF Init, IInv, TypeOK, Waiting, DialogInv, Told, NeverStranded, DialogTellsConnection,
         ButtonIsThere, LoneCall
<1>2. IInv /\ TypeOK' /\ [Next]_vars => IInv'
  BY DialogStep, LoneCallStep DEF IInv
<1> QED
  BY <1>1, <1>2, TypeCorrect, PTL DEF Spec

(* Once Blazor has given up, a retry runs or the tab's next showing starts *)
(* one.                                                                    *)
THEOREM AlwaysTriesAgain == Spec => []NeverStranded
<1>1. IInv => NeverStranded
  BY DEF IInv, DialogInv
<1> QED
  BY <1>1, Invariant, PTL

(* The dialog is open exactly while the page has no connection.            *)
THEOREM DialogIsRight == Spec => []DialogTellsConnection
<1>1. IInv => DialogTellsConnection
  BY DEF IInv, DialogInv
<1> QED
  BY <1>1, Invariant, PTL

(* The retry button is there when Blazor has given up, the resume button   *)
(* when the page is paused, and at no other time.                          *)
THEOREM ButtonsAreRight == Spec => []ButtonIsThere
<1>1. IInv => ButtonIsThere
  BY DEF IInv, DialogInv
<1> QED
  BY <1>1, Invariant, PTL

(* Without overlapping calls no answer makes the script reload a page that *)
(* is connected.                                                           *)
THEOREM LoneCallsKeepPage == Spec => LivePageIsKept
<1> DEFINE Keeps == page = "running" /\ blazor = "connected" /\ page' = "loading" => overlapped
<1>1. ASSUME IInv, [Next]_vars PROVE Keeps
  <2> USE DEF Keeps
  <2>1. page = "running" /\ ~overlapped /\ blazor = "connected" =>
          \A c \in Call : ~Retrying(c) /\ pc[c] # "resumeCircuit"
    BY <1>1 DEF IInv, LoneCall
  <2>2. ASSUME NEW c \in Call, RetryReloads(c) \/ ResumeReloads(c) PROVE Keeps
    BY <2>1, <2>2, <1>1 DEF RetryReloads, ResumeReloads, Answered, IInv, TypeOK
  <2>3. BlazorIsRejected => Keeps
    BY DEF BlazorIsRejected
  <2>4. PageLoads => Keeps
    BY DEF PageLoads
  <2>5. PageFailsToLoad => Keeps
    BY DEF PageFailsToLoad
  <2>6. page' = page => Keeps
    OBVIOUS
  <2>7. /\ ServerPauses \/ ConnectionIsLost \/ BlazorReconnects \/ BlazorGivesUp => page' = page
        /\ ServerBecomesReachable \/ ServerBecomesUnreachable \/ ServerForgets => page' = page
        /\ UNCHANGED vars => page' = page
    BY DEF ServerPauses, ConnectionIsLost, BlazorReconnects, BlazorGivesUp, Becomes,
           handleReconnectStateChanged, ServerBecomesReachable, ServerBecomesUnreachable,
           ServerForgets, vars
  <2>8. VisibilityChanges => page' = page
    BY DEF VisibilityChanges, retryWhenDocumentBecomesVisible, retry
  <2>9. ASSUME NEW c \in Call
        PROVE  /\ RetryIsPressed(c) \/ resume(c) => page' = page
               /\ RetryIsRejected(c) \/ RetryThrows(c) \/ RetryResumes(c) => page' = page
               /\ RetrySucceeds(c) \/ ResumeSucceeds(c) \/ ResumeThrows(c) => page' = page
    BY DEF RetryIsPressed, retry, resume, RetryIsRejected, RetryThrows, RetryResumes,
           RetrySucceeds, ResumeSucceeds, ResumeThrows, Reconnected, Becomes,
           handleReconnectStateChanged
  <2> HIDE DEF Keeps
  <2> QED
    BY <1>1, <2>2, <2>3, <2>4, <2>5, <2>6, <2>7, <2>8, <2>9, StepCases
<1>2. IInv /\ [Next]_vars => [Keeps]_vars
  BY <1>1
<1> QED
  BY <1>2, Invariant, PTL DEF Spec, LivePageIsKept

------------------------------------------------------------------------------
(* What the server still has of the page.                                  *)

(* A paused page's circuit is not held by the server, nor is that of a     *)
(* lone call that was told so: nobody else gets it back meanwhile.         *)
CircuitInv ==
  page = "running" =>
    /\ blazor = "paused" => circuit # "held"
    /\ ~overlapped => \A c \in Call : pc[c] = "resumeAfterwards" => circuit # "held"

LEMMA CircuitStep == IInv /\ CircuitInv /\ [Next]_vars => CircuitInv'
<1> SUFFICES ASSUME TypeOK, LoneCall, CircuitInv, [Next]_vars PROVE CircuitInv'
  BY DEF IInv
<1> USE DEF TypeOK, Waiting, LoneCall, CircuitInv
<1>1. ServerBecomesReachable => CircuitInv'
  BY DEF ServerBecomesReachable, calls
<1>2. ServerBecomesUnreachable => CircuitInv'
  BY DEF ServerBecomesUnreachable
<1>3. ServerForgets => CircuitInv'
  BY DEF ServerForgets, calls
<1>4. ServerPauses => CircuitInv'
  BY DEF ServerPauses, Becomes, handleReconnectStateChanged, reload, calls
<1>5. ConnectionIsLost => CircuitInv'
  BY DEF ConnectionIsLost, Becomes, handleReconnectStateChanged, reload, calls
<1>6. BlazorReconnects => CircuitInv'
  BY DEF BlazorReconnects, Becomes, handleReconnectStateChanged, reload, calls
<1>7. BlazorIsRejected => CircuitInv'
  BY DEF BlazorIsRejected, Becomes, handleReconnectStateChanged, reload, calls
<1>8. BlazorGivesUp => CircuitInv'
  BY DEF BlazorGivesUp, Becomes, handleReconnectStateChanged, reload, calls
<1>9. PageLoads => CircuitInv'
  BY DEF PageLoads
<1>10. PageFailsToLoad => CircuitInv'
  BY DEF PageFailsToLoad, world, calls
<1>11. VisibilityChanges => CircuitInv'
  BY DEF VisibilityChanges, retryWhenDocumentBecomesVisible, retry, Requests, calls
<1>12. ASSUME NEW c \in Call PROVE RetryIsPressed(c) => CircuitInv'
  BY DEF RetryIsPressed, retry, Requests
<1>13. ASSUME NEW c \in Call PROVE resume(c) => CircuitInv'
  BY DEF resume, Requests, world
<1>14. ASSUME NEW c \in Call PROVE RetrySucceeds(c) => CircuitInv'
  BY DEF RetrySucceeds, Answered, Reconnected, Returns, Becomes, handleReconnectStateChanged, reload, world
<1>15. ASSUME NEW c \in Call PROVE RetryIsRejected(c) => CircuitInv'
  BY DEF RetryIsRejected, Answered, world
<1>16. ASSUME NEW c \in Call PROVE RetryThrows(c) => CircuitInv'
  BY DEF RetryThrows, Returns, world
<1>17. ASSUME NEW c \in Call PROVE RetryResumes(c) => CircuitInv'
  BY DEF RetryResumes, Answered, Returns
<1>18. ASSUME NEW c \in Call PROVE RetryReloads(c) => CircuitInv'
  BY DEF RetryReloads, reloads, reload, Returns, world
<1>19. ASSUME NEW c \in Call PROVE ResumeSucceeds(c) => CircuitInv'
  BY DEF ResumeSucceeds, Answered, Reconnected, Returns, Becomes, handleReconnectStateChanged, reload, world
<1>20. ASSUME NEW c \in Call PROVE ResumeReloads(c) => CircuitInv'
  BY DEF ResumeReloads, reloads, reload, Returns, world
<1>21. ASSUME NEW c \in Call PROVE ResumeThrows(c) => CircuitInv'
  BY DEF ResumeThrows, Returns, world
<1>22. UNCHANGED vars => CircuitInv'
  BY DEF vars, world, calls
<1> QED
  BY <1>1, <1>2, <1>3, <1>4, <1>5, <1>6, <1>7, <1>8, <1>9, <1>10, <1>11,
     <1>12, <1>13, <1>14, <1>15, <1>16, <1>17, <1>18, <1>19, <1>20, <1>21, <1>22, StepCases

LEMMA CircuitInvariant == Spec => []CircuitInv
<1>1. Init => CircuitInv
  BY DEF Init, CircuitInv
<1>2. IInv /\ CircuitInv /\ [Next]_vars => CircuitInv'
  BY CircuitStep
<1> QED
  BY <1>1, <1>2, Invariant, PTL DEF Spec

(* Unless calls overlapped, no page is reloaded whose circuit the server   *)
(* has still got, for any number of calls that follow each other.          *)
THEOREM OnlyLostCircuitsAreReloaded == Spec => OnlyLostCircuitsReload
<1> DEFINE Lost == page = "running" /\ page' = "loading" => overlapped \/ circuit = "gone"
<1>1. ASSUME IInv, CircuitInv, [Next]_vars PROVE Lost
  <2> USE DEF Lost
  <2>1. ASSUME NEW c \in Call, RetryReloads(c) PROVE Lost
    BY <1>1, <2>1 DEF RetryReloads, Answered, Refused, CircuitInv
  <2>2. ASSUME NEW c \in Call, ResumeReloads(c) PROVE Lost
    <3>1. ~overlapped => blazor = "paused"
      BY <1>1, <2>2 DEF ResumeReloads, Answered, IInv, LoneCall
    <3> QED
      BY <1>1, <2>2, <3>1 DEF ResumeReloads, Answered, Refused, CircuitInv
  <2>3. BlazorIsRejected => Lost
    BY DEF BlazorIsRejected
  <2>4. PageLoads \/ PageFailsToLoad => Lost
    BY DEF PageLoads, PageFailsToLoad
  <2>5. page' = page => Lost
    OBVIOUS
  <2>6. /\ ServerPauses \/ ConnectionIsLost \/ BlazorReconnects \/ BlazorGivesUp => page' = page
        /\ ServerBecomesReachable \/ ServerBecomesUnreachable \/ ServerForgets => page' = page
        /\ UNCHANGED vars => page' = page
    BY DEF ServerPauses, ConnectionIsLost, BlazorReconnects, BlazorGivesUp, Becomes,
           handleReconnectStateChanged, ServerBecomesReachable, ServerBecomesUnreachable,
           ServerForgets, vars
  <2>7. VisibilityChanges => page' = page
    BY DEF VisibilityChanges, retryWhenDocumentBecomesVisible, retry
  <2>8. ASSUME NEW c \in Call
        PROVE  /\ RetryIsPressed(c) \/ resume(c) => page' = page
               /\ RetryIsRejected(c) \/ RetryThrows(c) \/ RetryResumes(c) => page' = page
               /\ RetrySucceeds(c) \/ ResumeSucceeds(c) \/ ResumeThrows(c) => page' = page
    BY DEF RetryIsPressed, retry, resume, RetryIsRejected, RetryThrows, RetryResumes,
           RetrySucceeds, ResumeSucceeds, ResumeThrows, Reconnected, Becomes,
           handleReconnectStateChanged
  <2> HIDE DEF Lost
  <2> QED
    BY <1>1, <2>1, <2>2, <2>3, <2>4, <2>5, <2>6, <2>7, <2>8, StepCases
<1>2. IInv /\ CircuitInv /\ [Next]_vars => [Lost]_vars
  BY <1>1
<1> QED
  BY <1>2, Invariant, CircuitInvariant, PTL DEF Spec, OnlyLostCircuitsReload
==============================================================================
