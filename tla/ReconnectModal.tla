---------------------------- MODULE ReconnectModal ----------------------------
(***************************************************************************)
(* ReconnectModal.razor.js: the dialog over a page that lost its server.   *)
(*                                                                         *)
(* Blazor tells the script what becomes of the connection ("show", "hide", *)
(* "failed", "rejected"); the script opens and closes the dialog, tries    *)
(* again when a button is pressed or the tab becomes visible, and reloads  *)
(* the page when the server has forgotten it.  retry and resume wait for   *)
(* the server, and nothing keeps a second one from being started           *)
(* meanwhile: what runs from one await to the next is one step.            *)
(*                                                                         *)
(* Blazor, the browser, the server and the user are external, and modelled *)
(* as the script uses them.                                                *)
(***************************************************************************)

CONSTANT Call  \* the calls of retry and resume there may be at a time

VARIABLES
  reachable,    \* whether requests get to the server
  circuit,      \* the page's circuit at the server: held, stored away, gone
  visible,      \* document.visibilityState = "visible"
  page,         \* whether the script runs, or the browser loads the page
  blazor,       \* what Blazor does about the connection
  mark,         \* the class of the dialog: what is said, which button is there
  open,         \* the dialog is open
  armed,        \* retryWhenDocumentBecomesVisible listens
  pc,           \* what each call waits for
  missed,       \* the calls whose request never gets to the server
  overlapped    \* history: calls ran side by side, and something is left of that

world == <<reachable, circuit, visible>>
dialog == <<mark, open, armed>>
calls == <<pc, missed, overlapped>>
vars == <<world, page, blazor, dialog, calls>>

(* What a call waits for: retry for Blazor.reconnect and, if the circuit   *)
(* is not held any more, for Blazor.resumeCircuit; resume for the latter.  *)
Waiting == {"reconnect", "resumeAfterwards", "resumeCircuit"}
Retrying(c) == pc[c] \in {"reconnect", "resumeAfterwards"}

TypeOK ==
  /\ reachable \in BOOLEAN
  /\ circuit \in {"held", "stored", "gone"}
  /\ visible \in BOOLEAN
  /\ page \in {"running", "loading", "lost"}
  /\ blazor \in {"connected", "trying", "gaveUp", "rejected", "paused"}
  /\ mark \in {"hide", "show", "failed", "rejected", "paused", "resumeFailed"}
  /\ open \in BOOLEAN
  /\ armed \in BOOLEAN
  /\ pc \in [Call -> Waiting \cup {"idle"}]
  /\ missed \subseteq Call
  /\ overlapped \in BOOLEAN

(* The script as it is loaded: a closed dialog, and three listeners that   *)
(* stay for good.                                                          *)
Init ==
  /\ reachable = TRUE
  /\ visible = TRUE
  /\ page = "running"
  /\ blazor = "connected"
  /\ circuit = "held"
  /\ mark = "hide"
  /\ open = FALSE
  /\ armed = FALSE
  /\ pc = [c \in Call |-> "idle"]
  /\ missed = {}
  /\ overlapped = FALSE

------------------------------------------------------------------------------
(* The network, the server and the browser.                                *)

ServerBecomesReachable ==
  /\ reachable' = TRUE
  /\ UNCHANGED <<circuit, visible, page, blazor, dialog, calls>>

(* What is on its way is lost.                                             *)
ServerBecomesUnreachable ==
  /\ reachable' = FALSE
  /\ missed' = {c \in Call : pc[c] # "idle"}
  /\ UNCHANGED <<circuit, visible, page, blazor, dialog, pc, overlapped>>

(* A circuit without a connection is stored away after a while, and what   *)
(* is stored is dropped after another; a restarted server has none of it.  *)
ServerForgets ==
  /\ \/ circuit = "held" /\ blazor # "connected" /\ circuit' = "stored"
     \/ circuit # "gone" /\ circuit' = "gone"
  /\ UNCHANGED <<reachable, visible, page, blazor, dialog, calls>>

(* The browser has got the page again, with a circuit of its own, or it    *)
(* shows an error page instead, where only the user can load it again.     *)
PageLoads ==
  /\ page # "running"
  /\ reachable
  /\ page' = "running"
  /\ blazor' = "connected"
  /\ circuit' = "held"
  /\ mark' = "hide"
  /\ open' = FALSE
  /\ armed' = FALSE
  /\ pc' = [c \in Call |-> "idle"]
  /\ missed' = {}
  /\ overlapped' = FALSE
  /\ UNCHANGED <<reachable, visible>>

PageFailsToLoad ==
  /\ page = "loading"
  /\ ~reachable
  /\ page' = "lost"
  /\ UNCHANGED <<world, blazor, dialog, calls>>

------------------------------------------------------------------------------
(* Blazor's events.                                                        *)

reload ==
  /\ page' = "loading"
  /\ UNCHANGED <<open, armed>>

(* Mutant: a rejected page is left as it is.                               *)
MutantHandleReconnectStateChanged(state) ==
  \/ state = "show" /\ open' = TRUE /\ UNCHANGED <<armed, page>>
  \/ state = "hide" /\ open' = FALSE /\ UNCHANGED <<armed, page>>
  \/ state = "failed" /\ armed' = TRUE /\ UNCHANGED <<open, page>>
  \/ state = "rejected" /\ UNCHANGED <<open, armed, page>>

handleReconnectStateChanged(state) ==
  \/ state = "show" /\ open' = TRUE /\ UNCHANGED <<armed, page>>
  \/ state = "hide" /\ open' = FALSE /\ UNCHANGED <<armed, page>>
  \/ state = "failed" /\ armed' = TRUE /\ UNCHANGED <<open, page>>
  \/ state = "rejected" /\ reload

(* Blazor changes the dialog's class and then dispatches the event.        *)
Becomes(state, class, event) ==
  /\ page = "running"
  /\ blazor' = state
  /\ mark' = class
  /\ handleReconnectStateChanged(event)
  /\ UNCHANGED <<reachable, visible>>

ConnectionIsLost ==
  /\ blazor = "connected"
  /\ Becomes("trying", "show", "show")
  /\ UNCHANGED <<circuit, calls>>

ServerPauses ==
  /\ blazor = "connected"
  /\ reachable
  /\ circuit' = "stored"
  /\ Becomes("paused", "paused", "show")
  /\ UNCHANGED calls

(* The outcomes of Blazor's own attempts.                                  *)
BlazorReconnects ==
  /\ blazor = "trying"
  /\ reachable
  /\ circuit # "gone"
  /\ circuit' = "held"
  /\ Becomes("connected", "hide", "hide")
  /\ UNCHANGED calls

BlazorIsRejected ==
  /\ blazor = "trying"
  /\ reachable
  /\ circuit = "gone"
  /\ Becomes("rejected", "rejected", "rejected")
  /\ UNCHANGED <<circuit, calls>>

BlazorGivesUp ==
  /\ blazor = "trying"
  /\ Becomes("gaveUp", "failed", "failed")
  /\ UNCHANGED <<circuit, calls>>

------------------------------------------------------------------------------
(* Calls: a call begins with a request and goes on with what comes of it.  *)

Requests(c, what) ==
  /\ page = "running"
  /\ pc[c] = "idle"
  /\ pc' = [pc EXCEPT ![c] = what]
  /\ missed' = IF reachable THEN missed ELSE missed \cup {c}
  /\ overlapped' = (overlapped \/ \E d \in Call : pc[d] # "idle")

Answered(c, what) ==
  /\ page = "running"
  /\ pc[c] = what
  /\ c \notin missed

(* An overlap is over when no call waits any more and no listener is left  *)
(* where Blazor has not given up: one that a late failure adds to a page   *)
(* that is connected again, or that a late success does not remove.        *)
Returns(c) ==
  /\ pc' = [pc EXCEPT ![c] = "idle"]
  /\ missed' = missed \ {c}
  /\ overlapped' = /\ overlapped
                   /\ (armed' /\ blazor' # "gaveUp") \/ \E d \in Call \ {c} : pc[d] # "idle"

(* A call that gets a connection where there is none has Blazor hide the   *)
(* dialog.                                                                 *)
Reconnected ==
  IF blazor = "connected"
    THEN UNCHANGED <<world, page, blazor, dialog>>
    ELSE circuit' = "held" /\ Becomes("connected", "hide", "hide")

(* A circuit is resumed from what is stored, once.  What the server says   *)
(* when another call has just done so is not for the script to know.       *)
Resumable == circuit \in {"stored", "held"}
Refused == circuit \in {"gone", "held"}

reloads(c) ==
  /\ reload
  /\ UNCHANGED <<world, blazor, mark>>
  /\ Returns(c)

------------------------------------------------------------------------------
(* retry.                                                                  *)

retry(c) ==
  /\ Requests(c, "reconnect")
  /\ armed' = FALSE
  /\ UNCHANGED <<circuit, page, blazor, mark, open>>

(* The button stays where it is while a retry runs.                        *)
RetryButton == open /\ mark = "failed"

RetryIsPressed(c) ==
  /\ RetryButton
  /\ retry(c)
  /\ UNCHANGED <<reachable, visible>>

(* Mutant: the circuit is resumed if it is there, not if it is gone.       *)
MutantRetrySucceeds(c) ==
  /\ Answered(c, "reconnect")
  /\ blazor = "connected" \/ circuit = "held"
  /\ Reconnected
  /\ pc' = [pc EXCEPT ![c] = "resumeAfterwards"]
  /\ UNCHANGED <<missed, overlapped>>

RetrySucceeds(c) ==
  /\ Answered(c, "reconnect")
  /\ blazor = "connected" \/ circuit = "held"
  /\ Reconnected
  /\ Returns(c)

(* Mutant: a page that cannot be reconnected is not resumed.               *)
MutantRetryIsRejected(c) ==
  /\ Answered(c, "reconnect")
  /\ blazor # "connected" /\ circuit # "held"
  /\ reloads(c)

RetryIsRejected(c) ==
  /\ Answered(c, "reconnect")
  /\ blazor # "connected" /\ circuit # "held"
  /\ pc' = [pc EXCEPT ![c] = "resumeAfterwards"]
  /\ UNCHANGED <<world, page, blazor, dialog, missed, overlapped>>

(* Mutant: the dialog is left to Blazor, as in resume.                     *)
MutantRetryResumes(c) ==
  /\ Answered(c, "resumeAfterwards")
  /\ Resumable
  /\ circuit' = "held"
  /\ blazor' = "connected"
  /\ mark' = "hide"
  /\ UNCHANGED <<reachable, visible, page, open, armed>>
  /\ Returns(c)

(* The script does not count on Blazor's event and closes the dialog.      *)
RetryResumes(c) ==
  /\ Answered(c, "resumeAfterwards")
  /\ Resumable
  /\ circuit' = "held"
  /\ blazor' = "connected"
  /\ mark' = "hide"
  /\ open' = FALSE
  /\ UNCHANGED <<reachable, visible, page, armed>>
  /\ Returns(c)

RetryReloads(c) ==
  /\ Answered(c, "resumeAfterwards")
  /\ Refused
  /\ reloads(c)

(* Mutant: nothing is done about the exception.                            *)
MutantRetryThrows(c) ==
  /\ page = "running"
  /\ Retrying(c)
  /\ c \in missed
  /\ UNCHANGED <<world, page, blazor, dialog>>
  /\ Returns(c)

RetryThrows(c) ==
  /\ page = "running"
  /\ Retrying(c)
  /\ c \in missed
  /\ armed' = TRUE
  /\ UNCHANGED <<world, page, blazor, mark, open>>
  /\ Returns(c)

------------------------------------------------------------------------------
(* resume.                                                                 *)

ResumeButton == open /\ mark \in {"paused", "resumeFailed"}

resume(c) ==
  /\ ResumeButton
  /\ Requests(c, "resumeCircuit")
  /\ UNCHANGED <<world, page, blazor, dialog>>

(* Nothing is left to do: a circuit that was paused is shown by Blazor,    *)
(* which hides its dialog.                                                 *)
ResumeSucceeds(c) ==
  /\ Answered(c, "resumeCircuit")
  /\ Resumable
  /\ Reconnected
  /\ Returns(c)

ResumeReloads(c) ==
  /\ Answered(c, "resumeCircuit")
  /\ Refused
  /\ reloads(c)

(* Mutants: the class is set, not replaced; its name is misspelt.          *)
MutantResumeThrows(c) ==
  /\ page = "running"
  /\ pc[c] = "resumeCircuit"
  /\ c \in missed
  /\ mark' = "resumeFailed"
  /\ UNCHANGED <<world, page, blazor, open, armed>>
  /\ Returns(c)

MutantResumeMisspells(c) ==
  /\ page = "running"
  /\ pc[c] = "resumeCircuit"
  /\ c \in missed
  /\ mark' = IF mark = "paused" THEN "resume" ELSE mark
  /\ UNCHANGED <<world, page, blazor, open, armed>>
  /\ Returns(c)

(* classList.replace leaves a dialog alone that is not marked as paused.   *)
ResumeThrows(c) ==
  /\ page = "running"
  /\ pc[c] = "resumeCircuit"
  /\ c \in missed
  /\ mark' = IF mark = "paused" THEN "resumeFailed" ELSE mark
  /\ UNCHANGED <<world, page, blazor, open, armed>>
  /\ Returns(c)

------------------------------------------------------------------------------
(* The tab is hidden or shown again.                                       *)

retryWhenDocumentBecomesVisible(c) ==
  /\ armed
  /\ visible' = TRUE
  /\ retry(c)

VisibilityChanges ==
  /\ visible' = ~visible
  /\ IF visible' /\ armed /\ page = "running"
       THEN \E c \in Call : retryWhenDocumentBecomesVisible(c)
       ELSE UNCHANGED <<circuit, page, blazor, dialog, calls>>
  /\ UNCHANGED reachable

------------------------------------------------------------------------------
Environment ==
  \/ ServerBecomesReachable \/ ServerBecomesUnreachable
  \/ ServerForgets \/ ServerPauses \/ ConnectionIsLost

Attempt == BlazorReconnects \/ BlazorIsRejected \/ BlazorGivesUp

Browser == PageLoads \/ PageFailsToLoad

Settle(c) ==
  \/ RetrySucceeds(c) \/ RetryIsRejected(c) \/ RetryThrows(c)
  \/ RetryResumes(c) \/ RetryReloads(c)
  \/ ResumeSucceeds(c) \/ ResumeReloads(c) \/ ResumeThrows(c)

Next ==
  \/ Environment
  \/ Attempt
  \/ Browser
  \/ VisibilityChanges
  \/ \E c \in Call : RetryIsPressed(c) \/ resume(c) \/ Settle(c)

Spec == Init /\ [][Next]_vars

(* Blazor's attempts are counted and timed, a promise of Blazor's settles  *)
(* (requests time out), and the browser loads or gives up.  The network,   *)
(* the server, the user and the tab owe nothing, and a page that the       *)
(* browser could not load stays lost.                                      *)
Fairness ==
  /\ WF_vars(Attempt)
  /\ WF_vars(page = "loading" /\ Browser)
  /\ \A c \in Call : WF_vars(Settle(c))

FairSpec == Spec /\ Fairness

------------------------------------------------------------------------------
(* When Blazor has given up, a retry is under way or the next time the tab *)
(* is shown will start one, however many retries were started side by side *)
(* and in whatever order they failed.                                      *)
NeverStranded ==
  page = "running" /\ blazor = "gaveUp" => armed \/ \E c \in Call : Retrying(c)

(* The dialog is open exactly while there is no connection: no late answer *)
(* of an overtaken call leaves it over a page that works, or closes it     *)
(* over one that does not.                                                 *)
DialogTellsConnection ==
  page = "running" => (open <=> blazor # "connected")

(* Each button is there exactly where it is the user's way on: a call that *)
(* fails late neither takes one away nor puts the other in its place.      *)
ButtonIsThere ==
  page = "running" =>
    /\ RetryButton <=> blazor = "gaveUp"
    /\ ResumeButton <=> blazor = "paused"

(* A page that is connected is only ever reloaded while something is left  *)
(* of calls that overlapped: the answer to a lone call is never about a    *)
(* connection that another one has mended, also when the page has been     *)
(* through any number of overlaps before.                                  *)
LivePageIsKept ==
  [][page = "running" /\ blazor = "connected" /\ page' = "loading" => overlapped]_vars

(* And unless something is, a page is only reloaded when the server has    *)
(* really lost its circuit: what the user entered is never thrown away     *)
(* while it could still be reconnected or resumed.                         *)
OnlyLostCircuitsReload ==
  [][page = "running" /\ page' = "loading" => overlapped \/ circuit = "gone"]_vars

(* If the server can be reached for good and the user comes back to the    *)
(* tab now and then, the page is connected again and again, without a      *)
(* button pressed: it may have been reloaded for that.  Only a paused page *)
(* waits for its button, and only a page lost by the browser is lost.      *)
Back == blazor \in {"connected", "paused"} \/ page = "lost"

EventuallyBack == <>[]reachable /\ []<>visible /\ []<>~visible => []<>Back
==============================================================================
