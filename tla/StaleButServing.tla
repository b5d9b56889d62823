--------------------------- MODULE StaleButServing ---------------------------
(***************************************************************************)
(* What the snapshot store and the refreshes that write it promise to a    *)
(* reader, stated without threads, settings, timers or cancellation.       *)
(*                                                                         *)
(* A refresh is a request with one outcome.  When it succeeds, one step    *)
(* replaces the whole snapshot and forgets the last error, and the new     *)
(* snapshot shows the cluster as it was at moments between the request and *)
(* its outcome.  When it fails, the error is recorded and the snapshot     *)
(* keeps serving.  When it is abandoned, neither is touched.               *)
(*                                                                         *)
(* The content of the cluster is abstracted to its version: a snapshot     *)
(* carries the first and the last version its parts were read at.          *)
(***************************************************************************)
EXTENDS Naturals

CONSTANTS
  Refresher,    \* who may ask for a refresh
  Message,      \* error messages
  NoSnapshot,   \* no snapshot was captured yet
  NoError,      \* the last refresh did not fail
  InOrder       \* TRUE iff refreshes never overlap

VARIABLES
  version,      \* the version the cluster is at
  requested,    \* the version each refresher's latest request was made at
  snapshot,     \* the snapshot being served
  error         \* the error being shown

vars == <<version, requested, snapshot, error>>

Init ==
  /\ version = 0
  /\ requested = [r \in Refresher |-> 0]
  /\ snapshot = NoSnapshot
  /\ error = NoError

ClusterChanges ==
  /\ version' = version + 1
  /\ UNCHANGED <<requested, snapshot, error>>

Request(r) ==
  /\ requested' = [requested EXCEPT ![r] = version]
  /\ UNCHANGED <<version, snapshot, error>>

(* When refreshes do not overlap, what is served moves forward only.       *)
Supersedes(new, old) ==
  InOrder /\ old # NoSnapshot => old.last <= new.first /\ old.at <= new.at

Publish(r) ==
  /\ snapshot' \in [first : Nat, last : Nat, at : Nat]
  /\ requested[r] <= snapshot'.first
  /\ snapshot'.first <= snapshot'.last
  /\ snapshot'.last <= version
  /\ Supersedes(snapshot', snapshot)
  /\ error' = NoError
  /\ UNCHANGED <<version, requested>>

Fail ==
  /\ error' \in Message
  /\ UNCHANGED <<version, requested, snapshot>>

Next ==
  \/ ClusterChanges
  \/ \E r \in Refresher : Request(r) \/ Publish(r)
  \/ Fail

Spec == Init /\ [][Next]_vars
==============================================================================
