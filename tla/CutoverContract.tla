-------------------------- MODULE CutoverContract --------------------------
(***************************************************************************)
(* What the deploy broker promises to those who dispatch releases, without *)
(* its lock, verbs, commands, records, retries and crashes: the service    *)
(* passes from one image to the next, the way back is kept until it is     *)
(* used, and an automatic rollback stands guard over every open cutover.   *)
(* DeployBroker implements it under the mapping in DeployBrokerRefinement. *)
(***************************************************************************)
CONSTANTS
  Releases, \* the releases; each is also its image
  Original, \* the image before the first of them
  None      \* no image

VARIABLES
  installed, \* the image that has production's name, or None
  healthy,   \* does it serve?
  phase,     \* per release: how far it has come
  previous,  \* per release: the image in production when it began, or None
  retained,  \* the releases whose previous image is kept aside
  watched    \* the releases whose automatic rollback is armed

service == <<installed, healthy>>
contractVars == <<service, phase, previous, retained, watched>>

Phases == {"untouched", "open", "deployed", "committed",
           "undoing",     \* on its way back, uncommitted
           "withdrawing", \* on its way back although it was committed
           "over"}

ContractInit ==
  /\ installed = Original /\ healthy = TRUE
  /\ phase = [r \in Releases |-> "untouched"]
  /\ previous = [r \in Releases |-> None]
  /\ retained = {} /\ watched = {}

GoingBack(r) == phase[r] \in {"undoing", "withdrawing"}
Reaches(r, p) == phase' = [phase EXCEPT ![r] = p]

-----------------------------------------------------------------------------
(* A release begins on a service that is up.                               *)
Begin(r) ==
  /\ phase[r] = "untouched" /\ healthy
  /\ Reaches(r, "open")
  /\ previous' = [previous EXCEPT ![r] = installed]
  /\ UNCHANGED <<service, retained, watched>>

(* The guards change at will, but never leave an open cutover unwatched.   *)
Supervise ==
  /\ watched' \in SUBSET Releases
  /\ \A r \in retained : phase[r] \notin {"committed", "withdrawing"} => r \in watched'
  /\ UNCHANGED <<service, phase, previous, retained>>

(* The interruption begins: only for a watched release, and only here or   *)
(* in Remove does a service that is up go down.                            *)
SetAside(r) ==
  /\ phase[r] = "open" /\ r \in watched \ retained
  /\ healthy /\ installed = previous[r]
  /\ installed' = None /\ ~healthy'
  /\ retained' = retained \cup {r}
  /\ UNCHANGED <<phase, previous, watched>>

Install(r) ==
  /\ phase[r] = "open" /\ r \in retained
  /\ installed = None /\ installed' = r /\ ~healthy'
  /\ UNCHANGED <<phase, previous, retained, watched>>

ComeUp ==
  /\ installed # None /\ healthy'
  /\ UNCHANGED <<installed, phase, previous, retained, watched>>

(* A release counts as deployed, and later as committed, only while it     *)
(* serves and the way back is kept.                                        *)
Confirm(r) ==
  /\ healthy /\ installed = r /\ r \in retained
  /\ \/ phase[r] = "open" /\ Reaches(r, "deployed")
     \/ phase[r] = "deployed" /\ Reaches(r, "committed")
  /\ UNCHANGED <<service, previous, retained, watched>>

(* The way back is taken only while it is kept ...                         *)
TurnBack(r) ==
  /\ r \in retained
  /\ \/ phase[r] \in {"open", "deployed"} /\ Reaches(r, "undoing")
     \/ phase[r] = "committed" /\ Reaches(r, "withdrawing")
  /\ UNCHANGED <<service, previous, retained, watched>>

(* ... what has production's name is removed for a release on that way ... *)
Remove(r) ==
  /\ GoingBack(r) /\ r \in retained
  /\ installed # None /\ installed' = None /\ ~healthy'
  /\ UNCHANGED <<phase, previous, retained, watched>>

(* ... which ends with the image it began with, and only when that serves. *)
PutBack(r) ==
  /\ GoingBack(r) /\ r \in retained
  /\ installed = None /\ installed' = previous[r] /\ healthy' \in BOOLEAN
  /\ retained' = retained \ {r}
  /\ UNCHANGED <<phase, previous, watched>>

Undone(r) ==
  /\ GoingBack(r) /\ r \notin retained
  /\ healthy /\ installed = previous[r]
  /\ Reaches(r, "over")
  /\ UNCHANGED <<service, previous, retained, watched>>

(* A release that never interrupted the service ends without effect.       *)
Abandon(r) ==
  /\ phase[r] = "open" /\ r \notin retained /\ installed # None
  /\ Reaches(r, "over")
  /\ UNCHANGED <<service, previous, retained, watched>>

-----------------------------------------------------------------------------
ContractNext ==
  \/ \E r \in Releases : \/ Begin(r) \/ SetAside(r) \/ Install(r) \/ Confirm(r)
                         \/ TurnBack(r) \/ Remove(r) \/ PutBack(r) \/ Undone(r)
                         \/ Abandon(r)
  \/ Supervise \/ ComeUp

ContractSpec == ContractInit /\ [][ContractNext]_contractVars
=============================================================================
