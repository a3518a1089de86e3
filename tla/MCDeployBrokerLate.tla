------------------------- MODULE MCDeployBrokerLate -------------------------
(***************************************************************************)
(* An instance of DeployBrokerLate that TLC can exhaust.                   *)
(***************************************************************************)
EXTENDS DeployBrokerLateProperties

(* Bound: one watchdog at a time waits for the lock, and no deadline       *)
(* passes; a probe that fails lets a watchdog decide as a deadline does.   *)
Trimmed == expired = {} /\ \A q, r \in pending : q = r
TrimmedSpec == LateInit /\ [][LateNext /\ Trimmed']_lateVars
=============================================================================
