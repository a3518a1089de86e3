---------------------- MODULE DeployWorkflowProperties ----------------------
(***************************************************************************)
(* What the deploy workflow and the broker guarantee together, and which   *)
(* discipline of the people who dispatch it they need.                     *)
(***************************************************************************)
EXTENDS DeployWorkflow

(* A patient dispatcher never has two releases in the middle of a cutover, *)
(* although runs fail, processes die and watchdogs act behind their back.  *)
OneOpenRelease == \A r, s \in Releases : Open(r) /\ Open(s) => r = s

(* "Until that commit exists, a failed health probe or the ten-minute      *)
(* deadline restores the retained container automatically": nothing but    *)
(* the next deploy takes a committed release out of production, neither a  *)
(* watchdog nor the workflow's last job.                                   *)
CommittedIsLeftAlone == [][
  \A r \in Releases :
    Committed(r) /\ production # None /\ production.image = r /\ production' = None
      => holder.step = "retain"
  ]_allVars

-----------------------------------------------------------------------------
(* Liveness: as for the broker alone; besides, jobs go on, and a process   *)
(* that waits for the lock gets it when it is free again and again.        *)
WorkflowFairness ==
  /\ WF_allVars(\/ \E o \in {"ok", "failed"} : Step(o) /\ Leave(Succeeds(o))
                \/ Decision /\ Leave(FALSE))
  /\ \A r \in Releases :
       /\ WF_allVars(Fire(r) /\ UNCHANGED workflow)
       /\ WF_allVars(Expire(r) /\ UNCHANGED workflow)
       /\ SF_allVars((\E healthy \in BOOLEAN : Watchdog(r, healthy)) /\ UNCHANGED workflow)
  /\ WF_allVars(Job)
  /\ SF_allVars(/\ holder = None
                /\ \E r \in Releases : Call(r) \/ \E verb \in Calls : Refuse(verb, r))

FairWorkflowSpec == WorkflowSpec /\ WorkflowFairness /\ <>[][Undisturbed]_vars

(* A run ends: the concurrency group is free for the next one, whatever    *)
(* becomes of the processes the jobs wait for.                             *)
RunEnds == run # None ~> run = None

(* And whatever a run has failed at, production ends up serving: its own   *)
(* last job, or the watchdog after it, has put a sound container there.    *)
RunLeavesService == run # None ~> run = None /\ Serving(production)
=============================================================================
