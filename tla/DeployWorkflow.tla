--------------------------- MODULE DeployWorkflow ---------------------------
(***************************************************************************)
(* The production deploy workflow (.github/workflows/deploy.yml) driving   *)
(* the deploy broker: its guard, cutover and finalize jobs call the verbs  *)
(* of DeployBroker, whose processes queue on the broker's lock with the    *)
(* watchdogs and outlive a job that is lost.  Nobody else calls a verb.    *)
(***************************************************************************)
EXTENDS DeployBrokerProperties

CONSTANTS
  Discipline, \* what people dispatch: "free", "once" or "patient"
  LostJobs    \* may a job be lost (its runner, its time limit) while the host is up?

Calls  == {"deploy", "rollback", "commit"}
Stages == {"guard", "cutover", "finalize"} \cup Calls

Run == [release: Releases,
        at: Stages,                                 \* a verb: the job waits for its process
        entered: BOOLEAN,                           \* has that process the lock?
        cutover: {"pending", "success", "failure"}] \* the result of the cutover job

ASSUME DisciplineAssumption == Discipline \in {"free", "once", "patient"}
ASSUME LostJobsAssumption   == LostJobs \in BOOLEAN
ASSUME NoRunAssumption      == None \notin Run

VARIABLES
  run,    \* the run in progress, or None: the concurrency group admits one
  orphans \* the calls whose job is gone and whose process waits for the lock

workflow == <<run, orphans>>
allVars  == <<vars, workflow>>

WorkflowTypeOK ==
  /\ run \in Run \cup {None}
  /\ orphans \subseteq Calls \X Releases

WorkflowInit == Init /\ run = None /\ orphans = {}

-----------------------------------------------------------------------------
(* What the jobs do.                                                       *)

(* A release that is neither untouched nor committed nor undone.           *)
Open(r) == Recorded(r, {"preparing", "deployed", "restoring"})

Allowed(r) ==
  /\ Discipline \in {"once", "patient"} => disk[r] = None
  /\ Discipline = "patient" => \A s \in Releases : ~Open(s)

NewRun(r) == [release |-> r, at |-> "guard", entered |-> FALSE, cutover |-> "pending"]

(* Faulty variant: a new run cancels the one in progress.                  *)
DispatchAtOnce(r) ==
  /\ Allowed(r)
  /\ run' = NewRun(r)
  /\ orphans' = IF run # None /\ run.at \in Calls /\ ~run.entered
                  THEN orphans \cup {<<run.at, run.release>>} ELSE orphans
  /\ UNCHANGED vars

Dispatch(r) ==
  /\ run = None
  /\ Allowed(r)
  /\ run' = NewRun(r)
  /\ UNCHANGED <<vars, orphans>>

(* finalize leaves the broker alone when the guard has not succeeded.      *)
Guard(ok) ==
  /\ run # None /\ run.at = "guard"
  /\ run' = IF ok THEN [run EXCEPT !.at = "cutover"] ELSE None
  /\ UNCHANGED <<vars, orphans>>

(* The bundle check and preflight, then the call of deploy.                *)
Cutover(ok) ==
  /\ run # None /\ run.at = "cutover"
  /\ ok => preflight
  /\ run' = IF ok THEN [run EXCEPT !.at = "deploy"]
            ELSE [run EXCEPT !.at = "finalize", !.cutover = "failure"]
  /\ UNCHANGED <<vars, orphans>>

(* A failed cutover is rolled back if the broker has a record of the       *)
(* release; a successful one is probed, and committed or rolled back.      *)
Finalize(healthy) ==
  /\ run # None /\ run.at = "finalize"
  /\ healthy => health(run.release)
  /\ run' = IF run.cutover = "success"
              THEN [run EXCEPT !.at = IF healthy THEN "commit" ELSE "rollback"]
            ELSE IF disk[run.release] # None THEN [run EXCEPT !.at = "rollback"]
            ELSE None
  /\ UNCHANGED <<vars, orphans>>

(* The checkout, the runner's preflight or the status verb fails.          *)
FinalizeFails ==
  /\ run # None /\ run.at = "finalize"
  /\ run' = None
  /\ UNCHANGED <<vars, orphans>>

-----------------------------------------------------------------------------
(* The processes the jobs have started.                                    *)

Awaits(verb, r) == run # None /\ run.at = verb /\ run.release = r /\ ~run.entered

Enter(verb, r) ==
  \/ Awaits(verb, r) /\ run' = [run EXCEPT !.entered = TRUE] /\ UNCHANGED orphans
  \/ <<verb, r>> \in orphans /\ orphans' = orphans \ {<<verb, r>>} /\ UNCHANGED run

(* Faulty variant: a commit that reports an error is rolled back.          *)
ReturnedAnxiously(ok) ==
  CASE run.at = "deploy" -> [run EXCEPT !.at = "finalize", !.entered = FALSE,
                                        !.cutover = IF ok THEN "success" ELSE "failure"]
    [] run.at = "commit" /\ ~ok -> [run EXCEPT !.at = "rollback", !.entered = FALSE]
    [] OTHER -> None

(* What becomes of the run when the call its job waits for returns.        *)
Returned(ok) ==
  IF run.at = "deploy"
    THEN [run EXCEPT !.at = "finalize", !.entered = FALSE,
                     !.cutover = IF ok THEN "success" ELSE "failure"]
    ELSE None

(* A call that ends without an effect: for want of its capability, by a    *)
(* check under the lock, or, for a rollback, since it is applied already.  *)
Refuse(verb, r) ==
  /\ \/ Awaits(verb, r) /\ run' = Returned(FALSE) /\ UNCHANGED orphans
     \/ <<verb, r>> \in orphans /\ orphans' = orphans \ {<<verb, r>>} /\ UNCHANGED run
  /\ UNCHANGED vars

Call(r) ==
  \/ Deploy(r) /\ Enter("deploy", r)
  \/ Rollback(r) /\ Enter("rollback", r)
  \/ Commit(r) /\ Enter("commit", r)

(* Faulty variant: a job does not notice that its process was killed.      *)
LeaveUnnoticed(ok) ==
  /\ run' = IF run # None /\ run.entered /\ holder' = None /\ ok THEN Returned(ok) ELSE run
  /\ UNCHANGED orphans

(* The step of the holder that ends its process; only the last step of a   *)
(* verb ends it without an error.                                          *)
Leave(ok) ==
  /\ run' = IF run # None /\ run.entered /\ holder' = None THEN Returned(ok) ELSE run
  /\ UNCHANGED orphans

Succeeds(o) ==
  \/ At("record_deployed") /\ o = "ok"
  \/ At("disarm") /\ holder.verb \in {"rollback", "commit"} /\ o # "late"

-----------------------------------------------------------------------------
(* Lost jobs.  The cutover job is followed by finalize, finalize by nothing. *)

Lost ==
  CASE run.at = "guard" -> run
    [] run.at \in {"cutover", "deploy"} ->
         [run EXCEPT !.at = "finalize", !.entered = FALSE, !.cutover = "failure"]
    [] OTHER -> None

(* Faulty variant: whatever the job was at is taken for a call.            *)
LoseAnyJob ==
  /\ LostJobs
  /\ run # None /\ run.at # "guard"
  /\ run' = Lost
  /\ orphans' = orphans \cup {<<run.at, run.release>>}
  /\ UNCHANGED vars

(* The broker runs as root: the process of a lost job goes on.             *)
LoseJob ==
  /\ LostJobs
  /\ run # None /\ run.at # "guard"
  /\ run' = Lost
  /\ orphans' = IF run.at \in Calls /\ ~run.entered
                  THEN orphans \cup {<<run.at, run.release>>} ELSE orphans
  /\ UNCHANGED vars

(* The runner is on the production host.                                   *)
Boot ==
  /\ Reboot
  /\ run' = IF run = None THEN run ELSE Lost
  /\ orphans' = {}

-----------------------------------------------------------------------------
Job == \/ \E ok \in BOOLEAN : Guard(ok) \/ Cutover(ok) \/ Finalize(ok)
       \/ FinalizeFails

Broker ==
  \/ \E o \in Outcomes : Step(o) /\ Leave(Succeeds(o))
  \/ (Decision \/ Crash) /\ Leave(FALSE)
  \/ /\ \E r \in Releases : \/ \E healthy \in BOOLEAN : Watchdog(r, healthy)
                            \/ Fire(r) \/ GiveUp(r) \/ Expire(r)
     /\ UNCHANGED workflow

WorkflowNext ==
  \/ \E r \in Releases : Dispatch(r) \/ Call(r)
  \/ \E r \in Releases, verb \in Calls : Refuse(verb, r)
  \/ Job \/ Broker \/ LoseJob \/ Boot

WorkflowSpec == WorkflowInit /\ [][WorkflowNext]_allVars
=============================================================================
