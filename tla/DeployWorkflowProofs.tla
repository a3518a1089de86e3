------------------------ MODULE DeployWorkflowProofs ------------------------
(***************************************************************************)
(* The deploy workflow uses the broker as the broker allows: seen from the *)
(* broker, every step of the workflow is a step of DeployBroker or none.   *)
(* So what is proved of the broker alone, for callers who call any verb at *)
(* any time, holds of production under any discipline of its dispatchers.  *)
(***************************************************************************)
EXTENDS DeployWorkflowProperties, DeployBrokerProofs

(* Every action of the workflow is one of the broker's, or leaves the      *)
(* broker alone.                                                           *)
LEMMA WorkflowStepIsBrokerStep ==
  ASSUME [WorkflowNext]_allVars
  PROVE  [Next]_vars
<1>1. CASE UNCHANGED allVars
  BY <1>1 DEF allVars, vars
<1>2. CASE \E r \in Releases : Dispatch(r)
  BY <1>2 DEF Dispatch
<1>3. CASE \E r \in Releases : Call(r)
  BY <1>3 DEF Call, Next, Verb
<1>4. CASE \E r \in Releases, verb \in Calls : Refuse(verb, r)
  BY <1>4 DEF Refuse
<1>5. CASE Job
  BY <1>5 DEF Job, Guard, Cutover, Finalize, FinalizeFails
<1>6. CASE Broker
  BY <1>6 DEF Broker, Next, Verb
<1>7. CASE LoseJob
  BY <1>7 DEF LoseJob
<1>8. CASE Boot
  BY <1>8 DEF Boot, Next
<1>. QED
  BY <1>1, <1>2, <1>3, <1>4, <1>5, <1>6, <1>7, <1>8 DEF WorkflowNext

(* The workflow implements the specification of the broker on its own.     *)
THEOREM WorkflowImplementsBroker == WorkflowSpec => Spec
<1>1. WorkflowInit => Init
  BY DEF WorkflowInit
<1>. QED
  BY <1>1, WorkflowStepIsBrokerStep, PTL DEF WorkflowSpec, Spec

-----------------------------------------------------------------------------
(* A run whose call has returned is a run, or over.                        *)
LEMMA ReturnedInRun ==
  ASSUME run \in Run, NEW ok \in BOOLEAN
  PROVE  Returned(ok) \in Run \cup {None}
BY DEF Run, Returned, Stages, Calls

(* So is one that has lost its job.                                        *)
LEMMA LostInRun ==
  ASSUME run \in Run
  PROVE  Lost \in Run \cup {None}
BY DEF Run, Lost, Stages, Calls

(* Every step keeps runs and orphaned calls well formed.                   *)
LEMMA WorkflowTypeStep ==
  ASSUME WorkflowTypeOK, [WorkflowNext]_allVars
  PROVE  WorkflowTypeOK'
<1>. USE DEF WorkflowTypeOK
<1>1. CASE UNCHANGED allVars
  BY <1>1 DEF allVars, workflow
<1>2. ASSUME NEW r \in Releases, Dispatch(r)
      PROVE  WorkflowTypeOK'
  BY <1>2 DEF Dispatch, NewRun, Run, Stages
<1>3. ASSUME NEW r \in Releases, NEW verb \in Calls, Enter(verb, r)
      PROVE  WorkflowTypeOK'
  BY <1>3 DEF Enter, Awaits, Run
<1>4. ASSUME NEW r \in Releases, Call(r)
      PROVE  WorkflowTypeOK'
  <2>. {"deploy", "rollback", "commit"} = Calls
    BY DEF Calls
  <2>. QED
    BY <1>3, <1>4 DEF Call
<1>5. ASSUME NEW r \in Releases, NEW verb \in Calls, Refuse(verb, r)
      PROVE  WorkflowTypeOK'
  BY <1>5, ReturnedInRun DEF Refuse, Awaits
<1>6. CASE Job
  <2>1. ASSUME NEW ok \in BOOLEAN, Guard(ok) \/ Cutover(ok)
        PROVE  WorkflowTypeOK'
    BY <2>1, ZenonT(60) DEF Guard, Cutover, Run, Stages, Calls
  <2>2. ASSUME NEW healthy \in BOOLEAN, Finalize(healthy)
        PROVE  WorkflowTypeOK'
    BY <2>2 DEF Finalize, Run, Stages, Calls
  <2>. QED
    BY <1>6, <2>1, <2>2 DEF Job, FinalizeFails
<1>7. CASE Broker
  <2>1. ASSUME NEW ok \in BOOLEAN, Leave(ok)
        PROVE  WorkflowTypeOK'
    BY <2>1, ReturnedInRun DEF Leave
  <2>2. \A o \in Outcomes : Succeeds(o) \in BOOLEAN
    BY DEF Succeeds, At
  <2>. QED
    BY <1>7, <2>1, <2>2 DEF Broker, workflow
<1>8. CASE LoseJob
  BY <1>8, LostInRun DEF LoseJob, Run
<1>9. CASE Boot
  BY <1>9, LostInRun DEF Boot
<1>. QED
  BY <1>1, <1>2, <1>4, <1>5, <1>6, <1>7, <1>8, <1>9 DEF WorkflowNext

(* The records of runs and of orphaned calls are well formed: only a call  *)
(* that a job really made is ever left behind by a lost job.               *)
THEOREM WorkflowTypeCorrect == WorkflowSpec => []WorkflowTypeOK
<1>1. WorkflowInit => WorkflowTypeOK
  BY DEF WorkflowInit, WorkflowTypeOK
<1>. QED
  BY <1>1, WorkflowTypeStep, PTL DEF WorkflowSpec

-----------------------------------------------------------------------------
(* The calls of a run that is made only once: a rollback and a commit of a *)
(* release are never both on their way, wherever jobs are lost.            *)

(* A call is on its way from the job that makes it to the end of its process. *)
Pending(verb, r) ==
  \/ run # None /\ run.at = verb /\ run.release = r
  \/ <<verb, r>> \in orphans
  \/ holder # None /\ holder.verb = verb /\ R = r

(* What the verbs' own steps are, which tells who writes what.             *)
VerbInv ==
  holder # None =>
    /\ holder.step \in {"record"} \cup CutoverSteps => holder.verb = "deploy"
    /\ holder.step = "record_committed" => holder.verb = "commit"

EnteredInv ==
  run # None /\ run.entered =>
    run.at \in Calls /\ holder # None /\ holder.verb = run.at /\ R = run.release

CallsInv ==
  /\ \A r \in Releases :
       /\ Pending("commit", r) \/ Pending("rollback", r) => disk[r] # None
       /\ Pending("rollback", r) => ~Pending("commit", r) /\ ~Committed(r)
       /\ run # None /\ run.release = r /\ run.at # "commit" =>
            ~Pending("commit", r) /\ ~Committed(r)
       /\ run # None /\ run.release = r /\ run.at # "rollback" => ~Pending("rollback", r)
       /\ Recorded(r, {"restoring"}) => ~Committed(r)
  /\ run # None /\ run.cutover = "success" => disk[run.release] # None

(* And of a patient dispatcher, when no job is lost: whoever holds the     *)
(* lock was called by the run in progress, or is a watchdog.               *)
PatientInv ==
  /\ orphans = {}
  /\ holder # None /\ holder.verb # "watchdog" => run # None /\ run.entered
  /\ run # None => \A s \in Releases \ {run.release} : ~Open(s)
  /\ OneOpenRelease

-----------------------------------------------------------------------------
(* Who holds the lock: a step of the holder keeps its verb and release.    *)

USE DEF Record, Holder, Status, Verbs, Steps, CutoverSteps, RestoreSteps

SameCaller == holder # None /\ holder' # None =>
  holder'.verb = holder.verb /\ holder'.release = holder.release

LEMMA StepKeepsCaller ==
  ASSUME TypeOK, VerbInv, NEW o \in Outcomes, Step(o)
  PROVE  SameCaller /\ VerbInv'
<1> USE NoneIsApart DEF TypeOK, SameCaller, VerbInv, At, Docker, Save, After, Proceed, Exit,
        CutoverSteps, Outcomes
<1>1. CASE RecordRelease(o)
  BY <1>1 DEF RecordRelease
<1>2. CASE ArmWatchdog(o)
  BY <1>2 DEF ArmWatchdog
<1>3. CASE RetainCurrent(o)
  BY <1>3 DEF RetainCurrent
<1>4. CASE StopRetained(o)
  BY <1>4 DEF StopRetained
<1>5. CASE CreateCandidate(o)
  BY <1>5 DEF CreateCandidate
<1>6. CASE ConnectCandidate(o)
  BY <1>6 DEF ConnectCandidate
<1>7. CASE StartCandidate(o)
  BY <1>7 DEF StartCandidate, Start
<1>8. CASE RecordDeployed(o)
  BY <1>8 DEF RecordDeployed
<1>9. CASE Abandon(o)
  BY <1>9 DEF Abandon, StopTimer
<1>10. CASE RecordAbandoned(o)
  BY <1>10 DEF RecordAbandoned
<1>11. CASE RemoveCandidate(o)
  BY <1>11 DEF RemoveCandidate
<1>12. CASE Reinstate(o)
  BY <1>12 DEF Reinstate
<1>13. CASE StartRestored(o)
  BY <1>13 DEF StartRestored, Start
<1>14. CASE RecordRestored(o)
  BY <1>14 DEF RecordRestored
<1>15. CASE RecordCommitted(o)
  BY <1>15 DEF RecordCommitted
<1>16. CASE Disarm(o)
  BY <1>16 DEF Disarm, StopTimer
<1>17. CASE BeginRestore(o)
  BY <1>17 DEF BeginRestore
<1> QED
  BY <1>1, <1>2, <1>3, <1>4, <1>5, <1>6, <1>7, <1>8, <1>9,
     <1>10, <1>11, <1>12, <1>13, <1>14, <1>15, <1>16, <1>17 DEF Step

(* A decision changes the step, or ends the verb.                          *)
LEMMA GoingOn ==
  ASSUME TypeOK, holder # None,
         Abort \/ \E s \in Steps \ ({"record", "record_committed"} \cup CutoverSteps) : Decide(s)
  PROVE  SameCaller /\ VerbInv'
<1>1. CASE Abort
  BY <1>1 DEF Abort, Exit, SameCaller, VerbInv
<1>2. ASSUME NEW s \in Steps \ ({"record", "record_committed"} \cup CutoverSteps), Decide(s)
      PROVE  SameCaller /\ VerbInv'
  <2>1. holder.state \in Record
    BY NoneIsApart DEF TypeOK
  <2> QED
    BY <1>2, <2>1, Proceeding DEF Decide, SameCaller, VerbInv
<1> QED
  BY <1>1, <1>2

(* No step passes the lock on to another verb.                             *)
LEMMA NextKeepsCaller ==
  ASSUME TypeOK, VerbInv, [Next]_vars
  PROVE  SameCaller /\ VerbInv'
<1> USE NoneIsApart DEF TypeOK, SameCaller, VerbInv
<1>1. ASSUME NEW r \in Releases, Verb(r) \/ Fire(r) \/ GiveUp(r) \/ Expire(r)
      PROVE  SameCaller /\ VerbInv'
  <2>1. CASE Deploy(r)
    BY <2>1 DEF Deploy, Acquire
  <2>4. CASE Rollback(r)
    BY <2>4 DEF Rollback, Acquire
  <2>5. CASE Commit(r)
    BY <2>5 DEF Commit, Acquire
  <2>2. ASSUME NEW healthy \in BOOLEAN, Watchdog(r, healthy)
        PROVE  SameCaller /\ VerbInv'
    BY <2>2 DEF Watchdog, Acquire
  <2>3. CASE Fire(r) \/ GiveUp(r) \/ Expire(r)
    BY <2>3 DEF Fire, GiveUp, Expire
  <2> QED
    BY <1>1, <2>1, <2>2, <2>3, <2>4, <2>5 DEF Verb
<1>2. CASE Decision
  <2> USE DEF At, Decide, Abort, Proceed, Exit, CutoverSteps
  <2>1. ASSUME NEW ok \in BOOLEAN, CandidateGate(ok)
        PROVE  SameCaller /\ VerbInv'
    BY <2>1 DEF CandidateGate
  <2>2. ASSUME NEW ok \in BOOLEAN, RestoreGate(ok)
        PROVE  SameCaller /\ VerbInv'
    BY <2>2, GoingOn DEF RestoreGate
  <2>3. ASSUME NEW ok \in BOOLEAN, Recover(ok)
        PROVE  SameCaller /\ VerbInv'
    BY <2>3, GoingOn DEF Recover
  <2>4. CASE ResumeRestore
    BY <2>4 DEF ResumeRestore
  <2>5. CASE RefuseRestore
    BY <2>5 DEF RefuseRestore
  <2>6. ASSUME NEW seen \in BOOLEAN, CheckProduction(seen)
        PROVE  SameCaller /\ VerbInv'
    BY <2>6, GoingOn DEF CheckProduction
  <2> QED
    BY <1>2, <2>1, <2>2, <2>3, <2>4, <2>5, <2>6 DEF Decision
<1>3. CASE Crash \/ Reboot \/ UNCHANGED vars
  BY <1>3 DEF Crash, Reboot, Exit, vars
<1> QED
  BY <1>1, <1>2, <1>3, StepKeepsCaller DEF Next

-----------------------------------------------------------------------------
(* How calls and runs come and go.                                         *)

(* The last job makes a call.                                              *)
Made(verb, r) ==
  /\ run # None /\ run.at = "finalize" /\ run.release = r
  /\ run' # None /\ run'.at = verb
  /\ disk[r] # None \/ run.cutover = "success"
  /\ UNCHANGED <<disk, holder, orphans>>

CallsCome ==
  \A r \in Releases, verb \in {"commit", "rollback"} :
    Pending(verb, r)' => Pending(verb, r) \/ Made(verb, r)

(* A run is new, and its release untouched, or it goes on.                 *)
RunsGoOn ==
  run' # None =>
    \/ disk[run'.release] = None /\ run'.cutover = "pending" /\ UNCHANGED disk
    \/ /\ run # None /\ run'.release = run.release
       /\ run.at \in {"commit", "rollback"} => run'.at = run.at
       /\ run'.cutover = "success" =>
            run.cutover = "success" \/ disk'[run'.release] # None

Ladder == CallsCome /\ RunsGoOn /\ EnteredInv'

(* How a run comes, and what its jobs call.                                *)
LEMMA JobLadder ==
  ASSUME TypeOK, WorkflowTypeOK, EnteredInv, Discipline \in {"once", "patient"},
         \/ \E r \in Releases : Dispatch(r)
         \/ Job
  PROVE  Ladder
<1> USE NoneIsApart, NoRunAssumption DEF WorkflowTypeOK, Run, Stages, Calls, Ladder, CallsCome,
        RunsGoOn, EnteredInv, Pending, R, vars
<1>1. ASSUME NEW r \in Releases, Dispatch(r)
      PROVE  Ladder
  BY <1>1 DEF Dispatch, Allowed, NewRun
<1>2. ASSUME NEW ok \in BOOLEAN, Guard(ok)
      PROVE  Ladder
  BY <1>2 DEF Guard
<1>3. ASSUME NEW ok \in BOOLEAN, Cutover(ok)
      PROVE  Ladder
  BY <1>3 DEF Cutover
<1>4. ASSUME NEW healthy \in BOOLEAN, Finalize(healthy)
      PROVE  Ladder
  BY <1>4 DEF Finalize, Made
<1>5. CASE FinalizeFails
  BY <1>5 DEF FinalizeFails
<1> QED
  BY <1>1, <1>2, <1>3, <1>4, <1>5 DEF Job

(* A call that gets the lock, or is refused, was on its way.               *)
LEMMA CallLadder ==
  ASSUME TypeOK, WorkflowTypeOK, EnteredInv,
         NEW r \in Releases, Call(r) \/ \E verb \in Calls : Refuse(verb, r)
  PROVE  Ladder
<1> USE NoneIsApart, NoRunAssumption DEF WorkflowTypeOK, Run, Stages, Calls, Ladder, CallsCome,
        RunsGoOn, EnteredInv, Pending, R, vars, Awaits
<1>1. ASSUME NEW verb \in Calls, Refuse(verb, r)
      PROVE  Ladder
  BY <1>1 DEF Refuse, Returned
<1>2. ASSUME NEW verb \in Calls, NEW step \in Steps, NEW st \in Record,
             Acquire(verb, r, step, st), Enter(verb, r)
      PROVE  Ladder
  <2>1. /\ holder = None /\ holder' # None /\ holder'.verb = verb /\ holder'.release = r
        /\ UNCHANGED disk
    BY <1>2 DEF Acquire
  <2>2. CASE Awaits(verb, r) /\ run' = [run EXCEPT !.entered = TRUE] /\ UNCHANGED orphans
    BY <2>1, <2>2
  <2>3. CASE <<verb, r>> \in orphans /\ orphans' = orphans \ {<<verb, r>>} /\ UNCHANGED run
    BY <2>1, <2>3
  <2> QED
    BY <1>2, <2>2, <2>3 DEF Enter
<1>3. CASE Deploy(r) /\ Enter("deploy", r)
  <2>1. [status |-> "preparing", committed |-> FALSE, old_image |-> production.image] \in Record
    BY <1>3 DEF Deploy, preflight, Serving, TypeOK, Container
  <2> QED
    BY <1>2, <1>3, <2>1 DEF Deploy
<1>4. CASE Rollback(r) /\ Enter("rollback", r)
  BY <1>2, <1>4 DEF Rollback, TypeOK
<1>5. CASE Commit(r) /\ Enter("commit", r)
  BY <1>2, <1>5 DEF Commit, TypeOK
<1> QED
  BY <1>1, <1>3, <1>4, <1>5 DEF Call

(* A lost job and a boot start no call.                                    *)
LEMMA LossLadder ==
  ASSUME TypeOK, WorkflowTypeOK, EnteredInv, LoseJob \/ Boot
  PROVE  Ladder
<1> USE NoneIsApart, NoRunAssumption DEF WorkflowTypeOK, Run, Stages, Calls, Ladder, CallsCome,
        RunsGoOn, EnteredInv, Pending, R, vars, Lost
<1>1. CASE LoseJob
  BY <1>1 DEF LoseJob
<1>2. CASE Boot
  BY <1>2 DEF Boot, Reboot
<1> QED
  BY <1>1, <1>2

(* The holder's process goes on, or ends and its job learns how.           *)
LEMMA LeaveLadder ==
  ASSUME TypeOK, WorkflowTypeOK, EnteredInv, SameCaller, holder # None,
         NEW ok \in BOOLEAN, Leave(ok),
         run # None /\ run.entered /\ run.at = "deploy" /\ ok => disk'[run.release] # None
  PROVE  Ladder
<1> USE NoRunAssumption DEF WorkflowTypeOK, Run, Stages, Calls, Ladder, CallsCome,
        RunsGoOn, EnteredInv, Pending, R, SameCaller
<1>1. CASE run # None /\ run.entered /\ holder' = None
  BY <1>1 DEF Leave, Returned
<1>2. CASE ~(run # None /\ run.entered /\ holder' = None)
  BY <1>2 DEF Leave
<1> QED
  BY <1>1, <1>2

(* Effects are those of the verb that holds the lock.                      *)
LEMMA StepHolds == \A o \in Outcomes : Step(o) => holder # None
BY DEF Step, At, RecordRelease, ArmWatchdog, RetainCurrent, StopRetained, CreateCandidate,
   ConnectCandidate, StartCandidate, RecordDeployed, Abandon, RecordAbandoned, BeginRestore,
   RemoveCandidate, Reinstate, StartRestored, RecordRestored, RecordCommitted, Disarm

(* So are decisions, and deaths.                                           *)
LEMMA DecisionHolds == Decision \/ Crash => holder # None
BY DEF Decision, Crash, At, CandidateGate, RestoreGate, Recover, CheckProduction,
   ResumeRestore, RefuseRestore

(* A deploy that ends well has left its record.                            *)
LEMMA DeployRecords ==
  ASSUME TypeOK, Step("ok"), At("record_deployed")
  PROVE  R \in Releases /\ disk'[R] # None
<1>1. RecordDeployed("ok")
  BY DEF Step, At, RecordRelease, ArmWatchdog, RetainCurrent, StopRetained, CreateCandidate,
     ConnectCandidate, StartCandidate, Abandon, RecordAbandoned, BeginRestore,
     RemoveCandidate, Reinstate, StartRestored, RecordRestored, RecordCommitted, Disarm
<1> QED
  BY <1>1, NoneIsApart DEF RecordDeployed, Save, TakesEffect, TypeOK, At, R

(* The process that holds the lock goes on, or ends and is heard of.       *)
LEMMA BrokerLadder ==
  ASSUME TypeOK, WorkflowTypeOK, VerbInv, EnteredInv, Broker
  PROVE  Ladder
<1>1. [Next]_vars
  BY WorkflowStepIsBrokerStep DEF WorkflowNext
<1>2. SameCaller
  BY <1>1, NextKeepsCaller
<1>3. ASSUME NEW o \in Outcomes, Step(o), Leave(Succeeds(o))
      PROVE  Ladder
  <2>1. Succeeds(o) \in BOOLEAN
    BY DEF Succeeds, At
  <2>2. ASSUME run # None, run.entered, run.at = "deploy", Succeeds(o)
        PROVE  disk'[run.release] # None
    <3>1. holder # None /\ holder.verb = "deploy" /\ R = run.release
      BY <2>2 DEF EnteredInv
    <3>2. At("record_deployed") /\ o = "ok"
      BY <2>2, <3>1 DEF Succeeds
    <3> QED
      BY <1>3, <3>1, <3>2, DeployRecords
  <2> QED
    BY <1>2, <1>3, <2>1, <2>2, StepHolds, LeaveLadder
<1>4. CASE (Decision \/ Crash) /\ Leave(FALSE)
  BY <1>2, <1>4, DecisionHolds, LeaveLadder
<1>5. ASSUME NEW r \in Releases,
             (\E healthy \in BOOLEAN : Watchdog(r, healthy)) \/ Fire(r) \/ GiveUp(r) \/ Expire(r),
             UNCHANGED workflow
      PROVE  Ladder
  <2> USE NoRunAssumption DEF WorkflowTypeOK, Run, Ladder, CallsCome, RunsGoOn, EnteredInv,
          Pending, R, workflow
  <2>1. UNCHANGED <<disk, holder>> \/ \E step, st : Acquire("watchdog", r, step, st)
    BY <1>5 DEF Watchdog, Fire, GiveUp, Expire
  <2>2. CASE UNCHANGED <<disk, holder>>
    BY <1>5, <2>2
  <2>3. ASSUME NEW step, NEW st, Acquire("watchdog", r, step, st)
        PROVE  Ladder
    <3>1. holder = None /\ holder'.verb = "watchdog" /\ UNCHANGED disk
      BY <2>3 DEF Acquire
    <3> QED
      BY <1>5, <3>1
  <2> QED
    BY <2>1, <2>2, <2>3
<1> QED
  BY <1>3, <1>4, <1>5 DEF Broker

(* So calls and runs come and go as described, at every step.              *)
LEMMA WorkflowLadder ==
  ASSUME TypeOK, WorkflowTypeOK, VerbInv, EnteredInv, Discipline \in {"once", "patient"},
         WorkflowNext
  PROVE  Ladder
BY JobLadder, CallLadder, LossLadder, BrokerLadder DEF WorkflowNext

-----------------------------------------------------------------------------
(* Who writes which record.                                                *)

LEMMA RecordsAreWritten ==
  ASSUME ~InspectFaults, Inv1, Inv2, VerbInv, [Next]_vars, NEW r \in Releases
  PROVE  /\ disk[r] # None => disk'[r] # None
         /\ disk'[r] # disk[r] => holder # None /\ R = r
         /\ disk[r] = None /\ disk'[r] # None => holder.verb = "deploy"
         /\ ~Committed(r) /\ Committed(r)' => holder.verb = "commit" /\ disk'[r].status = "committed"
<1> DEFINE Goal ==
         /\ disk[r] # None => disk'[r] # None
         /\ disk'[r] # disk[r] => holder # None /\ R = r
         /\ disk[r] = None /\ disk'[r] # None => holder.verb = "deploy"
         /\ ~Committed(r) /\ Committed(r)' => holder.verb = "commit" /\ disk'[r].status = "committed"
<1>1. CASE disk' = disk
  BY <1>1 DEF Committed
<1>2. CASE disk' # disk
  <2>1. PICK o \in Outcomes, status \in Status : Writes(o, status)
    BY <1>2, OnlySavesWrite
  <2>2. TypeOK' /\ TypeOK
    BY NextInv1 DEF Inv1
  <2> USE NoneIsApart DEF Inv2, RecordsInv, HolderInv, Committed, At, R, Save, VerbInv
  <2>3. CASE RecordRelease(o)
    BY <2>2, <2>3 DEF RecordRelease, TypeOK
  <2>4. CASE RecordDeployed(o)
    BY <2>2, <2>4 DEF RecordDeployed, TypeOK
  <2>5. CASE RecordAbandoned(o)
    BY <2>2, <2>5, ZenonT(60) DEF RecordAbandoned, TypeOK
  <2>6. CASE BeginRestore(o)
    BY <2>2, <2>6 DEF BeginRestore, TypeOK
  <2>7. CASE RecordRestored(o)
    BY <2>2, <2>7, ZenonT(60) DEF RecordRestored, TypeOK
  <2>8. CASE RecordCommitted(o)
    BY <2>2, <2>8, ZenonT(60) DEF RecordCommitted, TypeOK
  <2> QED
    BY <2>1, <2>3, <2>4, <2>5, <2>6, <2>7, <2>8 DEF Writes
<1> QED
  BY <1>1, <1>2

(* A rollback and a commit are never both on their way.                    *)
LEMMA CallsStep ==
  ASSUME ~InspectFaults, Inv1, Inv2, WorkflowTypeOK, VerbInv, CallsInv, [Next]_vars, Ladder
  PROVE  CallsInv'
<1>1. ASSUME NEW r \in Releases
      PROVE  /\ Committed(r)' => Committed(r) \/ Pending("commit", r)
             /\ disk[r] # None => disk'[r] # None
  BY RecordsAreWritten DEF Pending, Committed
<1>2. ASSUME NEW r \in Releases
      PROVE  /\ Pending("commit", r)' => Pending("commit", r) \/ Made("commit", r)
             /\ Pending("rollback", r)' => Pending("rollback", r) \/ Made("rollback", r)
  BY DEF Ladder, CallsCome
<1>3. ASSUME NEW r \in Releases, NEW verb \in {"commit", "rollback"}, Made(verb, r)
      PROVE  /\ disk[r] # None
             /\ run # None /\ run.release = r /\ run.at = "finalize"
             /\ ~Pending("commit", r) /\ ~Pending("rollback", r) /\ ~Committed(r) /\ ~Committed(r)'
             /\ Made("commit", r) => ~Made("rollback", r)
  BY <1>3 DEF CallsInv, Made, Committed
<1>4. ASSUME NEW r \in Releases, run' # None, run'.release = r
      PROVE  \/ /\ disk[r] = None
                /\ ~Pending("commit", r)' /\ ~Pending("rollback", r)' /\ ~Committed(r)'
             \/ /\ run # None /\ run.release = r
                /\ run.at \in {"commit", "rollback"} => run'.at = run.at
  <2>1. CASE disk[r] = None /\ UNCHANGED disk
    BY <2>1, <1>1, <1>2, <1>3 DEF CallsInv, Committed
  <2> QED
    BY <1>4, <2>1 DEF Ladder, RunsGoOn
<1>5. ASSUME NEW r \in Releases
      PROVE  /\ Pending("commit", r)' \/ Pending("rollback", r)' => disk'[r] # None
             /\ Pending("rollback", r)' => ~Pending("commit", r)' /\ ~Committed(r)'
  BY <1>1, <1>2, <1>3 DEF CallsInv
<1>6. ASSUME NEW r \in Releases, run' # None, run'.release = r
      PROVE  /\ run'.at # "commit" => ~Pending("commit", r)' /\ ~Committed(r)'
             /\ run'.at # "rollback" => ~Pending("rollback", r)'
  BY <1>1, <1>2, <1>4, <1>6 DEF CallsInv, Made
<1>7. ASSUME NEW r \in Releases, Recorded(r, {"restoring"})'
      PROVE  ~Committed(r)'
  <2>1. CASE disk'[r] = disk[r]
    BY <1>7, <2>1 DEF CallsInv, Recorded, Committed
  <2>2. CASE disk'[r] # disk[r]
    <3>1. Committed(r) => Pending("rollback", r)
      BY <1>7, <2>2, WritesAreSound, RecordsAreWritten DEF CommitRespected, Recorded, Pending
    <3>2. ~Committed(r)
      BY <3>1 DEF CallsInv
    <3> QED
      BY <1>7, <3>2, RecordsAreWritten DEF Recorded
  <2> QED
    BY <2>1, <2>2
<1>8. run' # None /\ run'.cutover = "success" => disk'[run'.release] # None
  <2> SUFFICES ASSUME run' # None, run'.cutover = "success" PROVE disk'[run'.release] # None
    OBVIOUS
  <2>1. run # None /\ run'.release = run.release
        /\ (run.cutover = "success" \/ disk'[run'.release] # None)
    BY DEF Ladder, RunsGoOn
  <2>2. run.release \in Releases
    BY <2>1 DEF WorkflowTypeOK, Run
  <2> QED
    BY <1>1, <2>1, <2>2 DEF CallsInv
<1> QED
  BY <1>5, <1>6, <1>7, <1>8 DEF CallsInv

CallersInv == /\ Inv1 /\ Inv2
              /\ WorkflowTypeOK /\ VerbInv /\ EnteredInv /\ CallsInv

(* Nobody calls to begin with.                                             *)
LEMMA CallersInit == WorkflowInit => CallersInv
<1> SUFFICES ASSUME WorkflowInit PROVE CallersInv
  OBVIOUS
<1>1. Inv1 /\ Inv2
  BY InitInv1, InitInv2 DEF WorkflowInit
<1>2. WorkflowTypeOK /\ VerbInv /\ EnteredInv
  BY DEF WorkflowInit, Init, WorkflowTypeOK, VerbInv, EnteredInv
<1>3. CallsInv
  BY DEF WorkflowInit, Init, CallsInv, Pending, Committed, Recorded
<1> QED
  BY <1>1, <1>2, <1>3 DEF CallersInv

(* The parts together.                                                     *)
LEMMA CallersStep ==
  ASSUME ~InspectFaults, Discipline \in {"once", "patient"}, CallersInv, [WorkflowNext]_allVars
  PROVE  CallersInv'
<1> USE DEF CallersInv
<1>1. [Next]_vars
  BY WorkflowStepIsBrokerStep
<1>2. Inv1' /\ Inv2' /\ WorkflowTypeOK' /\ VerbInv'
  BY <1>1, NextInv1, NextInv2, WorkflowTypeStep, NextKeepsCaller DEF Inv1
<1>3. CASE WorkflowNext
  <2>1. Ladder
    BY <1>3, WorkflowLadder DEF Inv1
  <2> QED
    BY <1>1, <1>2, <2>1, CallsStep DEF Ladder
<1>4. CASE UNCHANGED allVars
  BY <1>2, <1>4 DEF allVars, vars, workflow, EnteredInv, CallsInv, Pending, Committed, Recorded, R
<1> QED
  BY <1>3, <1>4

(* So they hold throughout, jobs lost or not.                              *)
LEMMA CallersInvAlways ==
  ASSUME ~InspectFaults, Discipline \in {"once", "patient"}
  PROVE  WorkflowSpec => []CallersInv
<1>1. CallersInv /\ [WorkflowNext]_allVars => CallersInv'
  BY CallersStep
<1> QED
  BY <1>1, CallersInit, PTL DEF WorkflowSpec

(* Wherever jobs are lost: if no release is dispatched twice, no committed *)
(* release is rolled back, and a restore that is in nobody's hands has its *)
(* timer.                                                                  *)
THEOREM FailedRestoreKeepsTimerAlways ==
  ASSUME ~InspectFaults, Discipline \in {"once", "patient"}
  PROVE  WorkflowSpec => []FailedRestoreKeepsTimer
<1>1. CallersInv /\ OutageInv => FailedRestoreKeepsTimer
  BY DEF CallersInv, CallsInv, OutageInv, FailedRestoreKeepsTimer, Armed
<1>2. WorkflowSpec => []OutageInv
  BY WorkflowImplementsBroker, Inv3Always, PTL
<1> QED
  BY <1>1, <1>2, CallersInvAlways, PTL

-----------------------------------------------------------------------------
(* Patient dispatchers.                                                    *)

(* Only the deploy of the run in progress opens a release, a new one.      *)
LEMMA Opening ==
  ASSUME ~InspectFaults, CallersInv, PatientInv, [Next]_vars,
         NEW s \in Releases, Open(s)', ~Open(s)
  PROVE  run # None /\ run.release = s /\ disk[s] = None
<1> USE DEF CallersInv
<1>1. disk'[s] # disk[s]
  BY DEF Open, Recorded
<1>2. holder # None /\ R = s /\ (disk[s] = None => holder.verb = "deploy")
  BY <1>1, RecordsAreWritten DEF Open, Recorded
<1>3. disk[s] # None => disk[s].status = "committed"
  BY <1>1, WritesAreSound DEF MovesForward, Successors, Open, Recorded, Inv1, TypeOK
<1>4. disk[s] = None
  <2> SUFFICES ASSUME disk[s] # None PROVE FALSE
    OBVIOUS
  <2>1. Committed(s)
    BY <1>3 DEF Inv2, RecordsInv, Recorded
  <2>2. holder.verb = "rollback"
    BY <1>1, <2>1, WritesAreSound DEF CommitRespected, Open, Recorded
  <2> QED
    BY <1>2, <2>1, <2>2 DEF CallsInv, Pending
<1> QED
  BY <1>2, <1>4 DEF PatientInv, EnteredInv

(* Every step keeps at most one release open, that of the run in progress. *)
LEMMA PatientStep ==
  ASSUME ~InspectFaults, ~LostJobs, Discipline = "patient", CallersInv, PatientInv, WorkflowNext
  PROVE  PatientInv'
<1>0. [Next]_vars /\ SameCaller /\ EnteredInv /\ RunsGoOn /\ run \in Run \cup {None}
  BY WorkflowStepIsBrokerStep, NextKeepsCaller, WorkflowLadder
  DEF CallersInv, Inv1, Ladder, WorkflowTypeOK
<1>1. orphans' = {}
  BY DEF PatientInv, WorkflowNext, Dispatch, Job, Guard, Cutover, Finalize, FinalizeFails,
     Call, Enter, Refuse, Broker, Leave, workflow, LoseJob, Boot
<1>2. holder' # None /\ holder'.verb # "watchdog" => run' # None /\ run'.entered
  <2> SUFFICES ASSUME holder' # None, holder'.verb # "watchdog"
               PROVE  run' # None /\ run'.entered
    OBVIOUS
  <2> USE <1>0 DEF PatientInv
  <2>1. CASE UNCHANGED vars
    <3>1. run # None /\ run.entered /\ run.at \in Calls
      BY <2>1 DEF vars, EnteredInv
    <3>2. ~(\E r \in Releases : Dispatch(r)) /\ ~Job /\ ~LoseJob
      BY <3>1 DEF Dispatch, Job, Guard, Cutover, Finalize, FinalizeFails, LoseJob, Calls
    <3>3. ~(\E r \in Releases, verb \in Calls : Refuse(verb, r))
      BY <3>1 DEF Refuse, Awaits
    <3>4. CASE \E r \in Releases : Call(r)
      BY <2>1, <3>1, <3>4 DEF Call, Enter, Awaits
    <3>5. CASE Broker
      BY <2>1, <3>1, <3>5 DEF Broker, Leave, workflow, vars
    <3>6. ~Boot
      BY DEF Boot, Reboot
    <3> QED
      BY <3>2, <3>3, <3>4, <3>5, <3>6 DEF WorkflowNext
  <2>2. CASE \E r \in Releases : Call(r)
    <3>1. PICK r \in Releases : \E verb \in Calls : Enter(verb, r)
      BY <2>2 DEF Call, Calls
    <3>2. run # None /\ run' = [run EXCEPT !.entered = TRUE]
      BY <3>1 DEF Enter, Awaits
    <3> QED
      BY <3>2, NoRunAssumption DEF Run
  <2>3. CASE Broker /\ ~UNCHANGED vars
    <3>1. CASE holder # None
      BY <2>3, <3>1 DEF Broker, Leave, workflow, SameCaller
    <3>2. CASE holder = None
      <4>1. PICK r \in Releases : (\E healthy \in BOOLEAN : Watchdog(r, healthy))
                                   \/ Fire(r) \/ GiveUp(r) \/ Expire(r)
        BY <2>3, <3>2, StepHolds, DecisionHolds DEF Broker
      <4> QED
        BY <3>2, <4>1 DEF Watchdog, Acquire, Fire, GiveUp, Expire
    <3> QED
      BY <3>1, <3>2
  <2>4. ~Boot
    BY DEF Boot, Reboot
  <2> QED
    BY <2>1, <2>2, <2>3, <2>4 DEF WorkflowNext, Dispatch, Job, Guard, Cutover, Finalize,
       FinalizeFails, Refuse, LoseJob
<1>3. run' # None => \A s \in Releases \ {run'.release} : ~Open(s)'
  <2>1. CASE \E r \in Releases : Dispatch(r)
    BY <2>1 DEF Dispatch, Allowed, Open, Recorded, vars
  <2>2. CASE run # None
    <3>1. run' # None => run'.release = run.release
      BY <2>2 DEF PatientInv, WorkflowNext, Dispatch, Job, Guard, Cutover, Finalize,
         FinalizeFails, Call, Enter, Awaits, Refuse, Returned, Broker, Leave, workflow,
         LoseJob, Boot, Lost, CallersInv, WorkflowTypeOK, Run
    <3> QED
      BY <1>0, <2>2, <3>1, Opening DEF PatientInv
  <2>3. CASE run = None /\ ~\E r \in Releases : Dispatch(r)
    <3>1. run' = None
      BY <2>3 DEF PatientInv, WorkflowNext, Job, Guard, Cutover, Finalize, FinalizeFails,
         Call, Enter, Awaits, Refuse, Broker, Leave, workflow, LoseJob, Boot
    <3> QED
      BY <3>1
  <2> QED
    BY <2>1, <2>2, <2>3
<1>4. OneOpenRelease'
  <2> SUFFICES ASSUME NEW r \in Releases, NEW s \in Releases, Open(r)', Open(s)'
               PROVE  r = s
    BY DEF OneOpenRelease
  <2>1. Open(r) \/ (run # None /\ run.release = r)
    BY <1>0, Opening
  <2>2. Open(s) \/ (run # None /\ run.release = s)
    BY <1>0, Opening
  <2> QED
    BY <2>1, <2>2 DEF PatientInv, OneOpenRelease
<1> QED
  BY <1>1, <1>2, <1>3, <1>4 DEF PatientInv

(* So it holds throughout.                                                 *)
LEMMA PatientInvAlways ==
  ASSUME ~InspectFaults, ~LostJobs, Discipline = "patient"
  PROVE  WorkflowSpec => [](CallersInv /\ PatientInv)
<1>1. WorkflowInit => PatientInv
  BY DEF WorkflowInit, Init, PatientInv, OneOpenRelease, Open, Recorded
<1>2. CallersInv /\ PatientInv /\ [WorkflowNext]_allVars => PatientInv'
  <2> SUFFICES ASSUME CallersInv, PatientInv, [WorkflowNext]_allVars PROVE PatientInv'
    OBVIOUS
  <2>1. CASE UNCHANGED allVars
    BY <2>1 DEF allVars, vars, workflow, PatientInv, OneOpenRelease, Open, Recorded
  <2> QED
    BY <2>1, PatientStep
<1>3. WorkflowSpec => []CallersInv
  BY CallersInvAlways
<1> QED
  BY <1>1, <1>2, <1>3, PTL DEF WorkflowSpec

(* Patient dispatchers never have two releases in the middle of a cutover, *)
(* whatever fails, dies or is undone by a watchdog behind their back.      *)
THEOREM OneOpenReleaseAlways ==
  ASSUME ~InspectFaults, ~LostJobs, Discipline = "patient"
  PROVE  WorkflowSpec => []OneOpenRelease
<1>1. PatientInv => OneOpenRelease
  BY DEF PatientInv
<1> QED
  BY <1>1, PatientInvAlways, PTL

(* While an open release retains the old container, nothing but its own    *)
(* candidate has production's name.                                        *)
InPlace == \A s \in Releases :
  Open(s) /\ Retained(s) /\ production # None => production.image = s

(* The steps that change containers; none of them writes a record.         *)
Moves(o) ==
  \/ RetainCurrent(o) \/ StopRetained(o) \/ CreateCandidate(o) \/ ConnectCandidate(o)
  \/ StartCandidate(o) \/ RemoveCandidate(o) \/ Reinstate(o) \/ StartRestored(o)

LEMMA OnlyMovesMove ==
  ASSUME [Next]_vars, containers' # containers
  PROVE  \E o \in Outcomes : Moves(o)
<1> USE DEF Decide, Abort, Acquire, Save, StopTimer
<1>1. ASSUME NEW r \in Releases, Verb(r) \/ Fire(r) \/ GiveUp(r) \/ Expire(r)
      PROVE  FALSE
  BY <1>1 DEF Verb, Deploy, Rollback, Commit, Watchdog, Fire, GiveUp, Expire
<1>2. CASE Decision \/ Crash \/ Reboot \/ UNCHANGED vars
  BY <1>2 DEF Decision, CandidateGate, RestoreGate, Recover, CheckProduction, ResumeRestore,
     RefuseRestore, Crash, Reboot, vars, containers
<1>3. ASSUME NEW o \in Outcomes, Step(o)
      PROVE  Moves(o)
  BY <1>3 DEF Step, Moves, RecordRelease, ArmWatchdog, RecordDeployed, Abandon, RecordAbandoned,
     BeginRestore, RecordRestored, RecordCommitted, Disarm
<1> QED
  BY <1>1, <1>2, <1>3 DEF Next

(* Every step keeps it so.                                                 *)
LEMMA InPlaceStep ==
  ASSUME ~InspectFaults, CallersInv, PatientInv, InPlace, [Next]_vars
  PROVE  InPlace'
<1> SUFFICES ASSUME NEW s \in Releases, Open(s)', Retained(s)', production' # None
             PROVE  production'.image = s
  BY DEF InPlace
<1>1. CASE UNCHANGED containers
  <2>1. Retained(s) /\ production # None /\ production' = production
    BY <1>1 DEF containers, Retained
  <2>2. Open(s)
    BY <2>1, Opening DEF CallersInv, Inv2, RecordsInv, Recorded
  <2> QED
    BY <2>1, <2>2 DEF InPlace
<1>2. CASE containers' # containers
  <2>1. PICK o \in Outcomes : Moves(o)
    BY <1>2, OnlyMovesMove
  <2>2. UNCHANGED disk /\ holder # None /\ R \in Releases
        /\ production' \in Container \cup {None}
    <3>1. UNCHANGED disk /\ holder # None
      BY <2>1 DEF Moves, RetainCurrent, StopRetained, CreateCandidate, ConnectCandidate,
         StartCandidate, RemoveCandidate, Reinstate, StartRestored, Start, Docker, At
    <3> QED
      BY <3>1, NextInv1 DEF CallersInv, Inv1, TypeOK, R
  <2>3. Open(s) /\ (Open(R) => s = R)
    BY <2>2 DEF Open, Recorded, PatientInv, OneOpenRelease
  <2> USE DEF Docker, At
  <2>4. CASE RetainCurrent(o) \/ RemoveCandidate(o)
    BY <1>2, <2>4 DEF RetainCurrent, RemoveCandidate, containers
  <2>5. CASE CreateCandidate(o)
    <3>1. Open(R)
      BY <2>2, <2>5, NoneIsApart DEF CreateCandidate, R, CallersInv, Inv1, TypeOK, Inv2, HolderInv,
         Open, Recorded
    <3> QED
      BY <1>2, <2>3, <2>5, <3>1 DEF CreateCandidate, containers
  <2>6. CASE Reinstate(o)
    <3>1. Open(R)
      BY <2>2, <2>6 DEF Reinstate, CallersInv, Inv2, HolderInv, Open, Recorded
    <3>2. backup' = [backup EXCEPT ![R] = None]
      BY <1>2, <2>6 DEF Reinstate, containers
    <3> QED
      BY <2>2, <2>3, <3>1, <3>2 DEF Retained, CallersInv, Inv1, TypeOK
  <2>7. CASE StopRetained(o) \/ ConnectCandidate(o) \/ StartCandidate(o) \/ StartRestored(o)
    <3>1. Retained(s) /\ production # None /\ production'.image = production.image
      BY <1>2, <2>2, <2>7 DEF StopRetained, ConnectCandidate, StartCandidate, StartRestored, Start,
         containers, Retained, CallersInv, Inv1, TypeOK, ContainersInv, Container
    <3> QED
      BY <2>3, <3>1 DEF InPlace
  <2> QED
    BY <2>1, <2>4, <2>5, <2>6, <2>7 DEF Moves
<1> QED
  BY <1>1, <1>2

(* Patient dispatchers need not fear for a committed release: nothing but  *)
(* the deploy of the next one takes it out of production.                  *)
THEOREM CommittedIsLeftAloneAlways ==
  ASSUME ~InspectFaults, ~LostJobs, Discipline = "patient"
  PROVE  WorkflowSpec => CommittedIsLeftAlone
<1>1. CallersInv /\ PatientInv /\ InPlace /\ [WorkflowNext]_allVars =>
        [\A r \in Releases :
           Committed(r) /\ production # None /\ production.image = r /\ production' = None
             => holder.step = "retain"]_allVars
  <2> SUFFICES ASSUME CallersInv, PatientInv, InPlace, [WorkflowNext]_allVars,
                      NEW r \in Releases, Committed(r), production # None,
                      production.image = r, production' = None
               PROVE  holder.step = "retain"
    OBVIOUS
  <2>1. [Next]_vars /\ containers' # containers
    BY WorkflowStepIsBrokerStep DEF containers
  <2>2. PICK o \in Outcomes : Moves(o)
    BY <2>1, OnlyMovesMove
  <2>3. RetainCurrent(o) \/ RemoveCandidate(o)
    <3> SUFFICES ASSUME ~RetainCurrent(o), ~RemoveCandidate(o) PROVE FALSE
      OBVIOUS
    <3> USE <2>2 DEF Docker, At
    <3>1. production \in Container /\ (holder # None => R \in Releases)
      BY DEF CallersInv, Inv1, TypeOK, R
    <3>2. ~StopRetained(o)
      BY DEF StopRetained
    <3>3. ~CreateCandidate(o)
      BY <3>1, NoneIsApart DEF CreateCandidate, Images
    <3>4. ~(ConnectCandidate(o) \/ StartCandidate(o) \/ StartRestored(o))
      <4>1. [production EXCEPT !.joined = TRUE] # None /\ [production EXCEPT !.running = TRUE] # None
        BY <3>1, NoneIsApart DEF Container
      <4> QED
        BY <4>1 DEF ConnectCandidate, StartCandidate, StartRestored, Start
    <3>5. ~Reinstate(o)
      BY DEF Reinstate
    <3> QED
      BY <3>2, <3>3, <3>4, <3>5 DEF Moves
  <2>4. ~RemoveCandidate(o)
    <3> SUFFICES ASSUME RemoveCandidate(o) PROVE FALSE
      OBVIOUS
    <3>1. R \in Releases /\ Retained(R) /\ Recorded(R, {"restoring"})
      BY DEF RemoveCandidate, At, R, CallersInv, Inv1, Inv2, TypeOK, HolderInv, Recorded
    <3>2. r = R
      BY <3>1 DEF InPlace, Open, Recorded
    <3> QED
      BY <3>1, <3>2 DEF CallersInv, CallsInv
  <2> QED
    BY <2>3, <2>4 DEF RetainCurrent, At
<1>2. WorkflowInit => InPlace
  BY DEF WorkflowInit, Init, InPlace, Open, Recorded
<1>3. CallersInv /\ PatientInv /\ InPlace /\ [WorkflowNext]_allVars => InPlace'
  BY InPlaceStep, WorkflowStepIsBrokerStep
<1>4. WorkflowSpec => [](CallersInv /\ PatientInv)
  BY PatientInvAlways
<1> QED
  BY <1>1, <1>2, <1>3, <1>4, PTL DEF WorkflowSpec, CommittedIsLeftAlone

-----------------------------------------------------------------------------
(* Interrupted restores.                                                   *)

(* Containers move for the one open release, and a restore under way is    *)
(* its own.                                                                *)
LEMMA MovesAreOfTheOpenRelease ==
  ASSUME CallersInv, PatientInv, NEW o \in Outcomes, Moves(o),
         NEW r \in Releases, Recorded(r, {"restoring"})
  PROVE  /\ holder # None /\ R = r
         /\ RemoveCandidate(o) \/ Reinstate(o) \/ StartRestored(o)
<1>1. /\ holder # None /\ R \in Releases
      /\ holder.step \in {"retain", "quiesce", "create", "connect", "start",
                          "remove", "reinstate", "restart"}
  BY DEF Moves, RetainCurrent, StopRetained, CreateCandidate, ConnectCandidate, StartCandidate,
     RemoveCandidate, Reinstate, StartRestored, At, CallersInv, Inv1, TypeOK, R
<1>2. /\ Recorded(R, {"preparing", "restoring"})
      /\ holder.step \in CutoverSteps => Recorded(R, {"preparing"})
  BY <1>1, NoneIsApart DEF CallersInv, Inv1, TypeOK, Inv2, HolderInv, R, Recorded
<1>3. R = r
  BY <1>1, <1>2 DEF PatientInv, OneOpenRelease, Open, Recorded
<1> QED
  BY <1>1, <1>2, <1>3 DEF Moves, Recorded, RetainCurrent, StopRetained, CreateCandidate,
     ConnectCandidate, StartCandidate, At

(* No step loses what a restore under way is to put back.                  *)
LEMMA RestoreCanResumeStep ==
  ASSUME ~InspectFaults, CallersInv, PatientInv, RestoreCanResume, [Next]_vars
  PROVE  RestoreCanResume'
<1> SUFFICES ASSUME NEW r \in Releases, Recorded(r, {"restoring"})'
             PROVE  (\/ Retained(r) /\ backup[r].image = disk[r].old_image
                     \/ production # None /\ production.image = disk[r].old_image)'
  BY DEF RestoreCanResume
<1>1. CASE containers' # containers
  <2>1. PICK o \in Outcomes : Moves(o)
    BY <1>1, OnlyMovesMove
  <2>2. UNCHANGED disk /\ Recorded(r, {"restoring"})
    BY <2>1 DEF Moves, RetainCurrent, StopRetained, CreateCandidate, ConnectCandidate,
       StartCandidate, RemoveCandidate, Reinstate, StartRestored, Start, Docker, Recorded
  <2>3. R = r /\ (RemoveCandidate(o) \/ Reinstate(o) \/ StartRestored(o))
    BY <2>1, <2>2, MovesAreOfTheOpenRelease
  <2>4. TypeOK /\ ContainersInv /\ Inv2
    BY DEF CallersInv, Inv1
  <2>5. CASE RemoveCandidate(o)
    <3>1. Retained(r) /\ backup[r].image = disk[r].old_image
      BY <2>3, <2>4, <2>5 DEF RemoveCandidate, At, Inv2, ContainersInv, RecordsInv
    <3>2. backup' = backup
      BY <2>5 DEF RemoveCandidate, Docker
    <3> QED
      BY <2>2, <3>1, <3>2 DEF Retained
  <2>6. CASE Reinstate(o)
    BY <1>1, <2>2, <2>3, <2>4, <2>6 DEF Reinstate, At, Docker, containers, Retained, Inv2,
       ContainersInv, RecordsInv
  <2>7. CASE StartRestored(o)
    <3>1. backup' = backup /\ (production # None => production' # None /\ production'.image = production.image)
      BY <1>1, <2>4, <2>7, NoneIsApart DEF StartRestored, Start, Docker, containers, TypeOK, Container
    <3> QED
      BY <2>2, <3>1 DEF RestoreCanResume, Retained
  <2> QED
    BY <2>3, <2>5, <2>6, <2>7
<1>2. CASE UNCHANGED containers
  <2>1. CASE disk'[r] = disk[r]
    BY <1>2, <2>1 DEF containers, RestoreCanResume, Recorded, Retained
  <2>2. CASE disk'[r] # disk[r]
    <3>1. backup[r] # None /\ backup[r].image = disk'[r].old_image
      BY <2>2, WritesAreSound DEF CallersInv, BornOut, Written, Recorded
    <3> QED
      BY <1>2, <3>1 DEF containers, Retained
  <2> QED
    BY <2>1, <2>2
<1> QED
  BY <1>1, <1>2

(* With patient dispatchers no restore gets stuck: wherever it was cut     *)
(* short, the container it is to put back is retained or in place.         *)
THEOREM RestoreCanResumeAlways ==
  ASSUME ~InspectFaults, ~LostJobs, Discipline = "patient"
  PROVE  WorkflowSpec => []RestoreCanResume
<1>1. WorkflowInit => RestoreCanResume
  BY DEF WorkflowInit, Init, RestoreCanResume, Recorded
<1>2. CallersInv /\ PatientInv /\ RestoreCanResume /\ [WorkflowNext]_allVars => RestoreCanResume'
  BY RestoreCanResumeStep, WorkflowStepIsBrokerStep
<1>3. WorkflowSpec => [](CallersInv /\ PatientInv)
  BY PatientInvAlways
<1> QED
  BY <1>1, <1>2, <1>3, PTL DEF WorkflowSpec
=============================================================================
