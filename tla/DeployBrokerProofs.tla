------------------------- MODULE DeployBrokerProofs -------------------------
(***************************************************************************)
(* Proofs about the deploy broker, for any set of releases.                *)
(***************************************************************************)
EXTENDS DeployBrokerProperties, TLAPS

USE DEF Container, Record, Holder, Status, Verbs, Steps, CutoverSteps, RestoreSteps

(* None is neither a container, nor a record, nor a holder of the lock.    *)
LEMMA NoneIsApart ==
  /\ \A c \in Container : c # None
  /\ \A d \in Record : d # None
  /\ \A h \in Holder : h # None
BY NoneAssumption

-----------------------------------------------------------------------------
(* Type correctness rests on what the steps know of the containers: a step *)
(* that updates a container must find one.                                 *)

Inv1 == TypeOK /\ ContainersInv

LEMMA InitInv1 == Init => Inv1
<1> SUFFICES ASSUME Init PROVE Inv1
  OBVIOUS
<1> Original \in Images /\ Original \notin Unfit
  BY ImagesAssumption DEF Images
<1>1. production \in Container
  BY DEF Init
<1>2. production # None
  BY <1>1, NoneIsApart
<1> QED
  BY <1>1, <1>2 DEF Init, Inv1, TypeOK, ContainersInv, Retained, Proven

(* An effect of the verb that holds the lock.                              *)
LEMMA StepInv1 ==
  ASSUME Inv1, NEW o \in Outcomes, Step(o)
  PROVE  Inv1'
<1> USE NoneIsApart DEF Inv1, TypeOK, ContainersInv, Outcomes, TakesEffect, At, R,
        Docker, Save, After, Proceed, Exit, timers, containers, Retained, Proven, Serving
<1>1. CASE RecordRelease(o)
  BY <1>1 DEF RecordRelease
<1>2. CASE ArmWatchdog(o)
  <2>1. /\ R \in Releases /\ enabled' \subseteq Releases /\ active' \subseteq Releases
        /\ UNCHANGED <<production, backup, disk, pending, expired>>
    BY <1>2 DEF ArmWatchdog
  <2>2. /\ holder' \in Holder /\ holder' # None
        /\ holder'.step \in {"retain", "recover"} /\ holder'.release = R
    BY <1>2 DEF ArmWatchdog
  <2> QED
    BY <1>2, <2>1, <2>2 DEF ArmWatchdog
<1>3. CASE RetainCurrent(o)
  BY <1>3, ZenonT(60) DEF RetainCurrent
<1>4. CASE StopRetained(o)
  <2> DEFINE stopped == [backup[R] EXCEPT !.running = FALSE]
  <2>1. R \in Releases /\ backup[R] \in Container /\ Proven(backup[R])
    BY <1>4 DEF StopRetained
  <2>2. stopped \in Container /\ Proven(stopped) /\ stopped # None
    BY <2>1
  <2>3. backup' = [backup EXCEPT ![R] = stopped] \/ backup' = backup
    BY <1>4 DEF StopRetained
  <2>4. UNCHANGED <<production, disk, enabled, active, pending, expired>>
    BY <1>4 DEF StopRetained
  <2>5. holder' \in Holder \cup {None} /\ (holder' # None => holder'.step \in {"create", "recover"})
    BY <1>4 DEF StopRetained
  <2>6. holder' # None => holder'.release = R
    BY <1>4 DEF StopRetained
  <2> HIDE DEF stopped
  <2> QED
    BY <2>1, <2>2, <2>3, <2>4, <2>5, <2>6
<1>5. CASE CreateCandidate(o)
  BY <1>5 DEF CreateCandidate, Images
<1>6. CASE ConnectCandidate(o)
  BY <1>6 DEF ConnectCandidate
<1>7. CASE StartCandidate(o)
  BY <1>7 DEF StartCandidate, Start
<1>8. CASE RecordDeployed(o)
  BY <1>8 DEF RecordDeployed
<1>9. CASE Abandon(o)
  BY <1>9 DEF Abandon, StopTimer
<1>10. CASE RecordAbandoned(o)
  BY <1>10 DEF RecordAbandoned
<1>11. CASE BeginRestore(o)
  BY <1>11 DEF BeginRestore, Sees
<1>12. CASE RemoveCandidate(o)
  BY <1>12 DEF RemoveCandidate
<1>13. CASE Reinstate(o)
  BY <1>13 DEF Reinstate
<1>14. CASE StartRestored(o)
  BY <1>14 DEF StartRestored, Start
<1>15. CASE RecordRestored(o)
  BY <1>15 DEF RecordRestored
<1>16. CASE RecordCommitted(o)
  BY <1>16 DEF RecordCommitted
<1>17. CASE Disarm(o)
  BY <1>17 DEF Disarm, StopTimer
<1> QED
  BY <1>1, <1>2, <1>3, <1>4, <1>5, <1>6, <1>7, <1>8, <1>9, <1>10, <1>11, <1>12,
     <1>13, <1>14, <1>15, <1>16, <1>17 DEF Step

(* What the holder of the lock becomes when its verb goes on.              *)
LEMMA Proceeding ==
  ASSUME TypeOK, holder # None, NEW s \in Steps, NEW st \in Record, Proceed(s, st)
  PROVE  /\ holder' \in Holder /\ holder' # None
         /\ holder'.verb = holder.verb /\ holder'.release = holder.release
         /\ holder'.step = s /\ holder'.state = st
BY NoneIsApart, ZenonT(60) DEF TypeOK, Proceed

(* A decision informs the next step of what it has read.                   *)
Informs(s) ==
  /\ s \in {"record_deployed", "recover", "restore", "abandon", "remove", "reinstate",
            "restart", "record_restored"}
  /\ s \in {"remove", "reinstate"} => Retained(R)
  /\ s = "record_deployed" => Serving(production) /\ production.image = R
  /\ s = "record_restored" =>
       Serving(production) /\ production.image = holder.state.old_image
  /\ s = "abandon" => production # None

LEMMA DecisionInv1 ==
  ASSUME Inv1, holder # None,
         Abort \/ \E s \in Steps : Informs(s) /\ Decide(s)
  PROVE  Inv1'
<1>1. UNCHANGED <<production, backup, disk, enabled, active, pending, expired>>
  BY DEF Abort, Decide, containers, timers
<1>2. CASE Abort
  BY <1>1, <1>2 DEF Inv1, TypeOK, ContainersInv, Retained, Proven, R, Abort, Exit
<1>3. ASSUME NEW s \in Steps, Informs(s), Decide(s)
      PROVE  Inv1'
  <2>1. holder.state \in Record /\ TypeOK
    BY DEF Inv1, TypeOK
  <2>2. /\ holder' \in Holder /\ holder' # None /\ holder'.release = holder.release
        /\ holder'.step = s /\ holder'.state = holder.state
    BY <1>3, <2>1, Proceeding DEF Decide
  <2>3. TypeOK'
    BY <1>1, <2>2, <2>1 DEF TypeOK
  <2>4. ContainersInv'
    BY <1>1, <1>3, <2>2 DEF Inv1, ContainersInv, Retained, Proven, R, Informs, Serving
  <2> QED
    BY <2>3, <2>4 DEF Inv1
<1> QED
  BY <1>2, <1>3

(* Every step, one case per action.                                        *)
LEMMA NextInv1 == Inv1 /\ [Next]_vars => Inv1'
<1> SUFFICES ASSUME Inv1, [Next]_vars PROVE Inv1'
  OBVIOUS
<1> USE NoneIsApart DEF Inv1, TypeOK, ContainersInv, At, R, Decide, Abort, Proceed, Exit,
        timers, containers, Retained, Proven, Serving
<1>1. ASSUME NEW r \in Releases, Deploy(r)
      PROVE  Inv1'
  BY <1>1 DEF Deploy, Acquire, preflight
<1>2. ASSUME NEW r \in Releases, Rollback(r) \/ Commit(r)
      PROVE  Inv1'
  BY <1>2 DEF Rollback, Commit, Acquire, health
<1>3. ASSUME NEW r \in Releases, NEW healthy \in BOOLEAN, Watchdog(r, healthy)
      PROVE  Inv1'
  BY <1>3 DEF Watchdog, Acquire
<1>4. ASSUME NEW r \in Releases, Fire(r) \/ GiveUp(r) \/ Expire(r)
      PROVE  Inv1'
  BY <1>4 DEF Fire, GiveUp, Expire
<1>5. CASE Decision
  <2>1. holder # None /\ (Abort \/ \E s \in Steps : Informs(s) /\ Decide(s))
    <3> USE DEF Informs, At, R
    <3>1. ASSUME NEW ok \in BOOLEAN, CandidateGate(ok)
          PROVE  holder # None /\ \E s \in Steps : Informs(s) /\ Decide(s)
      <4>1. holder # None
        BY <3>1 DEF CandidateGate
      <4>2. CASE ok
        <5>1. Informs("record_deployed") /\ Decide("record_deployed")
          BY <3>1, <4>1, <4>2 DEF CandidateGate, ContainersInv
        <5> QED
          BY <4>1, <5>1
      <4>3. CASE ~ok
        <5>1. Informs("recover") /\ Decide("recover")
          BY <3>1, <4>3 DEF CandidateGate
        <5> QED
          BY <4>1, <5>1
      <4> QED
        BY <4>2, <4>3
    <3>2. ASSUME NEW ok \in BOOLEAN, RestoreGate(ok)
          PROVE  holder # None /\ (Abort \/ \E s \in Steps : Informs(s) /\ Decide(s))
      BY <3>2 DEF RestoreGate
    <3>3. ASSUME NEW ok \in BOOLEAN, Recover(ok)
          PROVE  holder # None /\ (Abort \/ \E s \in Steps : Informs(s) /\ Decide(s))
      BY <3>3 DEF Recover, Sees
    <3>4. CASE ResumeRestore
      <4>1. holder # None /\ Informs("restart") /\ Decide("restart")
        BY <3>4 DEF ResumeRestore
      <4> QED
        BY <4>1
    <3>5. CASE RefuseRestore
      <4>1. holder # None /\ Abort
        BY <3>5 DEF RefuseRestore
      <4> QED
        BY <4>1
    <3>6. ASSUME NEW seen \in BOOLEAN, CheckProduction(seen)
          PROVE  holder # None /\ \E s \in Steps : Informs(s) /\ Decide(s)
      <4>1. holder # None /\ Retained(R)
        BY <3>6 DEF CheckProduction, ContainersInv
      <4>2. Decide("remove") \/ Decide("reinstate")
        BY <3>6 DEF CheckProduction
      <4> QED
        BY <4>1, <4>2
    <3> QED
      BY <1>5, <3>1, <3>2, <3>3, <3>4, <3>5, <3>6 DEF Decision
  <2> QED
    BY <2>1, DecisionInv1
<1>6. CASE Crash \/ Reboot
  BY <1>6 DEF Crash, Reboot
<1>7. CASE UNCHANGED vars
  BY <1>7 DEF vars
<1> QED
  BY <1>1, <1>2, <1>3, <1>4, <1>5, <1>6, <1>7, StepInv1 DEF Next, Verb

(* So types and containers are right throughout.                           *)
LEMMA Inv1Always == Spec => []Inv1
BY InitInv1, NextInv1, PTL DEF Spec

(* Every variable keeps its type: in particular no step updates a          *)
(* container that is not there.                                            *)
THEOREM TypeCorrect == Spec => []TypeOK
BY Inv1Always, PTL DEF Inv1

(* Docker may misreport, commands may fail and processes may die: a        *)
(* container that passed the gates is always left.                         *)
THEOREM ServiceRecoverableAlways == Spec => []ServiceRecoverable
<1>1. Inv1 => ServiceRecoverable
  <2> SUFFICES ASSUME Inv1 PROVE ServiceRecoverable
    OBVIOUS
  <2>1. \E c \in ({production} \cup {backup[r] : r \in Releases}) : c # None /\ Proven(c)
    BY DEF Inv1, ContainersInv, Retained
  <2> QED
    BY <2>1 DEF ServiceRecoverable, AllContainers, Proven
<1> QED
  BY <1>1, Inv1Always, PTL

-----------------------------------------------------------------------------
(* The record that the lock holder has loaded, and what it may overwrite:  *)
(* known without any trust in "docker inspect".                            *)

HeldInv == HeldRecordInv /\ RollbackTargetRetained

(* docker stop leaves every container where it is, with its image.         *)
LEMMA StopKeeps ==
  ASSUME TypeOK, NEW o \in Outcomes, StopRetained(o)
  PROVE  /\ R \in Releases /\ At("quiesce")
         /\ UNCHANGED <<production, disk>>
         /\ \A r \in Releases :
              /\ backup[r] = None <=> backup'[r] = None
              /\ backup[r] # None => /\ backup'[r].image = backup[r].image
                                    /\ backup'[r].joined = backup[r].joined
         /\ holder' # None => /\ holder'.step \in {"create", "recover"}
                             /\ holder'.release = R /\ holder'.state = holder.state
<1> USE NoneIsApart DEF TypeOK, At, R, StopRetained, Docker, After, Proceed, timers, Outcomes
<1>1. R \in Releases /\ At("quiesce") /\ UNCHANGED <<production, disk>>
  OBVIOUS
<1>2. /\ holder' # None => /\ holder'.step \in {"create", "recover"}
                          /\ holder'.release = R /\ holder'.state = holder.state
  OBVIOUS
<1>3. CASE TakesEffect(o)
  <2>1. backup[R] \in Container /\ backup[R] # None
    BY <1>3
  <2>2. backup' = [backup EXCEPT ![R].running = FALSE]
    BY <1>3
  <2>3. backup'[R] = [backup[R] EXCEPT !.running = FALSE]
    BY <1>1, <2>2
  <2>5. backup'[R] # None /\ backup'[R].image = backup[R].image
        /\ backup'[R].joined = backup[R].joined
    <3> HIDE DEF StopRetained
    <3> QED
      BY <2>1, <2>3
  <2>4. \A r \in Releases \ {R} : backup'[r] = backup[r]
    BY <2>2
  <2> QED
    BY <1>1, <1>2, <2>1, <2>4, <2>5
<1>4. CASE ~TakesEffect(o)
  BY <1>1, <1>2, <1>4
<1> QED
  BY <1>3, <1>4

(* An effect of the verb that holds the lock.                              *)
LEMMA StepHeldInv ==
  ASSUME Inv1, TypeOK', HeldInv, NEW o \in Outcomes, Step(o)
  PROVE  HeldInv' /\ CommitRespected
<1> USE NoneIsApart DEF Inv1, TypeOK, ContainersInv, HeldInv, HeldRecordInv, Outcomes, TakesEffect, At, R, Docker,
        Save, After, Proceed, Exit, timers, containers, Retained, RollbackTargetRetained, Recorded, Committed, Serving, CommitRespected
<1>1. CASE RecordRelease(o)
  BY <1>1 DEF RecordRelease
<1>2. CASE ArmWatchdog(o)
  BY <1>2 DEF ArmWatchdog
<1>3. CASE RetainCurrent(o)
  BY <1>3 DEF RetainCurrent
<1>4. CASE StopRetained(o)
  <2>1. holder # None /\ holder.step = "quiesce" /\ TypeOK
    BY <1>4 DEF StopRetained
  <2>2. holder' # None => holder'.verb = holder.verb
    BY <1>4 DEF StopRetained
  <2> HIDE DEF TypeOK, Inv1
  <2> QED
    BY <1>4, <2>1, <2>2, StopKeeps
<1>5. CASE CreateCandidate(o)
  BY <1>5 DEF CreateCandidate
<1>6. CASE ConnectCandidate(o)
  BY <1>6 DEF ConnectCandidate
<1>7. CASE StartCandidate(o)
  BY <1>7 DEF StartCandidate, Start
<1>8. CASE RecordDeployed(o)
  BY <1>8 DEF RecordDeployed
<1>9. CASE Abandon(o)
  BY <1>9 DEF Abandon, StopTimer
<1>10. CASE RecordAbandoned(o)
  BY <1>10 DEF RecordAbandoned
<1>11. CASE BeginRestore(o)
  BY <1>11 DEF BeginRestore, Sees
<1>12. CASE RemoveCandidate(o)
  BY <1>12 DEF RemoveCandidate
<1>13. CASE Reinstate(o)
  BY <1>13 DEF Reinstate
<1>14. CASE StartRestored(o)
  BY <1>14 DEF StartRestored, Start
<1>15. CASE RecordRestored(o)
  <2> DEFINE st == [holder.state EXCEPT !.status = "rolled_back", !.committed = FALSE]
  <2>1. /\ holder # None /\ R \in Releases /\ st \in Record
        /\ st.status = "rolled_back" /\ ~st.committed /\ st.old_image = holder.state.old_image
    BY <1>15 DEF RecordRestored
  <2>2. Save(o, st, "disarm")
    BY <1>15 DEF RecordRestored
  <2>3. /\ disk' = disk \/ disk' = [disk EXCEPT ![R] = st]
        /\ UNCHANGED <<production, backup>>
        /\ holder' # None => /\ disk' = [disk EXCEPT ![R] = st]
                             /\ holder' = [holder EXCEPT !.step = "disarm", !.state = st]
    BY <1>15 DEF RecordRestored
  <2>4. holder.step = "record_restored"
    BY <1>15 DEF RecordRestored
  <2> HIDE DEF st
  <2>5. holder' # None => /\ holder'.step = "disarm" /\ holder'.state = st
                         /\ holder'.release = R /\ holder'.verb = holder.verb
    BY <2>1, <2>3, ZenonT(60)
  <2>6. disk'[R] = disk[R] \/ disk'[R] = st
    BY <2>1, <2>3
  <2>7. \A r \in Releases \ {R} : disk'[r] = disk[r]
    BY <2>3
  <2>8. HeldRecordInv'
    BY <2>1, <2>3, <2>4, <2>5
  <2>9. RollbackTargetRetained'
    BY <2>1, <2>3, <2>4, <2>6, <2>7
  <2>10. CommitRespected
    BY <2>1, <2>4, <2>6, <2>7
  <2> QED
    BY <2>8, <2>9, <2>10
<1>16. CASE RecordCommitted(o)
  <2> DEFINE st == [holder.state EXCEPT !.status = "committed", !.committed = TRUE]
  <2>1. /\ holder # None /\ R \in Releases /\ st \in Record
        /\ st.status = "committed" /\ st.committed /\ st.old_image = holder.state.old_image
    BY <1>16 DEF RecordCommitted
  <2>2. Save(o, st, "disarm")
    BY <1>16 DEF RecordCommitted
  <2>3. /\ disk' = disk \/ disk' = [disk EXCEPT ![R] = st]
        /\ UNCHANGED <<production, backup>>
        /\ holder' # None => /\ disk' = [disk EXCEPT ![R] = st]
                             /\ holder' = [holder EXCEPT !.step = "disarm", !.state = st]
    BY <1>16 DEF RecordCommitted
  <2>4. holder.step = "record_committed"
    BY <1>16 DEF RecordCommitted
  <2> HIDE DEF st
  <2>5. holder' # None => /\ holder'.step = "disarm" /\ holder'.state = st
                         /\ holder'.release = R /\ holder'.verb = holder.verb
    BY <2>1, <2>3, ZenonT(60)
  <2>6. disk'[R] = disk[R] \/ disk'[R] = st
    BY <2>1, <2>3
  <2>7. \A r \in Releases \ {R} : disk'[r] = disk[r]
    BY <2>3
  <2>8. HeldRecordInv'
    BY <2>1, <2>3, <2>4, <2>5
  <2>9. RollbackTargetRetained'
    BY <2>1, <2>3, <2>4, <2>6, <2>7
  <2>10. CommitRespected
    BY <2>1, <2>4, <2>6, <2>7
  <2> QED
    BY <2>8, <2>9, <2>10
<1>17. CASE Disarm(o)
  BY <1>17 DEF Disarm, StopTimer
<1> QED
  BY <1>1, <1>2, <1>3, <1>4, <1>5, <1>6, <1>7, <1>8, <1>9, <1>10, <1>11, <1>12, <1>13, <1>14, <1>15, <1>16, <1>17 DEF Step

(* A verb that takes the lock loads the record; commit demands a deployed  *)
(* one.                                                                    *)
LEMMA VerbHeldInv ==
  ASSUME Inv1, HeldInv, NEW r \in Releases, Verb(r)
  PROVE  HeldInv' /\ CommitRespected
<1> USE NoneIsApart DEF Inv1, TypeOK, HeldInv, HeldRecordInv, At, R, Acquire, containers, timers,
        Retained, RollbackTargetRetained, Recorded, CommitRespected
<1>1. CASE Deploy(r)
  BY <1>1 DEF Deploy, preflight, Serving
<1>2. CASE Rollback(r)
  BY <1>2 DEF Rollback
<1>3. CASE Commit(r)
  BY <1>3 DEF Commit
<1>4. ASSUME NEW healthy \in BOOLEAN, Watchdog(r, healthy)
      PROVE  HeldInv' /\ CommitRespected
  BY <1>4 DEF Watchdog, watchdog_decision
<1> QED
  BY <1>1, <1>2, <1>3, <1>4 DEF Verb

(* A decision writes nothing; only the status it has loaded sends it to a  *)
(* restore.                                                                *)
LEMMA DecisionHeldInv ==
  ASSUME Inv1, HeldInv, Decision
  PROVE  HeldInv' /\ CommitRespected
<1> USE DEF Inv1, HeldInv
(* Where a decision leads that does not end the verb.                      *)
<1>1. \/ Abort
      \/ /\ holder # None
         /\ \E s \in Steps :
              /\ Decide(s)
              /\ \/ holder.step = "gate" /\ s \in {"record_deployed", "recover"}
                 \/ holder.step = "recover" /\ s \in {"abandon", "restore"}
                 \/ holder.step \in RestoreSteps /\ s \in {"restart", "record_restored"}
                 \/ holder.step = "check" /\ s \in {"remove", "reinstate"}
  BY DEF Decision, CandidateGate, RestoreGate, Recover, CheckProduction, ResumeRestore,
     RefuseRestore, At
<1>2. CASE Abort
  BY <1>2 DEF Abort, Exit, containers, HeldRecordInv, RollbackTargetRetained, Recorded, CommitRespected
<1>3. ASSUME holder # None, NEW s \in Steps, Decide(s),
             \/ holder.step = "gate" /\ s \in {"record_deployed", "recover"}
             \/ holder.step = "recover" /\ s \in {"abandon", "restore"}
             \/ holder.step \in RestoreSteps /\ s \in {"restart", "record_restored"}
             \/ holder.step = "check" /\ s \in {"remove", "reinstate"}
      PROVE  HeldInv' /\ CommitRespected
  <2>1. holder'.step = s /\ holder'.release = R /\ holder'.state = holder.state
        /\ holder'.verb = holder.verb /\ holder' # None
    BY <1>3, Proceeding, NoneIsApart DEF Decide, TypeOK, R
  <2>2. UNCHANGED <<production, backup, disk>>
    BY <1>3 DEF Decide, containers
  <2> QED
    BY <1>3, <2>1, <2>2 DEF HeldRecordInv, R, Retained, RollbackTargetRetained, Recorded, CommitRespected
<1> QED
  BY <1>1, <1>2, <1>3

(* Every step.                                                             *)
LEMMA NextHeldInv ==
  ASSUME Inv1, HeldInv, [Next]_vars
  PROVE  HeldInv' /\ CommitRespected
<1>1. ASSUME NEW r \in Releases, Fire(r) \/ GiveUp(r) \/ Expire(r)
      PROVE  HeldInv' /\ CommitRespected
  BY <1>1 DEF Fire, GiveUp, Expire, containers, HeldInv, HeldRecordInv, R, Retained,
     RollbackTargetRetained, Recorded, CommitRespected
<1>2. CASE Crash \/ Reboot
  BY <1>2 DEF Crash, Reboot, Exit, containers, HeldInv, HeldRecordInv, RollbackTargetRetained,
     Recorded, CommitRespected
<1>3. CASE UNCHANGED vars
  BY <1>3 DEF vars, HeldInv, HeldRecordInv, R, Retained, RollbackTargetRetained, Recorded,
     CommitRespected
<1>4. TypeOK'
  BY NextInv1 DEF Inv1
<1> QED
  BY <1>1, <1>2, <1>3, <1>4, StepHeldInv, VerbHeldInv, DecisionHeldInv DEF Next

(* So the holder's copy is right throughout.                               *)
LEMMA HeldInvAlways == Spec => [](Inv1 /\ HeldInv)
<1>1. Init => Inv1 /\ HeldInv
  BY InitInv1 DEF Init, HeldInv, HeldRecordInv, RollbackTargetRetained, Recorded
<1>2. Inv1 /\ HeldInv /\ [Next]_vars => (Inv1 /\ HeldInv)'
  BY NextInv1, NextHeldInv
<1> QED
  BY <1>1, <1>2, PTL DEF Spec

(* What the holder of the lock believes of its record stays true, even if  *)
(* "docker inspect" reports a container as absent that is there.           *)
THEOREM HeldRecordInvAlways == Spec => []HeldRecordInv
<1>1. HeldInv => HeldRecordInv
  BY DEF HeldInv
<1> QED
  BY <1>1, HeldInvAlways, PTL

(* So does every deployed or committed release keep the container its      *)
(* record names: a recovery that was misled does not lose it.              *)
THEOREM RollbackTargetRetainedAlways == Spec => []RollbackTargetRetained
<1>1. HeldInv => RollbackTargetRetained
  BY DEF HeldInv
<1> QED
  BY <1>1, HeldInvAlways, PTL

(* And a watchdog never undoes a commit, not even one that waited for the  *)
(* lock while the commit was written.                                      *)
THEOREM CommitIsRespected == Spec => OnlyRollbackUndoesCommit
<1>1. Inv1 /\ HeldInv /\ [Next]_vars => [CommitRespected]_vars
  BY NextHeldInv
<1> QED
  BY <1>1, HeldInvAlways, PTL DEF Spec, OnlyRollbackUndoesCommit

-----------------------------------------------------------------------------
(* The records and the timers.  They can be trusted only when an inspect   *)
(* that fails means that the container is absent.                          *)

Inv2 == RecordsInv /\ HolderInv

(* No record, no timer and no holder to begin with.                        *)
LEMMA InitInv2 == Init => Inv2
BY DEF Init, Inv2, RecordsInv, HolderInv, Retained, Recorded, Committed

(* An effect of the verb that holds the lock.                              *)
LEMMA StepInv2 ==
  ASSUME ~InspectFaults, Inv1, Inv2, NEW o \in Outcomes, Step(o)
  PROVE  Inv2'
<1> USE NoneIsApart DEF Inv1, Inv2, TypeOK, RecordsInv, HolderInv, Outcomes, TakesEffect,
        At, R, Docker, Save, After, Proceed, Exit, timers, containers, Retained, Armed,
        Recorded, Committed
<1>1. CASE RecordRelease(o)
  BY <1>1 DEF RecordRelease
<1>2. CASE ArmWatchdog(o)
  BY <1>2 DEF ArmWatchdog
<1>3. CASE RetainCurrent(o)
  <2>1. R \in Releases /\ production \in Container /\ holder.state \in Record
    BY <1>3 DEF RetainCurrent, ContainersInv, Serving
  <2>2. disk[R] = holder.state /\ ~disk[R].committed /\ disk[R].status = "preparing"
    BY <1>3 DEF RetainCurrent
  <2>3. CASE TakesEffect(o)
    <3>1. /\ backup' = [backup EXCEPT ![R] = production]
          /\ production.image = disk[R].old_image /\ Armed(R)
          /\ UNCHANGED <<disk, enabled, active>>
      BY <1>3, <2>2, <2>3 DEF RetainCurrent
    <3>2. holder' # None /\ holder'.release = R /\ holder'.state = holder.state
          /\ holder'.verb = holder.verb /\ holder'.step \in {"quiesce", "recover"}
      BY <1>3, <2>1, ZenonT(60) DEF RetainCurrent
    <3>3. RecordsInv'
      BY <2>1, <2>2, <3>1
    <3>4. HolderInv'
      BY <1>3, <2>1, <2>2, <3>1, <3>2 DEF RetainCurrent
    <3> QED
      BY <3>3, <3>4
  <2>4. CASE ~TakesEffect(o)
    BY <1>3, <2>1, <2>2, <2>4 DEF RetainCurrent
  <2> QED
    BY <2>3, <2>4
<1>4. CASE StopRetained(o)
  <2>1. R \in Releases /\ backup[R] \in Container /\ Retained(R)
    BY <1>4 DEF StopRetained
  <2>2. \A r \in Releases : backup'[r] # None <=> backup[r] # None
    BY <1>4, <2>1 DEF StopRetained
  <2>3. \A r \in Releases : backup[r] # None => backup'[r].image = backup[r].image
    BY <1>4, <2>1 DEF StopRetained
  <2>4. UNCHANGED <<disk, enabled, active>>
    BY <1>4 DEF StopRetained
  <2>5. RecordsInv'
    BY <2>2, <2>3, <2>4
  <2>6. HolderInv'
    BY <1>4, <2>1, <2>2, <2>4 DEF StopRetained
  <2> QED
    BY <2>5, <2>6
<1>5. CASE CreateCandidate(o)
  BY <1>5 DEF CreateCandidate
<1>6. CASE ConnectCandidate(o)
  BY <1>6 DEF ConnectCandidate
<1>7. CASE StartCandidate(o)
  BY <1>7 DEF StartCandidate, Start
<1>8. CASE RecordDeployed(o)
  BY <1>8 DEF RecordDeployed
<1>9. CASE Abandon(o)
  BY <1>9 DEF Abandon, StopTimer
<1>10. CASE RecordAbandoned(o)
  BY <1>10 DEF RecordAbandoned
<1>11. CASE BeginRestore(o)
  BY <1>11 DEF BeginRestore, Sees
<1>12. CASE RemoveCandidate(o)
  BY <1>12 DEF RemoveCandidate
<1>13. CASE Reinstate(o)
  BY <1>13 DEF Reinstate
<1>14. CASE StartRestored(o)
  BY <1>14 DEF StartRestored, Start
<1>15. CASE RecordRestored(o)
  <2> DEFINE st == [holder.state EXCEPT !.status = "rolled_back", !.committed = FALSE]
  <2>1. R \in Releases /\ holder.state \in Record /\ ~Retained(R)
    BY <1>15 DEF RecordRestored, ContainersInv
  <2>2. st \in Record /\ st.status = "rolled_back" /\ ~st.committed
        /\ st.old_image = holder.state.old_image
    BY <2>1
  <2>3. UNCHANGED <<backup, enabled, active>> /\ disk' \in {disk, [disk EXCEPT ![R] = st]}
    BY <1>15 DEF RecordRestored
  <2>4. \/ holder' = None
        \/ /\ holder' \in Holder /\ holder'.step = "disarm" /\ holder'.release = R
           /\ disk' = [disk EXCEPT ![R] = st]
    BY <1>15 DEF RecordRestored
  <2> HIDE DEF st
  <2>5. RecordsInv'
    BY <1>15, <2>1, <2>2, <2>3 DEF RecordRestored
  <2>6. HolderInv'
    BY <2>1, <2>2, <2>3, <2>4
  <2> QED
    BY <2>5, <2>6
<1>16. CASE RecordCommitted(o)
  <2> DEFINE st == [holder.state EXCEPT !.status = "committed", !.committed = TRUE]
  <2>1. R \in Releases /\ holder.state \in Record /\ disk[R] = holder.state /\ Retained(R)
    BY <1>16 DEF RecordCommitted
  <2>2. st \in Record /\ st.status = "committed" /\ st.committed
        /\ st.old_image = disk[R].old_image
    BY <2>1
  <2>3. UNCHANGED <<backup, enabled, active>> /\ disk' \in {disk, [disk EXCEPT ![R] = st]}
    BY <1>16 DEF RecordCommitted
  <2>4. \/ holder' = None
        \/ /\ holder' \in Holder /\ holder'.step = "disarm" /\ holder'.release = R
           /\ disk' = [disk EXCEPT ![R] = st]
    BY <1>16 DEF RecordCommitted
  <2> HIDE DEF st
  <2>5. RecordsInv'
    BY <2>1, <2>2, <2>3
  <2>6. HolderInv'
    BY <2>1, <2>2, <2>3, <2>4
  <2> QED
    BY <2>5, <2>6
<1>17. CASE Disarm(o)
  BY <1>17 DEF Disarm, StopTimer
<1> QED
  BY <1>1, <1>2, <1>3, <1>4, <1>5, <1>6, <1>7, <1>8, <1>9, <1>10, <1>11, <1>12,
     <1>13, <1>14, <1>15, <1>16, <1>17 DEF Step

(* Every step.                                                             *)
LEMMA NextInv2 ==
  ASSUME ~InspectFaults, Inv1, Inv2, [Next]_vars
  PROVE  Inv2'
<1> USE NoneIsApart DEF Inv1, Inv2, TypeOK, RecordsInv, HolderInv, At, R, Decide, Abort,
        Proceed, Exit, timers, containers, Retained, Armed, Recorded, Committed
<1>1. ASSUME NEW r \in Releases, Deploy(r)
      PROVE  Inv2'
  BY <1>1 DEF Deploy, Acquire, Sees
<1>2. ASSUME NEW r \in Releases, Rollback(r)
      PROVE  Inv2'
  BY <1>2 DEF Rollback, Acquire
<1>3. ASSUME NEW r \in Releases, Commit(r)
      PROVE  Inv2'
  BY <1>3 DEF Commit, Acquire
<1>4. ASSUME NEW r \in Releases, NEW healthy \in BOOLEAN, Watchdog(r, healthy)
      PROVE  Inv2'
  BY <1>4 DEF Watchdog, Acquire, watchdog_decision
<1>5. ASSUME NEW r \in Releases, Fire(r) \/ GiveUp(r) \/ Expire(r)
      PROVE  Inv2'
  BY <1>5 DEF Fire, GiveUp, Expire
<1>6. ASSUME NEW ok \in BOOLEAN, CandidateGate(ok)
      PROVE  Inv2'
  BY <1>6 DEF CandidateGate
<1>7. ASSUME NEW ok \in BOOLEAN, RestoreGate(ok)
      PROVE  Inv2'
  <2>1. At("restore_gate") /\ UNCHANGED <<backup, disk, enabled, active>>
    BY <1>7 DEF RestoreGate
  <2>2. CASE Abort
    BY <2>1, <2>2
  <2>3. CASE Decide("record_restored")
    <3>1. holder.state \in Record /\ holder # None
      BY <2>1
    <3>2. holder' # None /\ holder'.release = R /\ holder'.state = holder.state
          /\ holder'.verb = holder.verb /\ holder'.step = "record_restored"
      BY <2>3, <3>1, Proceeding
    <3> QED
      BY <2>1, <3>2
  <2> QED
    BY <1>7, <2>2, <2>3 DEF RestoreGate
<1>8. ASSUME NEW ok \in BOOLEAN, Recover(ok)
      PROVE  Inv2'
  <2>1. At("recover") /\ UNCHANGED <<backup, disk, enabled, active>>
    BY <1>8 DEF Recover
  <2>2. holder.state \in Record /\ holder # None
    BY <2>1
  <2>3. CASE Abort
    BY <2>1, <2>3
  <2>4. CASE Decide("restore")
    <3>1. holder' # None /\ holder'.release = R /\ holder'.state = holder.state
          /\ holder'.verb = holder.verb /\ holder'.step = "restore"
      BY <2>2, <2>4, Proceeding
    <3> QED
      BY <2>1, <3>1
  <2>5. CASE Decide("abandon") /\ ~Retained(R) /\ holder.state.status # "restoring"
    <3>1. holder' # None /\ holder'.release = R /\ holder'.state = holder.state
          /\ holder'.verb = holder.verb /\ holder'.step = "abandon"
      BY <2>2, <2>5, Proceeding
    <3> QED
      BY <2>1, <2>5, <3>1
  <2> QED
    BY <1>8, <2>3, <2>4, <2>5 DEF Recover, Sees
<1>9. CASE ResumeRestore
  BY <1>9 DEF ResumeRestore, Sees
<1>10. CASE RefuseRestore \/ Crash \/ Reboot
  BY <1>10, ZenonT(60) DEF RefuseRestore, Crash, Reboot
<1>11. CASE UNCHANGED vars
  BY <1>11 DEF vars
<1>12. ASSUME NEW seen \in BOOLEAN, CheckProduction(seen)
       PROVE  Inv2'
  <2>1. PICK s \in {"remove", "reinstate"} : At("check") /\ Decide(s)
    BY <1>12 DEF CheckProduction
  <2>2. holder.state \in Record /\ holder # None /\ UNCHANGED <<backup, disk, enabled, active>>
    BY <2>1
  <2>3. holder' # None /\ holder'.release = R /\ holder'.state = holder.state
        /\ holder'.verb = holder.verb /\ holder'.step = s
    BY <2>1, <2>2, Proceeding
  <2> QED
    BY <2>1, <2>2, <2>3
<1>13. CASE Decision
  BY <1>6, <1>7, <1>8, <1>9, <1>10, <1>12, <1>13 DEF Decision
<1> HIDE DEF Inv1, Inv2
<1> QED
  BY <1>1, <1>2, <1>3, <1>4, <1>5, <1>10, <1>11, <1>13, StepInv2 DEF Next, Verb

(* So records, timers and holder fit together throughout.                  *)
LEMMA Inv2Always == ASSUME ~InspectFaults PROVE Spec => [](Inv1 /\ Inv2)
<1>1. Init => Inv1 /\ Inv2
  BY InitInv1, InitInv2
<1>2. Inv1 /\ Inv2 /\ [Next]_vars => (Inv1 /\ Inv2)'
  BY NextInv1, NextInv2
<1> QED
  BY <1>1, <1>2, PTL DEF Spec

(* The watchdog of an uncommitted cutover is armed for as long as the old  *)
(* container is retained.                                                  *)
THEOREM WatchdogArmedAlways == ASSUME ~InspectFaults PROVE Spec => []WatchdogArmed
<1>1. Inv1 /\ Inv2 => WatchdogArmed
  BY DEF Inv2, RecordsInv, WatchdogArmed, Retained, Armed, Recorded, Committed
<1> QED
  BY <1>1, Inv2Always, PTL

-----------------------------------------------------------------------------
(* Outages.  Somebody is responsible for a port that is free, whoever      *)
(* holds the lock; a restore that has begun keeps its timer.               *)

Listens ==
  \/ production # None /\ production.running
  \/ \E r \in Releases : Retained(r) /\ backup[r].running

(* The port is production's or a retained container's.                     *)
LEMMA PortTakenBy == (PortTaken <=> Listens) /\ (PortTaken' <=> Listens')
BY DEF PortTaken, AllContainers, Listens, Retained

(* The original container listens.                                         *)
LEMMA InitInv3 == Init => OutageInv
<1> SUFFICES ASSUME Init PROVE OutageInv
  OBVIOUS
<1>1. production.running /\ production \in Container
  BY DEF Init, Images
<1>2. Listens
  BY <1>1, NoneIsApart DEF Listens
<1> QED
  BY <1>2, PortTakenBy DEF Init, OutageInv, Recorded

(* A step that leaves the containers alone, and takes neither the status   *)
(* of a release that is responsible nor the timer of a restore.            *)
LEMMA QuietStep ==
  ASSUME OutageInv, UNCHANGED <<containers, disk>>,
         \A r \in Releases : Recorded(r, {"restoring"}) /\ ~Committed(r) /\ Armed(r) => Armed(r)'
  PROVE  OutageInv'
BY PortTakenBy DEF OutageInv, containers, Listens, Retained, Responsible, Recorded, Committed

(* A step after which R is responsible or the port taken.                  *)
LEMMA StepInv3 ==
  ASSUME ~InspectFaults, Inv1, Inv2, OutageInv, NEW o \in Outcomes, Step(o)
  PROVE  OutageInv'
<1> USE NoneIsApart, PortTakenBy DEF Inv1, Inv2, TypeOK, ContainersInv, RecordsInv, HolderInv,
        Outcomes, TakesEffect, At, R, Docker, Save, timers, containers, Retained, Armed,
        Recorded, Committed, Responsible, Listens, Serving
<1>1. CASE RecordRelease(o)
  BY <1>1 DEF RecordRelease, OutageInv
<1>2. CASE ArmWatchdog(o)
  BY <1>2, QuietStep DEF ArmWatchdog
<1>3. CASE RetainCurrent(o)
  BY <1>3 DEF RetainCurrent, OutageInv
<1>4. CASE StopRetained(o)
  <2> DEFINE stopped == [backup[R] EXCEPT !.running = FALSE]
  <2>1. R \in Releases /\ backup[R] \in Container /\ Retained(R) /\ Recorded(R, {"preparing"})
    BY <1>4 DEF StopRetained
  <2>2. stopped # None
    BY <2>1
  <2>3. backup' = [backup EXCEPT ![R] = stopped] \/ backup' = backup
    BY <1>4 DEF StopRetained
  <2>4. UNCHANGED <<disk, enabled, active>>
    BY <1>4 DEF StopRetained
  <2> HIDE DEF stopped
  <2>5. PICK r \in Releases : r = R
    BY <2>1
  <2>6. Responsible(r)'
    BY <2>1, <2>2, <2>3, <2>4, <2>5
  <2> QED
    BY <2>4, <2>6 DEF OutageInv
<1>5. CASE CreateCandidate(o)
  BY <1>5 DEF CreateCandidate, OutageInv
<1>6. CASE ConnectCandidate(o)
  BY <1>6 DEF ConnectCandidate, OutageInv
<1>7. CASE StartCandidate(o) \/ StartRestored(o)
  BY <1>7 DEF StartCandidate, StartRestored, Start, OutageInv
<1>8. CASE RecordDeployed(o)
  BY <1>8 DEF RecordDeployed, OutageInv
<1>9. CASE Abandon(o)
  BY <1>9, QuietStep DEF Abandon, StopTimer
<1>10. CASE RecordAbandoned(o)
  BY <1>10 DEF RecordAbandoned, OutageInv
<1>11. CASE BeginRestore(o)
  BY <1>11 DEF BeginRestore, Sees, OutageInv
<1>12. CASE RemoveCandidate(o)
  BY <1>12 DEF RemoveCandidate, OutageInv
<1>13. CASE Reinstate(o)
  BY <1>13 DEF Reinstate, OutageInv
<1>14. CASE RecordRestored(o)
  BY <1>14 DEF RecordRestored, OutageInv
<1>15. CASE RecordCommitted(o)
  BY <1>15 DEF RecordCommitted, OutageInv
<1>16. CASE Disarm(o)
  BY <1>16, QuietStep DEF Disarm, StopTimer
<1> QED
  BY <1>1, <1>2, <1>3, <1>4, <1>5, <1>6, <1>7, <1>8, <1>9, <1>10, <1>11, <1>12,
     <1>13, <1>14, <1>15, <1>16 DEF Step

(* Every step.                                                             *)
LEMMA NextInv3 ==
  ASSUME ~InspectFaults, Inv1, Inv2, OutageInv, [Next]_vars
  PROVE  OutageInv'
<1>1. ASSUME NEW r \in Releases, Verb(r) \/ Fire(r) \/ GiveUp(r) \/ Expire(r)
      PROVE  UNCHANGED <<containers, disk, timers>>
  BY <1>1 DEF Verb, Deploy, Rollback, Commit, Watchdog, Acquire, Fire, GiveUp, Expire
<1>2. CASE Decision \/ Crash \/ UNCHANGED vars
  <2>1. UNCHANGED <<containers, disk, timers>>
    BY <1>2 DEF Decision, CandidateGate, RestoreGate, Recover, CheckProduction, ResumeRestore,
       RefuseRestore, Decide, Abort, Crash, vars, containers, timers
  <2> QED
    BY <2>1, QuietStep DEF timers, Armed
<1>3. CASE Reboot
  BY <1>3, QuietStep DEF Reboot, Armed
<1>4. ASSUME NEW r \in Releases, Verb(r) \/ Fire(r) \/ GiveUp(r) \/ Expire(r)
      PROVE  OutageInv'
  BY <1>1, <1>4, QuietStep DEF timers, Armed
<1> QED
  BY <1>2, <1>3, <1>4, StepInv3 DEF Next

(* So no outage is ever unaccounted for.                                   *)
LEMMA Inv3Always == ASSUME ~InspectFaults PROVE Spec => []OutageInv
<1>1. Inv1 /\ Inv2 /\ OutageInv /\ [Next]_vars => OutageInv'
  BY NextInv3
<1> QED
  BY <1>1, InitInv3, Inv2Always, PTL DEF Spec

(* The invariant that TLC checks is the one these proofs use.              *)
THEOREM InductiveInvAlways == ASSUME ~InspectFaults PROVE Spec => []InductiveInv
<1>1. Inv1 /\ Inv2 /\ OutageInv => InductiveInv
  BY DEF Inv1, Inv2, InductiveInv
<1> QED
  BY <1>1, Inv2Always, Inv3Always, PTL

(* When nothing listens on the port, a release in the middle of its        *)
(* cutover or restore accounts for it and its timer is armed, unless it    *)
(* was committed and is being rolled back.                                 *)
THEOREM OutageIsWatchedAlways == ASSUME ~InspectFaults PROVE Spec => []OutageIsWatched
<1>1. Inv1 /\ Inv2 /\ OutageInv => OutageIsWatched
  BY DEF Inv2, RecordsInv, OutageInv, OutageIsWatched, Responsible, Recorded, Committed, Armed,
     Retained
<1> QED
  BY <1>1, Inv2Always, Inv3Always, PTL

-----------------------------------------------------------------------------
(* What a step may never do.  Only a write of the record matters, and what *)
(* it writes.                                                              *)

(* Who writes a record, and what.                                          *)
Writes(o, status) ==
  \/ status = "preparing" /\ RecordRelease(o)
  \/ status = "deployed" /\ RecordDeployed(o)
  \/ status = "failed_pre_cutover" /\ RecordAbandoned(o)
  \/ status = "restoring" /\ BeginRestore(o)
  \/ status = "rolled_back" /\ RecordRestored(o)
  \/ status = "committed" /\ RecordCommitted(o)

LEMMA OnlySavesWrite ==
  ASSUME [Next]_vars, disk' # disk
  PROVE  \E o \in Outcomes, status \in Status : Writes(o, status)
<1> USE DEF Docker, Decide, Abort, Acquire, timers, containers
<1>1. ASSUME NEW r \in Releases, Verb(r) \/ Fire(r) \/ GiveUp(r) \/ Expire(r)
      PROVE  FALSE
  BY <1>1 DEF Verb, Deploy, Rollback, Commit, Watchdog, Fire, GiveUp, Expire
<1>2. CASE Decision \/ Crash \/ Reboot \/ UNCHANGED vars
  BY <1>2 DEF Decision, CandidateGate, RestoreGate, Recover, CheckProduction, ResumeRestore,
     RefuseRestore, Crash, Reboot, vars
<1>3. ASSUME NEW o \in Outcomes, Step(o)
      PROVE  \E status \in Status : Writes(o, status)
  BY <1>3 DEF Step, Writes, ArmWatchdog, RetainCurrent, StopRetained, CreateCandidate,
     ConnectCandidate, StartCandidate, Start, Abandon, StopTimer, RemoveCandidate,
     Reinstate, StartRestored, Disarm
<1> QED
  BY <1>1, <1>2, <1>3 DEF Next

(* A record is its three fields.                                           *)
LEMMA SameRecord ==
  ASSUME NEW a \in Record, NEW b \in Record,
         a.status = b.status, a.committed = b.committed, a.old_image = b.old_image
  PROVE  a = b
<1>1. a = [status |-> a.status, committed |-> a.committed, old_image |-> a.old_image]
  OBVIOUS
<1>2. b = [status |-> b.status, committed |-> b.committed, old_image |-> b.old_image]
  OBVIOUS
<1> QED
  BY <1>1, <1>2

(* Each write is borne out, respects a commit and moves the record forward. *)
LEMMA WritesAreSound ==
  ASSUME ~InspectFaults, Inv1, Inv2, [Next]_vars
  PROVE  BornOut /\ CommitRespected /\ MovesForward
<1> DEFINE Sound(r) ==
      disk'[r] # disk[r] =>
        /\ disk'[r].status \in {"deployed", "committed"} =>
             Serving(production) /\ production.image = r
        /\ disk'[r].status = "rolled_back" =>
             Serving(production) /\ production.image = disk'[r].old_image
        /\ disk'[r].status = "restoring" =>
             backup[r] # None /\ backup[r].image = disk'[r].old_image
        /\ disk'[r].status = "failed_pre_cutover" =>
             backup[r] = None /\ production # None
        /\ Committed(r) => \/ disk'[r].committed /\ disk'[r].status = "committed"
                           \/ holder.verb = "rollback"
        /\ disk[r] = None => disk'[r].status = "preparing"
        /\ disk[r] # None => disk'[r].status \in Successors[disk[r].status]
<1>1. ASSUME NEW r \in Releases, disk' # disk
      PROVE  Sound(r)
  <2>1. PICK o \in Outcomes, status \in Status : Writes(o, status)
    BY <1>1, OnlySavesWrite
  <2> USE NoneIsApart DEF Inv1, Inv2, TypeOK, ContainersInv, RecordsInv, HolderInv, Recorded,
          Committed, Retained, At, R, Save, Successors
  <2>2. CASE RecordRelease(o)
    BY <2>2 DEF RecordRelease
  <2>3. CASE RecordDeployed(o)
    BY <2>3 DEF RecordDeployed
  <2>4. CASE RecordAbandoned(o)
    <3> DEFINE st == [holder.state EXCEPT !.status = "failed_pre_cutover", !.committed = FALSE]
    <3>1. /\ R \in Releases /\ holder.state \in Record /\ disk[R] \in Record
          /\ disk[R].old_image = holder.state.old_image /\ ~disk[R].committed
          /\ backup[R] = None /\ production # None
          /\ disk[R].status \in {"preparing", "rolled_back", "failed_pre_cutover"}
      BY <2>4 DEF RecordAbandoned
    <3>2. disk' \in {disk, [disk EXCEPT ![R] = st]}
      BY <2>4 DEF RecordAbandoned
    <3>3. st \in Record /\ st.status = "failed_pre_cutover" /\ st.old_image = disk[R].old_image
      BY <3>1
    <3>4. st.committed = FALSE
      BY <3>1
    <3>5. disk[R].status = "failed_pre_cutover" => disk[R].committed = st.committed
      BY <3>1, <3>4
    <3> HIDE DEF st
    <3>6. disk[R].status = st.status => disk[R] = st
      BY <3>1, <3>3, <3>5, SameRecord
    <3> QED
      BY <3>1, <3>2, <3>3, <3>4, <3>6
  <2>5. CASE BeginRestore(o)
    BY <2>5 DEF BeginRestore, Sees
  <2>6. CASE RecordRestored(o)
    BY <2>6 DEF RecordRestored
  <2>7. CASE RecordCommitted(o)
    <3> DEFINE st == [holder.state EXCEPT !.status = "committed", !.committed = TRUE]
    <3>1. /\ R \in Releases /\ disk[R] = holder.state /\ disk[R] \in Record
          /\ disk[R].status \in {"deployed", "committed"}
          /\ Serving(production) /\ production.image = R
      BY <2>7 DEF RecordCommitted
    <3>2. disk' \in {disk, [disk EXCEPT ![R] = st]}
      BY <2>7 DEF RecordCommitted
    <3>3. st \in Record /\ st.status = "committed" /\ st.old_image = disk[R].old_image
      BY <3>1
    <3>4. st.committed = TRUE
      BY <3>1
    <3>5. disk[R].status = "committed" => disk[R].committed = st.committed
      BY <3>1, <3>4
    <3> HIDE DEF st
    <3>6. disk[R].status = st.status => disk[R] = st
      BY <3>1, <3>3, <3>5, SameRecord
    <3> QED
      BY <3>1, <3>2, <3>3, <3>4, <3>6
  <2> QED
    BY <2>1, <2>2, <2>3, <2>4, <2>5, <2>6, <2>7 DEF Writes
<1>2. \A r \in Releases : Sound(r)
  BY <1>1
<1> QED
  BY <1>2 DEF BornOut, CommitRespected, MovesForward, Written

(* Every record written is borne out by the containers when it is written. *)
THEOREM RecordsAreBornOut == ASSUME ~InspectFaults PROVE Spec => RecordsBornOut
<1>1. Inv1 /\ Inv2 /\ [Next]_vars => [BornOut]_vars
  BY WritesAreSound
<1> QED
  BY <1>1, Inv2Always, PTL DEF Spec, RecordsBornOut

(* No interleaving of verbs moves a record backwards.                      *)
THEOREM RecordsMoveForward == ASSUME ~InspectFaults PROVE Spec => Lifecycle
<1>1. Inv1 /\ Inv2 /\ [Next]_vars => [MovesForward]_vars
  BY WritesAreSound
<1> QED
  BY <1>1, Inv2Always, PTL DEF Spec, Lifecycle
=============================================================================
