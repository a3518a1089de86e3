----------------------- MODULE DeployBrokerLateProofs -----------------------
(***************************************************************************)
(* Proofs about the deploy broker on a late host, for any set of releases. *)
(***************************************************************************)
EXTENDS DeployBrokerLateProperties, DeployBrokerProofs

USE DEF Container, Record, Holder, Status, Verbs, Steps, CutoverSteps, RestoreSteps

(* An effect keeps the types, whatever the daemon has done before.         *)
LEMMA StepType ==
  ASSUME TypeOK, NEW o \in Outcomes, Step(o)
  PROVE  TypeOK'
<1> USE NoneIsApart DEF TypeOK, Outcomes, TakesEffect, At, R,
        Docker, Save, After, Proceed, Exit, timers, containers
<1>1. CASE RecordRelease(o)
  BY <1>1 DEF RecordRelease
<1>2. CASE ArmWatchdog(o)
  BY <1>2, ZenonT(60) DEF ArmWatchdog
<1>3. CASE RetainCurrent(o)
  BY <1>3 DEF RetainCurrent
<1>4. CASE StopRetained(o)
  BY <1>4, ZenonT(60) DEF StopRetained
<1>5. CASE CreateCandidate(o)
  BY <1>5 DEF CreateCandidate, Images
<1>6. CASE ConnectCandidate(o)
  BY <1>6 DEF ConnectCandidate
<1>7. CASE StartCandidate(o)
  BY <1>7 DEF StartCandidate, Start
<1>8. CASE RecordDeployed(o)
  BY <1>8 DEF RecordDeployed
<1>9. CASE Abandon(o)
  BY <1>9 DEF Abandon, StopTimer
<1>10. CASE RecordAbandoned(o)
  BY <1>10 DEF RecordAbandoned
<1>11. CASE BeginRestore(o)
  BY <1>11 DEF BeginRestore, Sees
<1>12. CASE RemoveCandidate(o)
  BY <1>12 DEF RemoveCandidate
<1>13. CASE Reinstate(o)
  BY <1>13 DEF Reinstate
<1>14. CASE StartRestored(o)
  BY <1>14 DEF StartRestored, Start
<1>15. CASE RecordRestored(o)
  BY <1>15 DEF RecordRestored
<1>16. CASE RecordCommitted(o)
  BY <1>16 DEF RecordCommitted
<1>17. CASE Disarm(o)
  BY <1>17 DEF Disarm, StopTimer
<1> QED
  BY <1>1, <1>2, <1>3, <1>4, <1>5, <1>6, <1>7, <1>8, <1>9, <1>10, <1>11, <1>12,
     <1>13, <1>14, <1>15, <1>16, <1>17 DEF Step

(* Effects are those of the verb that holds the lock.                      *)
LEMMA StepHolds == ASSUME NEW o \in Outcomes, Step(o) PROVE holder # None
BY DEF Step, At, RecordRelease, ArmWatchdog, RetainCurrent, StopRetained, CreateCandidate,
   ConnectCandidate, StartCandidate, RecordDeployed, Abandon, RecordAbandoned, BeginRestore,
   RemoveCandidate, Reinstate, StartRestored, RecordRestored, RecordCommitted, Disarm

(* The history lasts while a verb is under way or a command is late.       *)
Remembers ==
  /\ overtaken' \in BOOLEAN
  /\ overtaken \/ Overtakes => overtaken' \/ (holder' = None /\ late' = None)

LEMMA NextRemembers == LateTypeOK /\ [LateNext]_lateVars => Remembers
<1>1. LateNext => Remembers
  BY DEF LateNext, Remembers
<1>2. LateTypeOK /\ UNCHANGED lateVars => Remembers
  BY DEF LateTypeOK, lateVars, vars, Overtakes, Remembers
<1> QED
  BY <1>1, <1>2

(* The same of the effect together with what it makes revocable.           *)
LEMMA StepLateType ==
  ASSUME LateTypeOK, NEW o \in Outcomes, StepLate(o), Remembers
  PROVE  LateTypeOK'
<1>1. TypeOK'
  BY StepType DEF LateTypeOK, StepLate
<1>2. disk \in [Releases -> Record \cup {None}] /\ R \in Releases
  BY StepHolds DEF LateTypeOK, TypeOK, R, StepLate
<1>3. older' \in [Releases -> SUBSET (Record \cup {None})]
  BY <1>2 DEF LateTypeOK, StepLate
<1>4. late' = late
  BY DEF StepLate
<1> QED
  BY <1>1, <1>3, <1>4 DEF LateTypeOK, Remembers

LateInv == LateTypeOK /\ LateHostInv

(* A write of the record adds what it writes to what a power loss may find. *)
LEMMA SaveKeeps ==
  ASSUME LateTypeOK, NEW o \in Outcomes, NEW st \in Record, NEW next \in Steps \cup {"exit"},
         StepLate(o), Save(o, st, next), holder # None, holder.step \in WriteSteps \ {"record", "record_deployed"}
  PROVE  /\ R \in Releases /\ UNCHANGED <<production, backup, late>>
         /\ \A r \in Releases \ {R} : Versions(r)' \subseteq Versions(r)
         /\ \A r \in Releases : Versions(r)' \subseteq Versions(r) \cup {st}
         /\ holder' # None => holder'.step = next /\ holder'.release = R /\ holder'.state = st
         /\ holder' # None => holder'.verb = holder.verb /\ disk'[R] = st /\ Versions(R)' = {st}
<1>1. R \in Releases /\ holder \in Holder
  BY DEF LateTypeOK, TypeOK, R
<1>2. UNCHANGED <<production, backup, late>>
  BY DEF Save, containers, StepLate
<1>3. disk' = disk \/ (disk' = [disk EXCEPT ![R] = st] /\ o # "failed")
  BY DEF Save, TakesEffect
<1>4. older' = IF o = "failed" THEN older
               ELSE IF o = "ok" THEN [r \in Releases |-> {}]
               ELSE [older EXCEPT ![R] = @ \cup {disk[R]}]
  BY DEF StepLate
<1>5. disk \in [Releases -> Record \cup {None}] /\ older \in [Releases -> SUBSET (Record \cup {None})]
  BY DEF LateTypeOK, TypeOK
<1>6. \A r \in Releases \ {R} : Versions(r)' \subseteq Versions(r)
  BY <1>1, <1>3, <1>4, <1>5 DEF Versions
<1>7. \A r \in Releases : Versions(r)' \subseteq Versions(r) \cup {st}
  BY <1>1, <1>3, <1>4, <1>5 DEF Versions
<1>8. ASSUME holder' # None
      PROVE  /\ holder'.step = next /\ holder'.release = R /\ holder'.state = st
             /\ holder'.verb = holder.verb /\ disk'[R] = st /\ Versions(R)' = {st}
  <2>1. next # "exit" /\ o = "ok"
    BY <1>8 DEF Save, After, Proceed, WriteSteps
  <2>2. holder' = [holder EXCEPT !.step = next, !.state = st]
    BY <2>1 DEF Save, After, Proceed
  <2>3. disk' = [disk EXCEPT ![R] = st] /\ older' = [r \in Releases |-> {}]
    BY <1>4, <2>1 DEF Save, TakesEffect
  <2>4. disk'[R] = st /\ Versions(R)' = {st}
    <3>1. R' = R
      BY <1>1, <2>1, <2>2 DEF R
    <3> QED
      BY <1>1, <1>5, <2>3, <3>1 DEF Versions
  <2> QED
    BY <1>1, <2>1, <2>2, <2>4 DEF R
<1> QED
  BY <1>1, <1>2, <1>6, <1>7, <1>8

(* The writes of a record that may find another version behind them.       *)
Rewrites(st) ==
  /\ R \in Releases /\ UNCHANGED <<production, backup, late>>
  /\ \A r \in Releases \ {R} : Versions(r)' \subseteq Versions(r)
  /\ \A r \in Releases : Versions(r)' \subseteq Versions(r) \cup {st}
  /\ holder # None /\ st # None
  /\ \/ /\ st.status = "failed_pre_cutover" /\ holder' = None
     \/ /\ st.status \in {"rolled_back", "committed"} /\ ~Unbegun(R)
        /\ holder' # None => holder'.step = "disarm" /\ holder'.release = R /\ holder'.state = st
        /\ st.status = "committed" =>
             /\ Delivered(disk[R]) /\ disk[R] \in Versions(R)
             /\ st.old_image = disk[R].old_image

(* The last write of a recovery, of a restore and of a commit is one of    *)
(* them.                                                                   *)
LEMMA RewritesRecord ==
  ASSUME LateInv, NEW o \in Outcomes, StepLate(o),
         RecordAbandoned(o) \/ RecordRestored(o) \/ RecordCommitted(o)
  PROVE  \E st \in Record : Rewrites(st)
<1>1. holder # None /\ holder \in Holder /\ holder.state \in Record
  BY DEF RecordAbandoned, RecordRestored, RecordCommitted, At, LateInv, LateTypeOK, TypeOK
<1>2. LateTypeOK /\ LateHolderInv
  BY DEF LateInv, LateHostInv
<1>3. CASE RecordAbandoned(o)
  <2> DEFINE st == [holder.state EXCEPT !.status = "failed_pre_cutover", !.committed = FALSE]
  <2>1. st \in Record /\ st.status = "failed_pre_cutover"
    BY <1>1
  <2>2. Save(o, st, "exit") /\ holder.step = "record_abandoned"
    BY <1>3 DEF RecordAbandoned, At
  <2> HIDE DEF st
  <2>3. holder' = None
    BY <1>1, <2>2 DEF Save, After, Proceed
  <2>4. Rewrites(st)
    BY <1>1, <1>2, <2>1, <2>2, <2>3, SaveKeeps, NoneIsApart DEF Rewrites, WriteSteps
  <2> QED
    BY <2>1, <2>4
<1>4. CASE RecordRestored(o)
  <2> DEFINE st == [holder.state EXCEPT !.status = "rolled_back", !.committed = FALSE]
  <2>1. st \in Record /\ st.status = "rolled_back"
    BY <1>1
  <2>2. Save(o, st, "disarm") /\ holder.step = "record_restored"
    BY <1>4 DEF RecordRestored, At
  <2>3. ~Unbegun(R)
    BY <1>1, <1>2, <2>2 DEF LateHolderInv
  <2> HIDE DEF st
  <2>4. Rewrites(st)
    BY <1>1, <1>2, <2>1, <2>2, <2>3, SaveKeeps, NoneIsApart DEF Rewrites, WriteSteps
  <2> QED
    BY <2>1, <2>4
<1>5. CASE RecordCommitted(o)
  <2> DEFINE st == [holder.state EXCEPT !.status = "committed", !.committed = TRUE]
  <2>1. st \in Record /\ st.status = "committed" /\ st.old_image = holder.state.old_image
    BY <1>1
  <2>2. Save(o, st, "disarm") /\ holder.step = "record_committed"
    BY <1>5 DEF RecordCommitted, At
  <2>3. ~Unbegun(R) /\ disk[R] = holder.state /\ Delivered(disk[R]) /\ disk[R] \in Versions(R)
    BY <1>1, <1>2, <2>2 DEF LateHolderInv, Versions
  <2> HIDE DEF st
  <2>4. Rewrites(st)
    BY <1>1, <1>2, <2>1, <2>2, <2>3, SaveKeeps, NoneIsApart DEF Rewrites, WriteSteps
  <2> QED
    BY <2>1, <2>4
<1> QED
  BY <1>3, <1>4, <1>5

(* They keep the parts of the invariant that speak of records.             *)
LEMMA RewritesKeep ==
  ASSUME LateInv, NEW st \in Record, Rewrites(st), Remembers
  PROVE  VersionsInv' /\ LateHolderInv' /\ LateCommandInv'
<1> USE DEF LateInv, LateHostInv, Rewrites, Retained, Gone, Has, Proven, Unbegun, Delivered, Preparing, R
<1>1. VersionsInv'
  BY DEF VersionsInv
<1>2. LateHolderInv'
  BY DEF LateHolderInv
<1>3. late # None /\ overtaken => overtaken'
  BY DEF Remembers
<1>4. LateCommandInv'
  BY <1>3 DEF LateCommandInv, LateHolderInv
<1> QED
  BY <1>1, <1>2, <1>4

(* No effect makes a second container of an image.                         *)
LEMMA StepOneOfEach ==
  ASSUME LateInv, NEW o \in Outcomes, StepLate(o), LateTypeOK', Remembers
  PROVE  OneOfEach'
<1> USE NoneIsApart DEF LateInv, LateHostInv, LateTypeOK, TypeOK, Outcomes, TakesEffect, At, R,
        Docker, Save, After, Proceed, Exit, timers, containers, StepLate, WriteSteps, OneOfEach, LateHolderInv, Retained, Has, Gone, DockerSteps
<1>1. CASE RecordRelease(o)
  BY <1>1 DEF RecordRelease
<1>2. CASE ArmWatchdog(o)
  BY <1>2 DEF ArmWatchdog
<1>3. CASE RetainCurrent(o)
  BY <1>3 DEF RetainCurrent
<1>4. CASE StopRetained(o)
  BY <1>4 DEF StopRetained
<1>5. CASE CreateCandidate(o)
  BY <1>5 DEF CreateCandidate
<1>6. CASE ConnectCandidate(o)
  BY <1>6 DEF ConnectCandidate
<1>7. CASE StartCandidate(o)
  BY <1>7 DEF StartCandidate, Start
<1>8. CASE RecordDeployed(o)
  BY <1>8 DEF RecordDeployed
<1>9. CASE Abandon(o)
  BY <1>9 DEF Abandon, StopTimer
<1>10. CASE RecordAbandoned(o)
  BY <1>10 DEF RecordAbandoned
<1>11. CASE BeginRestore(o)
  BY <1>11 DEF BeginRestore, Sees
<1>12. CASE RemoveCandidate(o)
  BY <1>12 DEF RemoveCandidate
<1>13. CASE Reinstate(o)
  BY <1>13 DEF Reinstate
<1>14. CASE StartRestored(o)
  BY <1>14 DEF StartRestored, Start
<1>15. CASE RecordRestored(o)
  BY <1>15 DEF RecordRestored
<1>16. CASE RecordCommitted(o)
  BY <1>16 DEF RecordCommitted
<1>17. CASE Disarm(o)
  BY <1>17 DEF Disarm, StopTimer
<1> QED
  BY <1>1, <1>2, <1>3, <1>4, <1>5, <1>6, <1>7, <1>8, <1>9, <1>10, <1>11, <1>12, <1>13, <1>14, <1>15, <1>16, <1>17 DEF Step

(* What an effect sets aside has passed the gates.                         *)
LEMMA StepRetainedProven ==
  ASSUME LateInv, NEW o \in Outcomes, StepLate(o), LateTypeOK', Remembers
  PROVE  RetainedProven'
<1> USE NoneIsApart DEF LateInv, LateHostInv, LateTypeOK, TypeOK, Outcomes, TakesEffect, At, R,
        Docker, Save, After, Proceed, Exit, timers, containers, StepLate, WriteSteps, RetainedProven, LateHolderInv, Retained, Proven, Serving, DockerSteps
<1>1. CASE RecordRelease(o)
  BY <1>1 DEF RecordRelease
<1>2. CASE ArmWatchdog(o)
  BY <1>2 DEF ArmWatchdog
<1>3. CASE RetainCurrent(o)
  BY <1>3 DEF RetainCurrent
<1>4. CASE StopRetained(o)
  <2>1. TypeOK
    OBVIOUS
  <2>2. older' = older /\ late' = late
    BY <1>4 DEF StopRetained
  <2> HIDE DEF TypeOK, LateTypeOK, StepLate
  <2> QED
    BY <1>4, <2>1, <2>2, StopKeeps
<1>5. CASE CreateCandidate(o)
  BY <1>5 DEF CreateCandidate
<1>6. CASE ConnectCandidate(o)
  BY <1>6 DEF ConnectCandidate
<1>7. CASE StartCandidate(o)
  BY <1>7 DEF StartCandidate, Start
<1>8. CASE RecordDeployed(o)
  BY <1>8 DEF RecordDeployed
<1>9. CASE Abandon(o)
  BY <1>9 DEF Abandon, StopTimer
<1>10. CASE RecordAbandoned(o)
  BY <1>10 DEF RecordAbandoned
<1>11. CASE BeginRestore(o)
  BY <1>11 DEF BeginRestore, Sees
<1>12. CASE RemoveCandidate(o)
  BY <1>12 DEF RemoveCandidate
<1>13. CASE Reinstate(o)
  BY <1>13 DEF Reinstate
<1>14. CASE StartRestored(o)
  BY <1>14, ZenonT(60) DEF StartRestored, Start
<1>15. CASE RecordRestored(o)
  BY <1>15 DEF RecordRestored
<1>16. CASE RecordCommitted(o)
  BY <1>16 DEF RecordCommitted
<1>17. CASE Disarm(o)
  BY <1>17 DEF Disarm, StopTimer
<1> QED
  BY <1>1, <1>2, <1>3, <1>4, <1>5, <1>6, <1>7, <1>8, <1>9, <1>10, <1>11, <1>12, <1>13, <1>14, <1>15, <1>16, <1>17 DEF Step

(* Every record that a power loss may leave is borne out by the            *)
(* containers.                                                             *)
LEMMA StepVersions ==
  ASSUME LateInv, NEW o \in Outcomes, StepLate(o), LateTypeOK', Remembers
  PROVE  VersionsInv'
<1> USE NoneIsApart DEF LateInv, LateHostInv, LateTypeOK, TypeOK, Outcomes, TakesEffect, At, R,
        Docker, Save, After, Proceed, Exit, timers, containers, StepLate, WriteSteps, VersionsInv, Versions, Unbegun, Delivered, Preparing, LateHolderInv, Retained, Has, Gone, Serving, DockerSteps
<1>1. CASE RecordRelease(o)
  BY <1>1 DEF RecordRelease
<1>2. CASE ArmWatchdog(o)
  BY <1>2 DEF ArmWatchdog
<1>3. CASE RetainCurrent(o)
  BY <1>3 DEF RetainCurrent
<1>4. CASE StopRetained(o)
  <2>1. TypeOK
    OBVIOUS
  <2>2. older' = older /\ late' = late
    BY <1>4 DEF StopRetained
  <2> HIDE DEF TypeOK, LateTypeOK, StepLate
  <2> QED
    BY <1>4, <2>1, <2>2, StopKeeps
<1>5. CASE CreateCandidate(o)
  BY <1>5 DEF CreateCandidate
<1>6. CASE ConnectCandidate(o)
  BY <1>6 DEF ConnectCandidate
<1>7. CASE StartCandidate(o)
  BY <1>7 DEF StartCandidate, Start
<1>8. CASE RecordDeployed(o)
  BY <1>8 DEF RecordDeployed
<1>9. CASE Abandon(o)
  BY <1>9 DEF Abandon, StopTimer
<1>10. CASE RecordAbandoned(o)
  BY <1>10, RewritesRecord, RewritesKeep
<1>11. CASE BeginRestore(o)
  BY <1>11 DEF BeginRestore, Sees
<1>12. CASE RemoveCandidate(o)
  BY <1>12 DEF RemoveCandidate
<1>13. CASE Reinstate(o)
  BY <1>13 DEF Reinstate
<1>14. CASE StartRestored(o)
  BY <1>14 DEF StartRestored, Start
<1>15. CASE RecordRestored(o)
  BY <1>15, RewritesRecord, RewritesKeep
<1>16. CASE RecordCommitted(o)
  BY <1>16, RewritesRecord, RewritesKeep
<1>17. CASE Disarm(o)
  BY <1>17 DEF Disarm, StopTimer
<1> QED
  BY <1>1, <1>2, <1>3, <1>4, <1>5, <1>6, <1>7, <1>8, <1>9, <1>10, <1>11, <1>12, <1>13, <1>14, <1>15, <1>16, <1>17 DEF Step

(* What holds before the holder's next step.                               *)
LEMMA StepLateHolder ==
  ASSUME LateInv, NEW o \in Outcomes, StepLate(o), LateTypeOK', Remembers
  PROVE  LateHolderInv'
<1> USE NoneIsApart DEF LateInv, LateHostInv, LateTypeOK, TypeOK, Outcomes, TakesEffect, At, R,
        Docker, Save, After, Proceed, Exit, timers, containers, StepLate, WriteSteps, VersionsInv, Versions, Unbegun, Delivered, Preparing, LateHolderInv, Retained, Has, Gone, Serving, DockerSteps
<1>1. CASE RecordRelease(o)
  BY <1>1 DEF RecordRelease
<1>2. CASE ArmWatchdog(o)
  BY <1>2 DEF ArmWatchdog
<1>3. CASE RetainCurrent(o)
  BY <1>3 DEF RetainCurrent
<1>4. CASE StopRetained(o)
  <2>1. TypeOK
    OBVIOUS
  <2>2. older' = older /\ late' = late
    BY <1>4 DEF StopRetained
  <2> HIDE DEF TypeOK, LateTypeOK, StepLate
  <2> QED
    BY <1>4, <2>1, <2>2, StopKeeps
<1>5. CASE CreateCandidate(o)
  BY <1>5 DEF CreateCandidate
<1>6. CASE ConnectCandidate(o)
  BY <1>6 DEF ConnectCandidate
<1>7. CASE StartCandidate(o)
  BY <1>7 DEF StartCandidate, Start
<1>8. CASE RecordDeployed(o)
  BY <1>8 DEF RecordDeployed
<1>9. CASE Abandon(o)
  BY <1>9 DEF Abandon, StopTimer
<1>10. CASE RecordAbandoned(o)
  BY <1>10, RewritesRecord, RewritesKeep
<1>11. CASE BeginRestore(o)
  BY <1>11 DEF BeginRestore, Sees
<1>12. CASE RemoveCandidate(o)
  BY <1>12 DEF RemoveCandidate
<1>13. CASE Reinstate(o)
  BY <1>13 DEF Reinstate
<1>14. CASE StartRestored(o)
  BY <1>14 DEF StartRestored, Start
<1>15. CASE RecordRestored(o)
  BY <1>15, RewritesRecord, RewritesKeep
<1>16. CASE RecordCommitted(o)
  BY <1>16, RewritesRecord, RewritesKeep
<1>17. CASE Disarm(o)
  BY <1>17 DEF Disarm, StopTimer
<1> QED
  BY <1>1, <1>2, <1>3, <1>4, <1>5, <1>6, <1>7, <1>8, <1>9, <1>10, <1>11, <1>12, <1>13, <1>14, <1>15, <1>16, <1>17, ZenonT(60) DEF Step

(* A late command meets the containers it was meant for, or nothing.       *)
LEMMA StepLateCommand ==
  ASSUME LateInv, NEW o \in Outcomes, StepLate(o), LateTypeOK', Remembers
  PROVE  LateCommandInv'
<1> USE NoneIsApart DEF LateInv, LateHostInv, LateTypeOK, TypeOK, Outcomes, TakesEffect, At, R,
        Docker, Save, After, Proceed, Exit, timers, containers, StepLate, WriteSteps, VersionsInv, Versions, Unbegun, Delivered, Preparing, LateHolderInv, LateCommandInv, Retained, Has, Gone, Proven, Serving, DockerSteps
<1>0. late # None /\ overtaken => overtaken'
  BY DEF Remembers
<1>1. CASE RecordRelease(o)
  BY <1>1 DEF RecordRelease
<1>2. CASE ArmWatchdog(o)
  BY <1>2 DEF ArmWatchdog
<1>3. CASE RetainCurrent(o)
  BY <1>3 DEF RetainCurrent
<1>4. CASE StopRetained(o)
  BY <1>0, <1>4 DEF StopRetained
<1>5. CASE CreateCandidate(o)
  BY <1>0, <1>5 DEF CreateCandidate
<1>6. CASE ConnectCandidate(o)
  BY <1>0, <1>6 DEF ConnectCandidate
<1>7. CASE StartCandidate(o)
  BY <1>0, <1>7 DEF StartCandidate, Start
<1>8. CASE RecordDeployed(o)
  BY <1>0, <1>8 DEF RecordDeployed
<1>9. CASE Abandon(o)
  BY <1>0, <1>9 DEF Abandon, StopTimer
<1>10. CASE RecordAbandoned(o)
  BY <1>10, RewritesRecord, RewritesKeep
<1>11. CASE BeginRestore(o)
  <2> DEFINE st == [holder.state EXCEPT !.status = "restoring"]
  <2>1. holder # None /\ st \in Record /\ st.status = "restoring" /\ Save(o, st, "check")
        /\ holder.step = "restore" /\ Retained(R)
    BY <1>11 DEF BeginRestore, Sees
  <2>2. /\ R \in Releases /\ UNCHANGED <<production, backup, late>>
        /\ \A r \in Releases : Versions(r)' \subseteq Versions(r) \cup {st}
    <3> HIDE DEF st, TypeOK, LateTypeOK, LateInv, LateHostInv, StepLate, Save, Versions
    <3>1. LateTypeOK
      BY DEF LateInv
    <3> QED
      BY <2>1, <3>1, SaveKeeps
  <2>3. late # None => late.release = R /\ ~Unbegun(R)
    BY <2>1
  <2>4. late # None => ~Unbegun(late.release)'
    <3>1. late # None => late.release \in Releases /\ None \notin Versions(late.release) \cup {st}
      BY <2>1, <2>2, <2>3
    <3> QED
      BY <2>2, <3>1
  <2> HIDE DEF st, TypeOK, LateTypeOK, StepLate, Save
  <2> QED
    BY <1>0, <2>1, <2>2, <2>3, <2>4
<1>12. CASE RemoveCandidate(o)
  <2>1. UNCHANGED <<backup, disk, older, late>> /\ (production' = None \/ production' = production)
    BY <1>12 DEF RemoveCandidate
  <2>2. holder # None /\ holder.step = "remove"
    BY <1>12 DEF RemoveCandidate
  <2> HIDE DEF StepLate, LateTypeOK, TypeOK
  <2> QED
    BY <1>0, <2>1, <2>2
<1>13. CASE Reinstate(o)
  BY <1>0, <1>13 DEF Reinstate
<1>14. CASE StartRestored(o)
  <2>1. /\ UNCHANGED <<backup, disk, older, late>>
        /\ production' = None <=> production = None
        /\ production # None => /\ production'.image = production.image
                              /\ production'.joined = production.joined
    BY <1>14 DEF StartRestored, Start
  <2> HIDE DEF StepLate, LateTypeOK, TypeOK
  <2> QED
    BY <1>0, <1>14, <2>1 DEF StartRestored
<1>15. CASE RecordRestored(o)
  BY <1>15, RewritesRecord, RewritesKeep
<1>16. CASE RecordCommitted(o)
  BY <1>16, RewritesRecord, RewritesKeep
<1>17. CASE Disarm(o)
  BY <1>0, <1>17 DEF Disarm, StopTimer
<1> QED
  BY <1>1, <1>2, <1>3, <1>4, <1>5, <1>6, <1>7, <1>8, <1>9, <1>10, <1>11, <1>12, <1>13, <1>14, <1>15, <1>16, <1>17 DEF Step

(* The parts together: an effect keeps the invariant.                      *)
LEMMA StepLateInv ==
  ASSUME LateInv, NEW o \in Outcomes, StepLate(o), Remembers
  PROVE  LateInv'
<1>1. LateTypeOK'
  BY StepLateType DEF LateInv
<1> QED
  BY <1>1, StepOneOfEach, StepRetainedProven, StepVersions, StepLateHolder, StepLateCommand
  DEF LateInv, LateHostInv

-----------------------------------------------------------------------------
(* Steps that leave the containers, the records and the daemon alone.      *)
Aside == UNCHANGED <<containers, disk, late, older>>

(* Whoever changes neither containers nor records disturbs only the        *)
(* holder's part.                                                          *)
LEMMA AsideKeeps ==
  ASSUME LateInv, Aside, TypeOK', LateHolderInv', Remembers
  PROVE  LateInv'
<1> USE DEF LateInv, LateHostInv, Aside, containers, Retained, Gone, Has, Proven,
        Versions, Unbegun, Delivered, Preparing
<1>1. OneOfEach' /\ RetainedProven'
  BY DEF OneOfEach, RetainedProven
<1>2. VersionsInv' /\ LateCommandInv'
  BY DEF VersionsInv, LateCommandInv, Remembers
<1>3. LateTypeOK'
  BY DEF LateTypeOK, Remembers
<1> QED
  BY <1>1, <1>2, <1>3

(* A verb that takes the lock finds no command late but its own release's. *)
LEMMA VerbKeeps ==
  ASSUME LateInv, NEW r \in Releases, Prompt(r), Verb(r), UNCHANGED <<late, older>>, Remembers
  PROVE  LateInv'
<1> USE NoneIsApart DEF LateInv, LateTypeOK, TypeOK, Acquire, Aside, containers, timers
<1>1. CASE Deploy(r)
  <2>1. Aside /\ TypeOK'
    BY <1>1 DEF Deploy, preflight, Serving
  <2>2. LateHolderInv'
    BY <1>1 DEF Deploy, preflight, Serving, LateHostInv, LateHolderInv, VersionsInv,
       LateCommandInv, Versions, Unbegun, Delivered, Preparing, Prompt, R, Retained, Gone, Has
  <2> QED
    BY <2>1, <2>2, AsideKeeps
<1>2. CASE Rollback(r)
  <2>1. Aside /\ TypeOK'
    BY <1>2 DEF Rollback
  <2>2. LateHolderInv'
    BY <1>2 DEF Rollback, LateHostInv, LateHolderInv, VersionsInv, Versions, Unbegun, Prompt, R
  <2> QED
    BY <2>1, <2>2, AsideKeeps
<1>3. CASE Commit(r)
  <2>1. Aside /\ TypeOK'
    BY <1>3 DEF Commit
  <2>2. LateHolderInv'
    BY <1>3 DEF Commit, LateHostInv, LateHolderInv, VersionsInv, Versions, Unbegun, Delivered, Preparing, Prompt, R
  <2> QED
    BY <2>1, <2>2, AsideKeeps
<1>4. ASSUME NEW healthy \in BOOLEAN, Watchdog(r, healthy)
      PROVE  LateInv'
  <2>1. Aside /\ TypeOK'
    BY <1>4 DEF Watchdog
  <2>2. LateHolderInv'
    BY <1>4 DEF Watchdog, LateHostInv, LateHolderInv, VersionsInv, Versions, Unbegun, Prompt, R
  <2> QED
    BY <2>1, <2>2, AsideKeeps
<1> QED
  BY <1>1, <1>2, <1>3, <1>4 DEF Verb

(* Where a decision leads, if not out of the verb.                         *)
Leads(s) ==
  \/ holder.step = "gate" /\ s \in {"record_deployed", "recover"}
  \/ holder.step = "recover" /\ s = "abandon"
  \/ holder.step = "recover" /\ s = "restore"
       /\ (Retained(R) \/ holder.state.status = "restoring")
  \/ holder.step = "restore_gate" /\ s = "record_restored"
  \/ holder.step = "restore" /\ s = "restart" /\ holder.state.status = "restoring"
  \/ holder.step = "check" /\ s = "remove" /\ production # None
  \/ holder.step = "check" /\ s = "reinstate"

(* Where a decision leads that does not end the verb.                      *)
LEMMA DecisionLeads ==
  ASSUME TypeOK, Decision \/ Crash
  PROVE  /\ UNCHANGED <<production, backup, disk, enabled, active, pending, expired>>
         /\ holder # None
         /\ holder' # None => \E s \in Steps :
              /\ Leads(s) /\ holder' \in Holder
              /\ holder'.step = s /\ holder'.release = R /\ holder'.state = holder.state
              /\ holder'.verb = holder.verb
<1>1. ASSUME NEW s \in Steps, Decide(s), Leads(s), holder # None
      PROVE  /\ UNCHANGED <<production, backup, disk, enabled, active, pending, expired>>
             /\ Leads(s) /\ holder' \in Holder
             /\ holder'.step = s /\ holder'.release = R /\ holder'.state = holder.state
             /\ holder'.verb = holder.verb
  <2>1. holder \in Holder /\ holder.state \in Record
    BY <1>1 DEF TypeOK
  <2>2. holder' = [holder EXCEPT !.step = s, !.state = holder.state]
    BY <1>1 DEF Decide, Proceed
  <2> QED
    BY <1>1, <2>1, <2>2 DEF Decide, R, containers, timers
<1>2. Abort \/ Crash => holder' = None
        /\ UNCHANGED <<production, backup, disk, enabled, active, pending, expired>>
  BY DEF Abort, Crash, Exit, containers, timers
<1>3. ASSUME NEW ok \in BOOLEAN, CandidateGate(ok)
      PROVE  holder # None /\ \E s \in Steps : Leads(s) /\ Decide(s)
  BY <1>3 DEF CandidateGate, Leads, At
<1>4. ASSUME NEW ok \in BOOLEAN, RestoreGate(ok)
      PROVE  holder # None /\ (Abort \/ \E s \in Steps : Leads(s) /\ Decide(s))
  BY <1>4 DEF RestoreGate, Leads, At
<1>5. ASSUME NEW ok \in BOOLEAN, Recover(ok)
      PROVE  holder # None /\ (Abort \/ \E s \in Steps : Leads(s) /\ Decide(s))
  BY <1>5 DEF Recover, Leads, At, Sees, Retained
<1>6. CASE ResumeRestore
  <2>1. holder # None /\ Leads("restart") /\ Decide("restart")
    BY <1>6 DEF ResumeRestore, Leads, At
  <2> QED
    BY <1>1, <2>1
<1>7. CASE RefuseRestore \/ Crash
  BY <1>2, <1>7 DEF RefuseRestore, Crash, At
<1>8. ASSUME NEW seen \in BOOLEAN, CheckProduction(seen)
      PROVE  holder # None /\ \E s \in Steps : Leads(s) /\ Decide(s)
  <2>1. holder # None /\ holder.step = "check" /\ (seen => production # None)
    BY <1>8 DEF CheckProduction, At, Sees
  <2>2. CASE seen
    <3>1. Leads("remove") /\ Decide("remove")
      BY <1>8, <2>1, <2>2 DEF CheckProduction, Leads
    <3> QED
      BY <2>1, <3>1
  <2>3. CASE ~seen
    <3>1. Leads("reinstate") /\ Decide("reinstate")
      BY <1>8, <2>1, <2>3 DEF CheckProduction, Leads
    <3> QED
      BY <2>1, <3>1
  <2> QED
    BY <2>2, <2>3
<1>9. CASE \E ok \in BOOLEAN : \/ CandidateGate(ok) \/ RestoreGate(ok)
                              \/ Recover(ok) \/ CheckProduction(ok)
  BY <1>1, <1>2, <1>3, <1>4, <1>5, <1>8, <1>9
<1> QED
  BY <1>6, <1>7, <1>9 DEF Decision

(* No decision spoils the invariant, whatever the inspections report.      *)
LEMMA DecisionKeeps ==
  ASSUME LateInv, Decision \/ Crash, UNCHANGED <<late, older>>, Remembers
  PROVE  LateInv'
<1>1. TypeOK
  BY DEF LateInv, LateTypeOK
<1>2. Aside
  BY <1>1, DecisionLeads DEF Aside, containers
<1>3. TypeOK'
  BY <1>1, DecisionLeads DEF TypeOK
<1>4. LateHolderInv'
  <2>1. CASE holder' = None
    BY <2>1 DEF LateHolderInv
  <2>2. ASSUME NEW s \in Steps, Leads(s), holder # None, holder'.step = s,
               holder'.release = R, holder'.state = holder.state, holder' # None
        PROVE  LateHolderInv'
    <3>1. overtaken => overtaken'
      BY <2>2 DEF Remembers
    <3> QED
      BY <1>2, <2>2, <3>1 DEF LateInv, LateHostInv, LateHolderInv, VersionsInv, Aside, containers,
         Leads, Versions, Unbegun, Delivered, Preparing, Retained, Gone, Has, Serving, R
  <2> QED
    BY <1>1, <2>1, <2>2, DecisionLeads
<1> QED
  BY <1>2, <1>3, <1>4, AsideKeeps

(* A power loss leaves versions, all of them sound.                        *)
LEMMA PowerLossKeeps ==
  ASSUME LateInv, PowerLoss, Remembers
  PROVE  LateInv'
<1>1. LateTypeOK'
  <2>1. \A r \in Releases : {disk[r]} \cup older[r] \subseteq Record \cup {None}
    BY DEF LateInv, LateTypeOK, TypeOK
  <2>2. disk' \in [Releases -> Record \cup {None}]
    BY <2>1 DEF PowerLoss
  <2> QED
    BY <2>2 DEF LateInv, LateTypeOK, TypeOK, PowerLoss, containers, Remembers
<1>2. OneOfEach' /\ RetainedProven'
  BY DEF LateInv, LateHostInv, OneOfEach, RetainedProven, PowerLoss, containers, Retained, Has, Proven
<1>3. \A r \in Releases : Versions(r)' \subseteq Versions(r)
  BY <1>1 DEF LateInv, LateTypeOK, TypeOK, PowerLoss, Versions
<1>4. VersionsInv'
  BY <1>3 DEF LateInv, LateHostInv, VersionsInv, PowerLoss, containers, Retained, Has, Gone, Unbegun
<1>5. LateHolderInv' /\ LateCommandInv'
  BY DEF PowerLoss, LateHolderInv, LateCommandInv
<1> QED
  BY <1>1, <1>2, <1>4, <1>5 DEF LateInv, LateHostInv

-----------------------------------------------------------------------------
(* The daemon keeps a command the broker has given up on.                  *)
LEMMA FailedCommand ==
  ASSUME TypeOK, holder # None, holder.step \in DockerSteps, Step("failed") \/ Crash
  PROVE  /\ UNCHANGED <<production, backup, disk>> /\ TypeOK'
         /\ holder' # None => /\ holder.step \in CutoverSteps /\ holder'.step = "recover"
                             /\ holder'.release = R /\ holder'.state = holder.state
                             /\ holder'.verb = holder.verb
<1>1. CASE Crash
  BY <1>1 DEF Crash, Exit, TypeOK, containers, timers
<1>2. CASE Step("failed")
  <2>1. TypeOK'
    BY <1>2, StepType DEF Outcomes
  <2>2. /\ UNCHANGED <<production, backup, disk>>
        /\ \E next \in Steps : After("failed", next, holder.state)
    BY <1>2 DEF Step, DockerSteps, At, Docker, TakesEffect, RecordRelease, ArmWatchdog, RetainCurrent,
       StopRetained, CreateCandidate, ConnectCandidate, StartCandidate, Start, RecordDeployed, Abandon,
       RecordAbandoned, BeginRestore, RemoveCandidate, Reinstate, StartRestored, RecordRestored,
       RecordCommitted, Disarm
  <2>3. holder' = None
        \/ (holder.step \in CutoverSteps /\ holder' = [holder EXCEPT !.step = "recover", !.state = holder.state])
    BY <2>2 DEF After, Proceed
  <2>4. holder \in Holder
    BY DEF TypeOK
  <2> QED
    BY <2>1, <2>2, <2>3, <2>4 DEF R
<1> QED
  BY <1>1, <1>2

(* A command the broker gives up on is as sound as when it was given.      *)
LEMMA LingerKeeps ==
  ASSUME LateInv, Linger, Remembers
  PROVE  LateInv'
<1>1. TypeOK /\ late = None /\ holder # None /\ holder.step \in DockerSteps /\ R \in Releases
  BY DEF LateInv, LateTypeOK, TypeOK, Linger, R
<1>2. PICK image \in Resolved : late' = [step |-> holder.step, release |-> R, image |-> image]
  BY DEF Linger
<1>3. /\ UNCHANGED <<production, backup, disk, older>> /\ TypeOK'
      /\ holder' # None => /\ holder.step \in CutoverSteps /\ holder'.step = "recover"
                          /\ holder'.release = R /\ holder'.state = holder.state
  BY <1>1, FailedCommand DEF Linger
<1>4. /\ holder.step = "create" => image = R
      /\ holder.step \in {"quiesce", "reinstate"} => Has(backup[R], image)
      /\ holder.step \notin {"create", "quiesce", "reinstate"} => Has(production, image)
  BY <1>2 DEF Resolved, Has
<1>5. image \in Images
  BY <1>1, <1>4 DEF TypeOK, Has, Images
<1>6. late' \in Command /\ late'.step = holder.step /\ late'.release = R /\ late'.image = image
  BY <1>1, <1>2, <1>5 DEF Command
<1>7. late' # None
  BY <1>6, NoCommandAssumption
<1>8. LateTypeOK' /\ (overtaken => overtaken')
  BY <1>3, <1>6, <1>7 DEF LateInv, LateTypeOK, Remembers
<1>9. OneOfEach' /\ RetainedProven'
  BY <1>3 DEF LateInv, LateHostInv, OneOfEach, RetainedProven, Retained, Has, Proven
<1>10. ~Unbegun(R)
  BY <1>1 DEF LateInv, LateHostInv, LateHolderInv, DockerSteps
<1>11. VersionsInv'
  BY <1>3 DEF LateInv, LateHostInv, VersionsInv, Versions, Unbegun, Retained, Has, Gone
<1>12. LateHolderInv'
  BY <1>1, <1>3, <1>6, <1>10 DEF LateHolderInv, Versions, Unbegun, R
<1>13. LateCommandInv'
  <2> USE DEF LateInv, LateHostInv, LateHolderInv, Versions, Unbegun, Retained, Has, Gone
  <2>1. ~Unbegun(late.release)'
    BY <1>3, <1>6, <1>10
  <2>2. CASE holder.step = "retain"
    BY <1>1, <1>3, <1>4, <1>6, <2>1, <2>2 DEF LateCommandInv, Serving, Proven
  <2>3. CASE holder.step = "remove"
    BY <1>1, <1>3, <1>4, <1>6, <1>8, <2>1, <2>3 DEF LateCommandInv, OneOfEach
  <2>4. CASE holder.step = "reinstate"
    BY <1>1, <1>3, <1>4, <1>6, <2>1, <2>4 DEF LateCommandInv, OneOfEach
  <2>5. CASE holder.step = "create"
    BY <1>1, <1>3, <1>4, <1>6, <2>1, <2>5 DEF LateCommandInv
  <2>6. CASE holder.step \notin {"retain", "remove", "reinstate", "create"}
    BY <1>3, <1>6, <1>7, <2>1, <2>6 DEF LateCommandInv
  <2> QED
    BY <2>2, <2>3, <2>4, <2>5, <2>6
<1> QED
  BY <1>8, <1>9, <1>11, <1>12, <1>13 DEF LateInv, LateHostInv

(* The daemon carries it out.                                              *)
LEMMA LandKeeps ==
  ASSUME LateInv, Land, Remembers
  PROVE  LateInv'
<1> USE NoneIsApart
<1>1. /\ late # None /\ late' = None /\ UNCHANGED <<disk, enabled, active, pending, expired, holder, older>>
      /\ late \in Command /\ TypeOK /\ LateTypeOK /\ late.release \in Releases
  BY DEF Land, LateInv, LateTypeOK, Command, timers
<1>2. LateCommandInv' /\ (LateTypeOK' <=> TypeOK')
  BY <1>1 DEF LateCommandInv, LateTypeOK, Remembers
<1>0. holder # None /\ (overtaken \/ Overtakes) => overtaken'
  BY <1>1 DEF Remembers
<1> USE DEF TypeOK, LateInv, LateHostInv, Retained, Has, Gone, Proven
(* Whatever becomes of a container, it keeps its image and its networks.   *)
<1>3. ASSUME NEW c \in AllContainers, c.image = late.image, late.step = "retain",
             BecomesBackup(c, late.release)
      PROVE  TypeOK' /\ OneOfEach' /\ RetainedProven' /\ VersionsInv' /\ LateHolderInv'
  <2>1. c = production /\ c # None /\ Proven(c) /\ ~Retained(late.release)
    BY <1>1, <1>3 DEF LateCommandInv, AllContainers, OneOfEach
  <2>2. production' = None
    BY <1>3, <2>1 DEF BecomesBackup
  <2>3. backup' = [backup EXCEPT ![late.release] = c]
    BY <1>1, <1>3, <2>1 DEF BecomesBackup, OneOfEach
  <2>4. TypeOK'
    BY <1>1, <2>1, <2>2, <2>3
  <2>5. OneOfEach'
    BY <1>1, <2>1, <2>2, <2>3 DEF OneOfEach
  <2>6. RetainedProven'
    BY <1>1, <2>1, <2>2, <2>3 DEF RetainedProven
  <2>7. VersionsInv'
    BY <1>1, <2>1, <2>2, <2>3 DEF VersionsInv, LateCommandInv, Versions, Unbegun
  <2>8. LateHolderInv'
    BY <1>0, <1>1, <1>3, <2>1, <2>2, <2>3 DEF LateHolderInv, Versions, Unbegun, R
  <2> QED
    BY <2>4, <2>5, <2>6, <2>7, <2>8
<1>4. ASSUME NEW c \in AllContainers, c.image = late.image, NEW d \in Container,
             d.image = c.image, c.joined => d.joined, Becomes(c.image, d)
      PROVE  TypeOK' /\ OneOfEach' /\ RetainedProven' /\ VersionsInv' /\ LateHolderInv'
  <2>1. c # None
    BY DEF AllContainers
  <2>2. /\ production' = IF Has(production, c.image) THEN d ELSE production
        /\ backup' = [r \in Releases |-> IF Has(backup[r], c.image) THEN d ELSE backup[r]]
    BY <1>4 DEF Becomes
  <2>3. /\ Has(production, c.image) => production = c
        /\ \A r \in Releases : Has(backup[r], c.image) => backup[r] = c
    BY <2>1 DEF AllContainers, OneOfEach
  <2>4. TypeOK'
    BY <1>1, <2>2
  <2>5. /\ production = None <=> production' = None
        /\ production # None => production'.image = production.image /\ (production.joined => production'.joined)
        /\ \A r \in Releases :
             /\ backup[r] = None <=> backup'[r] = None
             /\ backup[r] # None => backup'[r].image = backup[r].image /\ (backup[r].joined => backup'[r].joined)
    BY <1>1, <1>4, <2>1, <2>2, <2>3
  <2> HIDE DEF TypeOK
  <2>6. OneOfEach' /\ RetainedProven'
    BY <1>1, <2>5 DEF OneOfEach, RetainedProven
  <2>7. VersionsInv'
    BY <1>1, <2>5 DEF VersionsInv, Versions, Unbegun
  <2>8. LateHolderInv'
    BY <1>0, <1>1, <2>5 DEF LateHolderInv, Versions, Unbegun, R
  <2> QED
    BY <2>4, <2>6, <2>7, <2>8
<1>5. ASSUME NEW c \in AllContainers, c.image = late.image, late.step = "remove", Becomes(c.image, None)
      PROVE  TypeOK' /\ OneOfEach' /\ RetainedProven' /\ VersionsInv' /\ LateHolderInv'
  <2>1. Has(production, c.image) /\ \A r \in Releases : ~Has(backup[r], c.image)
    BY <1>1, <1>5 DEF LateCommandInv, AllContainers
  <2>2. production' = None /\ backup' = backup
    BY <1>1, <1>5, <2>1 DEF Becomes, OneOfEach
  <2>3. TypeOK' /\ OneOfEach' /\ RetainedProven'
    BY <1>1, <2>1, <2>2 DEF OneOfEach, RetainedProven
  <2>4. VersionsInv'
    BY <1>1, <2>2 DEF VersionsInv, Versions, Unbegun
  <2>5. LateHolderInv'
    BY <1>0, <1>1, <2>2 DEF LateHolderInv, Versions, Unbegun, R
  <2> QED
    BY <2>3, <2>4, <2>5
<1>6. ASSUME NEW c \in AllContainers, c.image = late.image, late.step = "reinstate", BecomesProduction(c)
      PROVE  TypeOK' /\ OneOfEach' /\ RetainedProven' /\ VersionsInv' /\ LateHolderInv'
  <2>1. production = None /\ c = backup[late.release] /\ c # None
    BY <1>1, <1>6 DEF LateCommandInv, AllContainers, BecomesProduction
  <2>2. production' = c /\ backup' = [backup EXCEPT ![late.release] = None]
    BY <1>1, <1>6, <2>1 DEF BecomesProduction, OneOfEach
  <2>3. TypeOK' /\ OneOfEach' /\ RetainedProven'
    BY <1>1, <2>1, <2>2 DEF OneOfEach, RetainedProven
  <2>4. VersionsInv'
    BY <1>1, <1>6, <2>1, <2>2 DEF VersionsInv, LateCommandInv, Versions, Unbegun
  <2>5. LateHolderInv'
    <3>1. holder # None /\ holder.step = "check" => overtaken'
      BY <1>0, <1>1, <1>6, <2>1, <2>2 DEF Overtakes, At
    <3> QED
      BY <1>0, <1>1, <1>6, <2>1, <2>2, <3>1 DEF LateHolderInv, Versions, Unbegun, R
  <2> QED
    BY <2>3, <2>4, <2>5
<1>7. ASSUME late.step = "create", production = None, UNCHANGED backup,
             production' = [image |-> late.image, running |-> FALSE, joined |-> FALSE]
      PROVE  TypeOK' /\ OneOfEach' /\ RetainedProven' /\ VersionsInv' /\ LateHolderInv'
  <2>1. late.image = late.release /\ Gone(late.image) /\ ~Unbegun(late.release) /\ late.image \in Images
    BY <1>1, <1>7 DEF LateCommandInv, Command
  <2>2. production' \in Container /\ production' # None /\ production'.image = late.release
    BY <1>7, <2>1
  <2>3. TypeOK'
    BY <1>1, <1>7, <2>2
  <2>4. OneOfEach' /\ RetainedProven'
    BY <1>1, <1>7, <2>1, <2>2 DEF OneOfEach, RetainedProven
  <2>5. VersionsInv'
    <3>1. \A d \in Versions(late.release) : Preparing(d) => Retained(late.release)
      BY <1>1, <1>7 DEF LateCommandInv
    <3> QED
      BY <1>1, <1>7, <2>1, <2>2, <3>1 DEF VersionsInv, Versions, Unbegun
  <2>6. LateHolderInv'
    BY <1>0, <1>1, <1>7, <2>1, <2>2 DEF LateHolderInv, Versions, Unbegun, R
  <2> QED
    BY <2>3, <2>4, <2>5, <2>6
<1>8. ASSUME UNCHANGED containers
      PROVE  TypeOK' /\ OneOfEach' /\ RetainedProven' /\ VersionsInv' /\ LateHolderInv'
  <2>1. UNCHANGED <<production, backup>>
    BY <1>8 DEF containers
  <2>2. TypeOK' /\ OneOfEach' /\ RetainedProven'
    BY <1>1, <2>1 DEF OneOfEach, RetainedProven
  <2>3. VersionsInv'
    BY <1>1, <2>1 DEF VersionsInv, Versions, Unbegun
  <2>4. LateHolderInv'
    BY <1>0, <1>1, <2>1 DEF LateHolderInv, Versions, Unbegun, R
  <2> HIDE DEF TypeOK
  <2> QED
    BY <2>2, <2>3, <2>4
<1>9. ASSUME NEW c \in AllContainers
      PROVE  /\ [c EXCEPT !.running = FALSE] \in Container /\ [c EXCEPT !.running = FALSE].image = c.image
             /\ [c EXCEPT !.running = FALSE].joined = c.joined
             /\ [c EXCEPT !.running = TRUE] \in Container /\ [c EXCEPT !.running = TRUE].image = c.image
             /\ [c EXCEPT !.running = TRUE].joined = c.joined
             /\ [c EXCEPT !.joined = TRUE] \in Container /\ [c EXCEPT !.joined = TRUE].image = c.image
             /\ [c EXCEPT !.joined = TRUE].joined
  BY <1>1 DEF AllContainers
<1> DEFINE Kept == TypeOK' /\ OneOfEach' /\ RetainedProven' /\ VersionsInv' /\ LateHolderInv'
<1>10. Kept
  <2>1. ASSUME NEW c \in AllContainers, c.image = late.image,
               \/ Becomes(c.image, [c EXCEPT !.running = FALSE])
               \/ Becomes(c.image, [c EXCEPT !.joined = TRUE])
               \/ Becomes(c.image, [c EXCEPT !.running = TRUE])
        PROVE  Kept
    <3> HIDE DEF TypeOK, LateInv, LateHostInv, Kept
    <3>1. ASSUME NEW d \in Container, d.image = c.image, c.joined => d.joined, Becomes(c.image, d)
          PROVE  Kept
      BY <1>4, <2>1, <3>1 DEF Kept
    <3> QED
      BY <1>9, <2>1, <3>1
  <2>2. ASSUME UNCHANGED containers
        PROVE  Kept
    BY <1>8, <2>2
  <2>3. ASSUME ~UNCHANGED containers
        PROVE  Kept
    <3> HIDE DEF TypeOK, LateInv, LateHostInv, Retained, Has, Gone, Proven
    <3>1. ASSUME NEW c \in AllContainers, c.image = late.image,
                 late.step = "retain" /\ BecomesBackup(c, late.release)
          PROVE  Kept
      BY <1>3, <3>1
    <3>2. ASSUME NEW c \in AllContainers, c.image = late.image,
                 \/ late.step = "remove" /\ Becomes(c.image, None)
                 \/ late.step = "reinstate" /\ BecomesProduction(c)
          PROVE  Kept
      BY <1>5, <1>6, <3>2
    <3>3. ASSUME late.step = "create", production = None, UNCHANGED backup,
                 production' = [image |-> late.image, running |-> FALSE, joined |-> FALSE]
          PROVE  Kept
      BY <1>7, <3>3
    <3> HIDE DEF Kept
    <3> QED
      BY <2>1, <2>3, <3>1, <3>2, <3>3 DEF Land
  <2> QED
    BY <2>2, <2>3
<1> QED
  BY <1>2, <1>10

(* Every step keeps the invariant.                                         *)
LEMMA NextLateInv == LateInv /\ [LateNext]_lateVars => LateInv'
<1> SUFFICES ASSUME LateInv, [LateNext]_lateVars PROVE LateInv'
  OBVIOUS
<1>0. Remembers
  BY NextRemembers DEF LateInv
<1>1. ASSUME NEW r \in Releases, Fire(r) \/ GiveUp(r) \/ Expire(r), UNCHANGED <<late, older>>
      PROVE  LateInv'
  <2>1. Aside /\ UNCHANGED holder /\ TypeOK'
    BY <1>1 DEF Fire, GiveUp, Expire, Aside, containers, timers, LateInv, LateTypeOK, TypeOK
  <2>2. LateHolderInv'
    <3>1. holder # None /\ overtaken => overtaken'
      BY <1>0, <2>1 DEF Remembers
    <3> QED
      BY <2>1, <3>1 DEF LateInv, LateHostInv, LateHolderInv, Aside, containers, Versions, Unbegun,
         Retained, Gone, Has, Serving, R
  <2> QED
    BY <1>0, <2>1, <2>2, AsideKeeps
<1>2. CASE UNCHANGED lateVars
  <2>1. Aside /\ UNCHANGED <<production, backup, disk, enabled, active, pending, expired, holder, overtaken>>
    BY <1>2 DEF lateVars, vars, Aside, containers
  <2>2. TypeOK' /\ LateHolderInv'
    BY <2>1 DEF LateInv, LateTypeOK, TypeOK, LateHostInv, LateHolderInv, Aside, Versions, Unbegun,
       Retained, Gone, Has, Serving, R
  <2> QED
    BY <1>0, <2>1, <2>2, AsideKeeps
<1> QED
  BY <1>0, <1>1, <1>2, StepLateInv, VerbKeeps, DecisionKeeps, LingerKeeps, LandKeeps, PowerLossKeeps
  DEF LateNext, LateSteps

(* The original container serves, nothing is recorded, nothing is late.    *)
LEMMA InitLateInv == LateInit => LateInv
<1> SUFFICES ASSUME LateInit PROVE LateInv
  OBVIOUS
<1>1. Original \in Images /\ Original \notin Unfit /\ production \in Container
  BY ImagesAssumption DEF Images, LateInit, Init
<1> QED
  BY <1>1, NoneIsApart, ImagesAssumption DEF LateInit, Init, LateInv, LateTypeOK, TypeOK, LateHostInv, OneOfEach,
     RetainedProven, VersionsInv, LateHolderInv, LateCommandInv, Versions, Unbegun, Delivered, Preparing, Retained,
     Gone, Has, Proven

(* So the invariant holds throughout.                                      *)
LEMMA LateInvAlways == LateSpec => []LateInv
BY InitLateInv, NextLateInv, PTL DEF LateSpec

-----------------------------------------------------------------------------
(* What can be lost.  As long as a release retains a container, that one   *)
(* can serve; if none does, production has to be left, or be proven itself. *)
Stays ==
  /\ \A r \in Releases : backup[r] # None => backup'[r] # None
  /\ production # None =>
       /\ production' # None
       /\ production'.image = production.image
       /\ production.joined => production'.joined
Keeps ==
  \/ \E r \in Releases : Retained(r)'
  \/ production' # None /\ Proven(production)'
  \/ Stays

LEMMA Kept ==
  ASSUME LateInv', Keeps, ServiceRecoverable
  PROVE  ServiceRecoverable'
<1>1. ASSUME NEW r \in Releases, Retained(r)'
      PROVE  ServiceRecoverable'
  BY <1>1 DEF LateInv, LateHostInv, RetainedProven, ServiceRecoverable, AllContainers, Proven, Retained
<1>2. CASE production' # None /\ Proven(production)'
  BY <1>2 DEF ServiceRecoverable, AllContainers, Proven
<1>3. CASE Stays
  <2>1. CASE production # None /\ production.joined /\ production.image \notin Unfit
    BY <1>3, <2>1 DEF Stays, ServiceRecoverable, AllContainers
  <2>2. CASE ~(production # None /\ production.joined /\ production.image \notin Unfit)
    <3>1. PICK r \in Releases : backup[r] # None
      BY <2>2 DEF ServiceRecoverable, AllContainers
    <3>2. Retained(r)'
      BY <1>3, <3>1 DEF Stays, Retained
    <3> QED
      BY <1>1, <3>2
  <2> QED
    BY <2>1, <2>2
<1> QED
  BY <1>1, <1>2, <1>3 DEF Keeps

(* An effect: above all, a candidate is removed while the container of its *)
(* release is retained.                                                    *)
LEMMA StepKeeps ==
  ASSUME LateInv, NEW o \in Outcomes, Step(o), ~overtaken
  PROVE  Keeps
<1> USE NoneIsApart DEF Stays, Keeps, LateInv, LateTypeOK, TypeOK, At, R, Docker, Save, timers, containers, Retained
<1>0. CASE RetainCurrent(o)
  <2>1. production # None /\ R \in Releases
    BY <1>0 DEF RetainCurrent, LateHostInv, LateHolderInv, Serving
  <2>2. CASE TakesEffect(o)
    BY <1>0, <2>1, <2>2 DEF RetainCurrent
  <2>3. CASE ~TakesEffect(o)
    BY <1>0, <2>3 DEF RetainCurrent
  <2> QED
    BY <2>2, <2>3
<1>1. CASE StopRetained(o)
  <2>1. TypeOK
    OBVIOUS
  <2> HIDE DEF TypeOK, LateTypeOK
  <2>2. UNCHANGED production /\ \A r \in Releases : backup[r] = None <=> backup'[r] = None
    BY <1>1, <2>1, StopKeeps
  <2> QED
    BY <2>2
<1>2. CASE CreateCandidate(o) \/ ConnectCandidate(o) \/ StartCandidate(o)
  <2>1. Retained(R) /\ R \in Releases /\ backup' = backup
    BY <1>2 DEF CreateCandidate, ConnectCandidate, StartCandidate, Start, LateHostInv, LateHolderInv
  <2> QED
    BY <2>1
<1>3. CASE RemoveCandidate(o)
  <2>1. Retained(R) /\ R \in Releases /\ backup' = backup
    BY <1>3 DEF RemoveCandidate, LateHostInv, LateHolderInv
  <2> QED
    BY <2>1
<1>4. CASE Reinstate(o)
  <2>1. CASE TakesEffect(o)
    BY <1>4, <2>1 DEF Reinstate, LateHostInv, RetainedProven
  <2>2. CASE ~TakesEffect(o)
    BY <1>4, <2>2 DEF Reinstate
  <2> QED
    BY <2>1, <2>2
<1>5. CASE StartRestored(o)
  BY <1>5 DEF StartRestored, Start
<1>6. CASE UNCHANGED containers
  BY <1>6
<1>7. \/ RetainCurrent(o) \/ StopRetained(o) \/ CreateCandidate(o) \/ ConnectCandidate(o)
      \/ StartCandidate(o) \/ RemoveCandidate(o) \/ Reinstate(o) \/ StartRestored(o)
      \/ UNCHANGED containers
  BY DEF Step, RecordRelease, ArmWatchdog, RecordDeployed, Abandon, RecordAbandoned, BeginRestore,
     RecordRestored, RecordCommitted, Disarm, StopTimer
<1> QED
  BY <1>0, <1>1, <1>2, <1>3, <1>4, <1>5, <1>6, <1>7

(* A command carried out late: an rm --force still finds its release's     *)
(* container retained.                                                     *)
LEMMA LandLeaves ==
  ASSUME LateInv, Land, ~overtaken
  PROVE  Keeps
<1> USE NoneIsApart DEF Stays, Keeps, LateInv, LateHostInv, LateCommandInv, Retained, Has
<1>1. late # None /\ late.release \in Releases /\ TypeOK
  BY DEF Land, LateTypeOK, Command
<1>2. ASSUME NEW c \in AllContainers, late.step = "retain", BecomesBackup(c, late.release)
      PROVE  Keeps
  BY <1>1, <1>2 DEF BecomesBackup, AllContainers
<1>3. ASSUME NEW c \in AllContainers, NEW d \in Container, d.image = c.image,
             c.joined => d.joined, Becomes(c.image, d)
      PROVE  Keeps
  <2>1. /\ production' = IF Has(production, c.image) THEN d ELSE production
        /\ \A r \in Releases : backup'[r] = IF Has(backup[r], c.image) THEN d ELSE backup[r]
    BY <1>3 DEF Becomes
  <2>2. Has(production, c.image) => production = c
    BY DEF AllContainers, OneOfEach
  <2> QED
    BY <1>3, <2>1, <2>2
<1>4. ASSUME NEW c \in AllContainers, c.image = late.image, late.step = "remove", Becomes(c.image, None)
      PROVE  Keeps
  <2>1. Retained(late.release) /\ \A r \in Releases : ~Has(backup[r], c.image)
    BY <1>1, <1>4 DEF AllContainers
  <2>2. backup'[late.release] = backup[late.release]
    BY <1>1, <1>4, <2>1 DEF Becomes
  <2> QED
    BY <1>1, <2>1, <2>2
<1>5. ASSUME NEW c \in AllContainers, BecomesProduction(c)
      PROVE  Keeps
  <2>1. production' = c /\ c # None /\ \E r \in Releases : c = backup[r]
    BY <1>5 DEF BecomesProduction, AllContainers
  <2> QED
    BY <2>1 DEF RetainedProven, Proven
<1>6. CASE production = None /\ UNCHANGED backup
  BY <1>6
<1>7. CASE UNCHANGED containers
  BY <1>7 DEF containers
<1>8. ASSUME NEW c \in AllContainers
      PROVE  /\ [c EXCEPT !.running = FALSE] \in Container /\ [c EXCEPT !.running = FALSE].image = c.image
             /\ [c EXCEPT !.running = FALSE].joined = c.joined
             /\ [c EXCEPT !.running = TRUE] \in Container /\ [c EXCEPT !.running = TRUE].image = c.image
             /\ [c EXCEPT !.running = TRUE].joined = c.joined
             /\ [c EXCEPT !.joined = TRUE] \in Container /\ [c EXCEPT !.joined = TRUE].image = c.image
             /\ [c EXCEPT !.joined = TRUE].joined
  <2>1. c \in Container
    BY <1>1 DEF AllContainers, TypeOK
  <2> QED
    BY <2>1
<1>9. ASSUME NEW c \in AllContainers, c.image = late.image,
             \/ Becomes(c.image, [c EXCEPT !.running = FALSE])
             \/ Becomes(c.image, [c EXCEPT !.joined = TRUE])
             \/ Becomes(c.image, [c EXCEPT !.running = TRUE])
      PROVE  Keeps
  <2> HIDE DEF Stays, Keeps, LateInv, LateHostInv, LateCommandInv, Retained, Has
  <2> QED
    BY <1>3, <1>8, <1>9
<1> HIDE DEF Stays, Keeps, LateInv, LateHostInv, LateCommandInv, Retained, Has
<1> QED
  BY <1>2, <1>4, <1>5, <1>6, <1>7, <1>9 DEF Land

(* So only a restore that has been overtaken loses the last container.     *)
LEMMA LossStep ==
  ASSUME LateInv, LateInv', [LateNext]_lateVars, ServiceRecoverable, ~overtaken
  PROVE  ServiceRecoverable'
<1> USE DEF LateInv, LateTypeOK
<1>1. ASSUME UNCHANGED <<production, backup>>
      PROVE  Keeps
  BY <1>1 DEF Keeps, Stays
<1>2. ASSUME NEW r \in Releases, Verb(r) \/ Fire(r) \/ GiveUp(r) \/ Expire(r)
      PROVE  Keeps
  BY <1>1, <1>2 DEF Verb, Deploy, Rollback, Commit, Watchdog, Acquire, Fire, GiveUp, Expire, containers
<1>3. ASSUME Decision \/ Crash PROVE Keeps
  BY <1>1, <1>3, DecisionLeads
<1>4. ASSUME NEW o \in Outcomes, StepLate(o)
      PROVE  Keeps
  BY <1>4, StepKeeps DEF StepLate
<1>5. ASSUME Linger PROVE Keeps
  BY <1>1, <1>5, FailedCommand DEF Linger
<1>6. ASSUME PowerLoss \/ UNCHANGED lateVars PROVE Keeps
  BY <1>1, <1>6 DEF PowerLoss, lateVars, vars, containers
<1>7. Keeps
  BY <1>2, <1>3, <1>4, <1>5, <1>6, LandLeaves DEF LateNext, LateSteps
<1> QED
  BY <1>7, Kept

-----------------------------------------------------------------------------
(* What the holder knows of the commit: no step but the rollback verb's    *)
(* writes a settled commit away.                                           *)
LEMMA StepCommit ==
  ASSUME LateTypeOK, LateTypeOK', CommitHeldInv, NEW o \in Outcomes, StepLate(o)
  PROVE  CommitHeldInv' /\ SettledStands
<1> USE NoneIsApart DEF LateTypeOK, TypeOK, Outcomes, TakesEffect, At, R, Docker, Save, After,
        Proceed, Exit, timers, containers, StepLate, WriteSteps, CommitHeldInv, SettledStands,
        Settled, Versions, Unbegun
<1>1. CASE RecordRelease(o)
  BY <1>1 DEF RecordRelease
<1>2. CASE ArmWatchdog(o)
  BY <1>2 DEF ArmWatchdog
<1>3. CASE RetainCurrent(o)
  BY <1>3 DEF RetainCurrent
<1>4. CASE StopRetained(o)
  BY <1>4 DEF StopRetained
<1>5. CASE CreateCandidate(o)
  BY <1>5 DEF CreateCandidate
<1>6. CASE ConnectCandidate(o)
  BY <1>6 DEF ConnectCandidate
<1>7. CASE StartCandidate(o)
  BY <1>7 DEF StartCandidate, Start
<1>8. CASE RecordDeployed(o)
  BY <1>8 DEF RecordDeployed
<1>9. CASE Abandon(o)
  BY <1>9 DEF Abandon, StopTimer
<1>10. CASE RecordAbandoned(o)
  BY <1>10 DEF RecordAbandoned
<1>11. CASE BeginRestore(o)
  BY <1>11 DEF BeginRestore
<1>12. CASE RemoveCandidate(o)
  BY <1>12 DEF RemoveCandidate
<1>13. CASE Reinstate(o)
  BY <1>13 DEF Reinstate
<1>14. CASE StartRestored(o)
  BY <1>14 DEF StartRestored, Start
<1>15. CASE RecordRestored(o)
  <2> DEFINE st == [holder.state EXCEPT !.status = "rolled_back", !.committed = FALSE]
  <2>1. holder # None /\ st \in Record /\ ~st.committed
    BY <1>15 DEF RecordRestored
  <2>2. Save(o, st, "disarm")
    BY <1>15 DEF RecordRestored
  <2>3. holder.step = "record_restored"
    BY <1>15 DEF RecordRestored
  <2> HIDE DEF st, LateTypeOK, TypeOK, Save, StepLate
  <2>4. R \in Releases
    BY <2>1 DEF LateTypeOK, TypeOK
  <2>5. /\ \A r \in Releases \ {R} : Versions(r)' \subseteq Versions(r)
        /\ \A r \in Releases : Versions(r)' \subseteq Versions(r) \cup {st}
        /\ holder' # None => holder'.step = "disarm" /\ holder'.release = R /\ holder'.state = st
        /\ holder' # None => holder'.verb = holder.verb /\ disk'[R] = st /\ Versions(R)' = {st}
    <3> HIDE DEF Versions, CommitHeldInv
    <3> QED
      BY <2>1, <2>2, <2>3, <2>4, SaveKeeps
  <2>6. disk[R] \in Versions(R)
    OBVIOUS
  <2> HIDE DEF Versions
  <2>7. CommitHeldInv'
    BY <2>1, <2>3, <2>4, <2>5
  <2>8. SettledStands
    BY <2>1, <2>3, <2>4, <2>5, <2>6
  <2> QED
    BY <2>7, <2>8
<1>16. CASE RecordCommitted(o)
  <2> DEFINE st == [holder.state EXCEPT !.status = "committed", !.committed = TRUE]
  <2>1. holder # None /\ st \in Record /\ st.committed
    BY <1>16 DEF RecordCommitted
  <2>2. Save(o, st, "disarm")
    BY <1>16 DEF RecordCommitted
  <2>3. holder.step = "record_committed"
    BY <1>16 DEF RecordCommitted
  <2> HIDE DEF st, LateTypeOK, TypeOK, Save, StepLate
  <2>4. R \in Releases
    BY <2>1 DEF LateTypeOK, TypeOK
  <2>5. /\ \A r \in Releases \ {R} : Versions(r)' \subseteq Versions(r)
        /\ \A r \in Releases : Versions(r)' \subseteq Versions(r) \cup {st}
        /\ holder' # None => holder'.step = "disarm" /\ holder'.release = R /\ holder'.state = st
        /\ holder' # None => holder'.verb = holder.verb /\ disk'[R] = st /\ Versions(R)' = {st}
    <3> HIDE DEF Versions, CommitHeldInv
    <3> QED
      BY <2>1, <2>2, <2>3, <2>4, SaveKeeps
  <2>6. disk[R] \in Versions(R)
    OBVIOUS
  <2> HIDE DEF Versions
  <2>7. CommitHeldInv'
    BY <2>1, <2>3, <2>4, <2>5
  <2>8. SettledStands
    BY <2>1, <2>3, <2>4, <2>5, <2>6
  <2> QED
    BY <2>7, <2>8
<1>17. CASE Disarm(o)
  BY <1>17 DEF Disarm, StopTimer
<1> QED
  BY <1>1, <1>2, <1>3, <1>4, <1>5, <1>6, <1>7, <1>8, <1>9, <1>10, <1>11, <1>12, <1>13, <1>14, <1>15, <1>16, <1>17 DEF Step

(* Whatever leaves the records alone leaves settled commits alone.         *)
LEMMA CommitKept ==
  ASSUME CommitHeldInv, UNCHANGED <<disk, older>>,
         \/ holder' = None \/ UNCHANGED holder
         \/ /\ holder # None /\ holder' # None
            /\ holder'.release = R /\ holder'.state = holder.state /\ holder'.verb = holder.verb
            /\ holder.verb # "commit"
            /\ \/ holder.step \in CutoverSteps \cup {"recover"}
                  /\ holder'.step \in {"record_deployed", "recover", "restore", "abandon"}
               \/ holder.step \in RestoreSteps /\ holder'.step \in RestoreSteps
  PROVE  CommitHeldInv' /\ SettledStands
<1> QED
  BY DEF CommitHeldInv, SettledStands, Settled, Versions, Unbegun, At, R

(* A verb that takes the lock loads what the disk says of the commit.      *)
LEMMA VerbCommit ==
  ASSUME CommitHeldInv, LateTypeOK, NEW r \in Releases, Verb(r), UNCHANGED <<late, older>>
  PROVE  CommitHeldInv' /\ SettledStands
<1> USE NoneIsApart DEF CommitHeldInv, SettledStands, Settled, Versions, Unbegun, At, R, LateTypeOK,
        TypeOK, Acquire
<1>1. CASE Deploy(r)
  BY <1>1 DEF Deploy, preflight, Serving
<1>2. CASE Rollback(r)
  BY <1>2 DEF Rollback
<1>3. CASE Commit(r)
  BY <1>3 DEF Commit
<1>4. ASSUME NEW healthy \in BOOLEAN, Watchdog(r, healthy)
      PROVE  CommitHeldInv' /\ SettledStands
  BY <1>4 DEF Watchdog, watchdog_decision
<1> QED
  BY <1>1, <1>2, <1>3, <1>4 DEF Verb

(* Every step keeps what the holder knows of the commit.                   *)
LEMMA NextCommit ==
  ASSUME LateTypeOK, LateTypeOK', CommitHeldInv, [LateNext]_lateVars
  PROVE  CommitHeldInv' /\ SettledStands
<1> USE DEF LateTypeOK
<1>1. CASE (Decision \/ Crash) /\ UNCHANGED <<late, older>>
  BY <1>1, DecisionLeads, CommitKept DEF Leads, CommitHeldInv
<1>2. ASSUME NEW r \in Releases, Verb(r), UNCHANGED <<late, older>>
      PROVE  CommitHeldInv' /\ SettledStands
  BY <1>2, VerbCommit
<1>3. ASSUME NEW r \in Releases, Fire(r) \/ GiveUp(r) \/ Expire(r), UNCHANGED <<late, older>>
      PROVE  CommitHeldInv' /\ SettledStands
  BY <1>3, CommitKept DEF Fire, GiveUp, Expire
<1>4. ASSUME NEW o \in Outcomes, StepLate(o)
      PROVE  CommitHeldInv' /\ SettledStands
  BY <1>4, StepCommit
<1>5. CASE Linger
  BY <1>5, FailedCommand, CommitKept DEF Linger, CommitHeldInv
<1>6. CASE Land \/ UNCHANGED lateVars
  BY <1>6, CommitKept DEF Land, lateVars, vars
<1>7. CASE PowerLoss
  <2>1. \A r \in Releases : Versions(r)' \subseteq Versions(r)
    BY <1>7 DEF TypeOK, PowerLoss, Versions
  <2>2. holder # None => R \in Releases
    BY DEF TypeOK, R
  <2> QED
    BY <1>7, <2>1, <2>2 DEF PowerLoss, CommitHeldInv, SettledStands, Settled, At
<1> QED
  BY <1>1, <1>2, <1>3, <1>4, <1>5, <1>6, <1>7 DEF LateNext, LateSteps

(* So it holds throughout.                                                 *)
LEMMA CommitHeldAlways == LateSpec => [](LateTypeOK /\ CommitHeldInv)
<1>1. LateInit => CommitHeldInv
  BY DEF LateInit, Init, CommitHeldInv
<1>2. LateInv => LateTypeOK
  BY DEF LateInv
<1>3. LateTypeOK /\ LateTypeOK' /\ CommitHeldInv /\ [LateNext]_lateVars => CommitHeldInv'
  BY NextCommit
<1> QED
  BY <1>1, <1>2, <1>3, LateInvAlways, PTL DEF LateSpec

-----------------------------------------------------------------------------
(* Type correctness: what the daemon still has to carry out stays a docker *)
(* command about a container of the service, and what a power loss brings  *)
(* back stays a record or nothing.                                         *)
THEOREM LateTypeCorrect == LateSpec => []LateTypeOK
<1>1. LateInv => LateTypeOK
  BY DEF LateInv
<1> QED
  BY <1>1, LateInvAlways, PTL

(* The inductive invariant holds throughout, for any set of releases, with *)
(* or without failing inspections.                                         *)
THEOREM LateInductive == LateSpec => []LateInductiveInv
<1>1. LateInv /\ CommitHeldInv => LateInductiveInv
  BY DEF LateInv, LateInductiveInv
<1> QED
  BY <1>1, LateInvAlways, CommitHeldAlways, PTL

(* A commit that was reported stands: no watchdog, no late command and no  *)
(* power loss takes it back, whatever inspections fail and whichever verbs *)
(* of any releases overlap; only the rollback verb does.                   *)
THEOREM LateCommitStands == LateSpec => ReportedCommitStands
<1>1. LateTypeOK /\ LateTypeOK' /\ CommitHeldInv /\ [LateNext]_lateVars => [SettledStands]_lateVars
  BY NextCommit
<1> QED
  BY <1>1, CommitHeldAlways, PTL DEF LateSpec, ReportedCommitStands

(* A container that can serve is left even when docker commands that the   *)
(* broker gave up on are carried out later, inspections fail, the power    *)
(* goes and takes records back, and the verbs of any releases overlap: the *)
(* one way to lose it is the rm --force of a restore that the rename of an *)
(* earlier one has overtaken.                                              *)
THEOREM LateLossOnlyIfOvertaken == LateSpec => LossOnlyIfOvertaken
<1>1. LateInv /\ LateInv' /\ [LateNext]_lateVars =>
        [ServiceRecoverable /\ ~ServiceRecoverable' => overtaken]_lateVars
  BY LossStep DEF LateInv, LateTypeOK
<1> QED
  BY <1>1, LateInvAlways, PTL DEF LateSpec, LossOnlyIfOvertaken

(* On the same host, a release recorded as deployed or committed can still *)
(* be rolled back, whichever version of its record the power left.         *)
THEOREM LateRollbackTarget == LateSpec => []RollbackTargetRetained
<1>1. LateInv => RollbackTargetRetained
  BY DEF LateInv, LateHostInv, VersionsInv, Versions, Delivered, Retained,
     RollbackTargetRetained, Recorded
<1> QED
  BY <1>1, LateInvAlways, PTL

(* And a record on its own, left by a first write that reported an error   *)
(* or brought back by a power loss, stands for no container.               *)
THEOREM LateStrandedRecord == LateSpec => []StrandedRecordIsHarmless
<1>1. LateInv => StrandedRecordIsHarmless
  BY DEF LateInv, LateHostInv, VersionsInv, Versions, Unbegun, Preparing,
     StrandedRecordIsHarmless, Recorded
<1> QED
  BY <1>1, LateInvAlways, PTL

-----------------------------------------------------------------------------
(* The holder's copy of the record and the record on disk.  The containers *)
(* and the commit in HeldRecordInv are those of LateHolderInv and          *)
(* CommitHeldInv.                                                          *)
CopyInv ==
  holder # None =>
    /\ IF holder.step = "record" THEN disk[R] = None
       ELSE disk[R] # None /\ disk[R].old_image = holder.state.old_image
    /\ holder.step \in {"record"} \cup CutoverSteps => holder.state.status = "preparing"
    /\ holder.step \in CutoverSteps => disk[R] = holder.state
    /\ holder.step \in {"check", "remove", "reinstate"} => disk[R].status = "restoring"

(* A write of the record that goes on leaves the copy and the disk alike.  *)
LEMMA SaveCopies ==
  ASSUME TypeOK, NEW o \in Outcomes, NEW st \in Record, NEW next \in Steps \cup {"exit"},
         Save(o, st, next), holder # None, holder.step \notin CutoverSteps
  PROVE  holder' # None =>
           disk'[R] = st /\ holder'.state = st /\ holder'.step = next /\ holder'.release = R
<1> SUFFICES ASSUME holder' # None
             PROVE  disk'[R] = st /\ holder'.state = st /\ holder'.step = next /\ holder'.release = R
  OBVIOUS
<1>1. o = "ok" /\ holder' = [holder EXCEPT !.step = next, !.state = st]
  BY DEF Save, After, Proceed
<1>2. disk' = [disk EXCEPT ![R] = st] /\ R \in Releases
  BY <1>1 DEF Save, TakesEffect, TypeOK, R
<1> QED
  BY <1>1, <1>2 DEF TypeOK, R

(* An effect of the verb that holds the lock.                              *)
LEMMA StepCopy ==
  ASSUME TypeOK, CopyInv, NEW o \in Outcomes, Step(o)
  PROVE  CopyInv'
<1> USE NoneIsApart DEF TypeOK, Outcomes, TakesEffect, At, R, Docker, Save, After, Proceed, Exit,
        timers, containers, CopyInv
<1>1. CASE RecordRelease(o)
  BY <1>1 DEF RecordRelease
<1>2. CASE ArmWatchdog(o)
  BY <1>2 DEF ArmWatchdog
<1>3. CASE RetainCurrent(o)
  BY <1>3 DEF RetainCurrent
<1>4. CASE StopRetained(o)
  <2>1. TypeOK /\ holder # None
    BY <1>4 DEF StopRetained
  <2> HIDE DEF TypeOK
  <2> QED
    BY <1>4, <2>1, StopKeeps
<1>5. CASE CreateCandidate(o)
  BY <1>5 DEF CreateCandidate
<1>6. CASE ConnectCandidate(o)
  BY <1>6 DEF ConnectCandidate
<1>7. CASE StartCandidate(o)
  BY <1>7 DEF StartCandidate, Start
<1>8. CASE RecordDeployed(o)
  BY <1>8 DEF RecordDeployed
<1>9. CASE Abandon(o)
  BY <1>9 DEF Abandon, StopTimer
<1>10. CASE RecordAbandoned(o)
  BY <1>10 DEF RecordAbandoned
<1>11. CASE BeginRestore(o)
  <2> DEFINE st == [holder.state EXCEPT !.status = "restoring"]
  <2>1. holder # None /\ st \in Record /\ st.status = "restoring" /\ holder.step = "restore"
    BY <1>11 DEF BeginRestore
  <2>2. Save(o, st, "check")
    BY <1>11 DEF BeginRestore
  <2> HIDE DEF st, TypeOK, Save
  <2> QED
    BY <2>1, <2>2, SaveCopies
<1>12. CASE RemoveCandidate(o)
  BY <1>12 DEF RemoveCandidate
<1>13. CASE Reinstate(o)
  BY <1>13 DEF Reinstate
<1>14. CASE StartRestored(o)
  BY <1>14 DEF StartRestored, Start
<1>15. CASE RecordRestored(o)
  <2> DEFINE st == [holder.state EXCEPT !.status = "rolled_back", !.committed = FALSE]
  <2>1. holder # None /\ st \in Record /\ holder.step = "record_restored" /\ Save(o, st, "disarm")
    BY <1>15 DEF RecordRestored
  <2> HIDE DEF st, TypeOK, Save
  <2> QED
    BY <2>1, SaveCopies
<1>16. CASE RecordCommitted(o)
  <2> DEFINE st == [holder.state EXCEPT !.status = "committed", !.committed = TRUE]
  <2>1. holder # None /\ st \in Record /\ holder.step = "record_committed" /\ Save(o, st, "disarm")
    BY <1>16 DEF RecordCommitted
  <2> HIDE DEF st, TypeOK, Save
  <2> QED
    BY <2>1, SaveCopies
<1>17. CASE Disarm(o)
  BY <1>17 DEF Disarm, StopTimer
<1> QED
  BY <1>1, <1>2, <1>3, <1>4, <1>5, <1>6, <1>7, <1>8, <1>9, <1>10, <1>11, <1>12, <1>13, <1>14, <1>15, <1>16, <1>17 DEF Step

(* A verb that takes the lock loads the record, or makes the first one.    *)
LEMMA VerbCopy ==
  ASSUME TypeOK, CopyInv, NEW r \in Releases, Verb(r)
  PROVE  CopyInv'
<1> USE NoneIsApart DEF TypeOK, CopyInv, R, Acquire
<1>1. CASE Deploy(r)
  BY <1>1 DEF Deploy
<1>2. CASE Rollback(r)
  BY <1>2 DEF Rollback
<1>3. CASE Commit(r)
  BY <1>3 DEF Commit
<1>4. ASSUME NEW healthy \in BOOLEAN, Watchdog(r, healthy)
      PROVE  CopyInv'
  BY <1>4 DEF Watchdog, watchdog_decision
<1> QED
  BY <1>1, <1>2, <1>3, <1>4 DEF Verb

(* Every step keeps copy and disk alike.                                   *)
LEMMA NextCopy ==
  ASSUME TypeOK, CopyInv, [LateNext]_lateVars
  PROVE  CopyInv'
<1>1. CASE Decision \/ Crash
  BY <1>1, DecisionLeads DEF Leads, CopyInv, R
<1>2. ASSUME NEW r \in Releases, Fire(r) \/ GiveUp(r) \/ Expire(r)
      PROVE  CopyInv'
  BY <1>2 DEF Fire, GiveUp, Expire, CopyInv, R
<1>3. CASE Linger
  <2>1. Step("failed") => CopyInv'
    BY StepCopy DEF Outcomes
  <2> QED
    BY <1>1, <1>3, <2>1 DEF Linger
<1>4. CASE Land \/ PowerLoss \/ UNCHANGED lateVars
  BY <1>4 DEF Land, PowerLoss, lateVars, vars, CopyInv, R
<1> QED
  BY <1>1, <1>2, <1>3, <1>4, StepCopy, VerbCopy DEF LateNext, LateSteps, StepLate

(* What the holder of the lock believes of its record stays true on a late *)
(* host: no power loss and no late command changes it behind its back.     *)
THEOREM LateHeldRecord == LateSpec => []HeldRecordInv
<1>1. LateInit => CopyInv
  BY DEF LateInit, Init, CopyInv
<1>2. LateInv /\ CopyInv /\ [LateNext]_lateVars => CopyInv'
  BY NextCopy DEF LateInv, LateTypeOK
<1>3. LateInv /\ CommitHeldInv /\ CopyInv => HeldRecordInv
  BY DEF LateInv, LateHostInv, LateHolderInv, CommitHeldInv, CopyInv, HeldRecordInv, Delivered, R,
     Unbegun, Versions
<1> QED
  BY <1>1, <1>2, <1>3, LateInvAlways, CommitHeldAlways, PTL DEF LateSpec

=============================================================================
