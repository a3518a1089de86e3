--------------------- MODULE DeployBrokerLateProperties ---------------------
(***************************************************************************)
(* What survives a late host, and the inductive invariant behind it.       *)
(***************************************************************************)
EXTENDS DeployBrokerLate

Has(c, image) == c # None /\ c.image = image
Gone(image) == ~Has(production, image) /\ \A r \in Releases : ~Has(backup[r], image)

(* The records that r may have after a power loss.                         *)
Versions(r) == {disk[r]} \cup older[r]
Unbegun(r) == None \in Versions(r)
Delivered(d) == d # None /\ d.status \in {"deployed", "committed"}
Preparing(d) == d # None /\ d.status = "preparing"

OneOfEach ==
  \A r \in Releases : Retained(r) =>
    /\ ~Has(production, backup[r].image)
    /\ \A q \in Releases \ {r} : ~Has(backup[q], backup[r].image)

RetainedProven == \A r \in Releases : Retained(r) => Proven(backup[r])

VersionsInv ==
  \A r \in Releases :
    /\ \A d \in Versions(r) :
         /\ Delivered(d) => Retained(r) /\ backup[r].image = d.old_image
         /\ Preparing(d) => Retained(r) \/ Gone(r)
    /\ Unbegun(r) =>
         /\ Gone(r) /\ ~Retained(r)
         /\ \A d \in Versions(r) : d # None => d.status \in {"preparing", "failed_pre_cutover"}

(* A release that was never recorded, or is recorded as being prepared and *)
(* retains nothing, has left no container: a first write that reported an  *)
(* error and took effect strands a record and nothing else, even if power  *)
(* losses bring older records back (deploy writes the record before the    *)
(* first command, rollback_locked marks the restore before it undoes one). *)
StrandedRecordIsHarmless ==
  \A r \in Releases :
    disk[r] = None \/ (Recorded(r, {"preparing"}) /\ ~Retained(r)) => Gone(r)

LateHolderInv ==
  holder # None =>
    LET At_(S) == holder.step \in S
        m == holder.state
    IN
    /\ At_({"record"} \cup CutoverSteps) => late = None
    /\ late # None => late.release = R
    /\ At_({"record"}) => disk[R] = None /\ m.status = "preparing"
    /\ At_(CutoverSteps) => ~Unbegun(R)
    /\ At_({"record", "arm", "retain"}) =>
         Serving(production) /\ production.image = m.old_image /\ ~Retained(R)
    /\ At_({"record", "arm", "retain", "quiesce", "create"}) => Gone(R)
    /\ At_(CutoverSteps \ {"arm", "retain"}) =>
         Retained(R) /\ backup[R].image = m.old_image
    /\ At_({"check", "remove"}) => Retained(R) \/ (overtaken /\ late = None)
    /\ At_({"remove"}) /\ late # None /\ late.step = "reinstate" => production # None
    /\ At_({"check", "remove", "reinstate"}) =>
         \A d \in Versions(R) : ~Delivered(d) /\ ~Preparing(d)
    /\ At_({"record_committed"}) => disk[R] = m /\ Delivered(m)
    /\ Unbegun(R) =>
         /\ At_({"record", "recover", "restore", "abandon", "record_abandoned", "disarm"})
         /\ m.status \in {"preparing", "failed_pre_cutover"}

LateCommandInv ==
  late # None =>
    /\ ~Unbegun(late.release)
    /\ late.step = "retain" =>
         Has(production, late.image) /\ Proven(production) /\ ~Retained(late.release)
    /\ late.step = "remove" =>
         /\ \A q \in Releases : ~Has(backup[q], late.image)
         /\ Has(production, late.image) => Retained(late.release) \/ overtaken
    /\ late.step = "reinstate" =>
         /\ \A d \in Versions(late.release) : ~Delivered(d) /\ ~Preparing(d)
         /\ \A q \in Releases \ {late.release} : ~Has(backup[q], late.image)
    /\ late.step = "create" =>
         /\ late.image = late.release /\ Gone(late.image)
         /\ \A d \in Versions(late.release) : Preparing(d) => Retained(late.release)

LateHostInv == OneOfEach /\ RetainedProven /\ VersionsInv /\ LateHolderInv /\ LateCommandInv

-----------------------------------------------------------------------------
(* The last container that can serve is removed only by the rm --force of  *)
(* a restore (llm_proxy_deploy.py:507) that a late rename has overtaken:   *)
(* the container it finds in production at line 506 is then the one it     *)
(* found retained at line 500.  Nothing else takes it, neither a retry nor *)
(* a command carried out late, whatever inspections fail.                  *)
LossOnlyIfOvertaken == [][ServiceRecoverable /\ ~ServiceRecoverable' => overtaken]_lateVars

(* No version of the record that a power loss may find is without commit.  *)
Settled(r) == \A d \in Versions(r) : d # None /\ d.committed

(* A commit that has been reported is on the disk for good: commit answers *)
(* only when it is settled, and what is settled only the rollback verb     *)
(* undoes, not a watchdog that has waited for the lock, nor a power loss.  *)
SettledStands ==
  /\ At("disarm") /\ holder.verb = "commit" => Settled(R)
  /\ \A r \in Releases : Settled(r) /\ ~Settled(r)' =>
       holder # None /\ holder.verb = "rollback"
ReportedCommitStands == [][SettledStands]_lateVars

(* What the lock holder's copy of the record says of the commit.           *)
CommitHeldInv ==
  holder # None =>
    LET m == holder.state IN
    /\ holder.step # "record" => disk[R] # None /\ disk[R].committed = m.committed
    /\ holder.step \in {"record", "recover", "abandon", "record_abandoned"} \cup CutoverSteps =>
         ~m.committed
    /\ holder.step = "record" => Unbegun(R)
    /\ holder.step \in RestoreSteps /\ m.committed => holder.verb = "rollback"
    /\ holder.verb = "commit" => holder.step \in {"record_committed", "disarm"}
    /\ holder.verb = "commit" /\ holder.step = "disarm" => Settled(R)

LateInductiveInv == LateHostInv /\ CommitHeldInv
=============================================================================
