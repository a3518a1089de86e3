----------------------- MODULE DeployBrokerProperties -----------------------
(***************************************************************************)
(* What the deploy broker must guarantee.                                  *)
(***************************************************************************)
EXTENDS DeployBroker

Recorded(r, statuses) == disk[r] # None /\ disk[r].status \in statuses
Committed(r) == disk[r] # None /\ disk[r].committed

-----------------------------------------------------------------------------
(* Safety: for any releases, in any overlap of their verbs.                *)

(* As long as a release's old container is retained and the release is not *)
(* committed, its rollback timer is enabled and running: the timer is      *)
(* armed before the first rename (deploy) and disarmed only when nothing   *)
(* is left to roll back (stop_timer's three callers).                      *)
WatchdogArmed ==
  \A r \in Releases :
    backup[r] # None /\ ~Committed(r) => r \in enabled /\ r \in active

(* A release that counts as deployed or committed can be rolled back: its  *)
(* retained container exists and is the image the record names, which      *)
(* rollback_locked checks before it removes anything.                      *)
RollbackTargetRetained ==
  \A r \in Releases :
    Recorded(r, {"deployed", "committed"}) =>
      backup[r] # None /\ backup[r].image = disk[r].old_image

(* Whatever fails and wherever a process dies, some container that once    *)
(* passed the health and topology gates still exists: rm --force never     *)
(* reaches the last of them.                                               *)
ServiceRecoverable ==
  \E c \in AllContainers : c.joined /\ c.image \notin Unfit

(* When nothing listens on the port and nobody holds the lock, some        *)
(* release in the middle of its cutover explains it, and its watchdog is   *)
(* armed, unless it is the rollback of a release already committed.        *)
OutageIsWatched ==
  ~PortTaken /\ holder = None =>
    \E r \in Releases :
      /\ Recorded(r, {"preparing", "deployed", "restoring"})
      /\ Committed(r) \/ r \in enabled \cap active

-----------------------------------------------------------------------------
(* What a step may never do.                                               *)

Written(r, status) == disk'[r] # disk[r] /\ disk'[r].status = status

(* A record is written only when the containers bear it out: "deployed"    *)
(* and "committed" while that release serves, "rolled_back" while the old  *)
(* image serves, "restoring" while the old container is retained,          *)
(* "failed_pre_cutover" while none is and production still exists.         *)
BornOut ==
  \A r \in Releases :
    /\ Written(r, "deployed") \/ Written(r, "committed") =>
         Serving(production) /\ production.image = r
    /\ Written(r, "rolled_back") =>
         Serving(production) /\ production.image = disk'[r].old_image
    /\ Written(r, "restoring") =>
         backup[r] # None /\ backup[r].image = disk'[r].old_image
    /\ Written(r, "failed_pre_cutover") =>
         backup[r] = None /\ production # None
RecordsBornOut == [][BornOut]_vars

(* Only the rollback verb undoes a commit: a watchdog that was queued on   *)
(* the lock while the commit was written must see it.                      *)
CommitRespected ==
  \A r \in Releases :
    Committed(r) /\ disk'[r] # disk[r] =>
      \/ disk'[r].committed /\ disk'[r].status = "committed"
      \/ holder.verb = "rollback"
OnlyRollbackUndoesCommit == [][CommitRespected]_vars

Retained(r) == backup[r] # None

(* A restore that has begun can be gone on with: the container that it is  *)
(* to put back is still retained, or is production already, so that no     *)
(* retry of a rollback or a watchdog is refused (500-503), not even of the *)
(* rollback of a committed release, which nothing retries by itself.  It   *)
(* takes that no two releases are in the middle of a cutover.              *)
RestoreCanResume ==
  \A r \in Releases :
    Recorded(r, {"restoring"}) =>
      \/ Retained(r) /\ backup[r].image = disk[r].old_image
      \/ production # None /\ production.image = disk[r].old_image

Successors ==
  [preparing          |-> {"deployed", "restoring", "failed_pre_cutover"},
   deployed           |-> {"committed", "restoring"},
   committed          |-> {"restoring"},
   restoring          |-> {"rolled_back"},
   rolled_back        |-> {"failed_pre_cutover"},
   failed_pre_cutover |-> {}]

(* The record of a release only moves forward through its life, whichever  *)
(* verbs race for the lock and wherever they die; above all, a restore     *)
(* that has begun ends as rolled_back and as nothing else.                 *)
MovesForward ==
  \A r \in Releases :
    disk'[r] # disk[r] =>
      IF disk[r] = None THEN disk'[r].status = "preparing"
      ELSE disk'[r].status \in Successors[disk[r].status]
Lifecycle == [][MovesForward]_vars

-----------------------------------------------------------------------------
(* What the documentation says, and the code does not do.                  *)

(* "Until that commit exists, a failed health probe or the ten-minute      *)
(* deadline restores the retained container automatically": once a release *)
(* is committed, no watchdog removes the container that serves it.         *)
NoAutomaticRestoreAfterCommit == [][
  \A r \in Releases :
    Recorded(r, {"committed"}) /\ production # None /\ production.image = r /\ production' = None
      => holder.verb # "watchdog"
  ]_vars

(* "Failed restores leave the timer enabled for retry": a restore that has *)
(* begun and is in nobody's hands has its timer.                           *)
FailedRestoreKeepsTimer ==
  \A r \in Releases :
    Recorded(r, {"restoring"}) /\ holder = None => r \in enabled

(* The rollback "records success": a release once recorded as rolled back  *)
(* stays so recorded.                                                      *)
RolledBackIsFinal == [][
  \A r \in Releases :
    Recorded(r, {"rolled_back"}) => disk'[r].status = "rolled_back"
  ]_vars

-----------------------------------------------------------------------------
(* The inductive invariants behind them.                                   *)

Armed(r) == r \in enabled /\ r \in active

(* The container once passed the gates: it can serve again once started.   *)
Proven(c) == c.joined /\ c.image \notin Unfit

(* What the steps know of the containers, and that a proven one is left.   *)
ContainersInv ==
  /\ \A r \in Releases : Retained(r) => Proven(backup[r])
  /\ (\E r \in Releases : Retained(r)) \/ (production # None /\ Proven(production))
  /\ holder # None =>
       /\ holder.step \in {"record", "arm", "retain"} => Serving(production)
       /\ holder.step \in {"quiesce", "create", "connect", "start",
                           "check", "remove", "reinstate"} => Retained(R)
       /\ holder.step \in {"connect", "start", "gate"} =>
            production # None /\ production.image = R
       /\ holder.step \in {"record_deployed", "record_committed"} =>
            Serving(production) /\ production.image = R
       /\ holder.step = "record_restored" =>
            Serving(production) /\ production.image = holder.state.old_image
       /\ holder.step \in {"abandon", "record_abandoned"} => production # None

(* What the lock holder knows of its release's record, whatever "docker    *)
(* inspect" says: it has loaded or written it, and nobody else writes it.  *)
HeldRecordInv ==
  holder # None =>
    LET d == disk[R]
        m == holder.state
        At_(S) == holder.step \in S
    IN
    /\ IF At_({"record"}) THEN d = None
       ELSE d # None /\ d.old_image = m.old_image /\ d.committed = m.committed
    /\ At_({"record"} \cup CutoverSteps) => m.status = "preparing"
    /\ At_(CutoverSteps) => d = m
    /\ At_({"record", "arm", "retain"}) => production.image = m.old_image
    /\ At_(CutoverSteps \ {"arm", "retain"}) =>
         Retained(R) /\ backup[R].image = m.old_image
    /\ At_({"record", "recover", "abandon", "record_abandoned"} \cup CutoverSteps) =>
         ~m.committed
    /\ At_(RestoreSteps) /\ m.committed => holder.verb = "rollback"
    /\ At_({"check", "remove", "reinstate"}) => d.status = "restoring"
    /\ At_({"record_committed"}) => d = m /\ m.status \in {"deployed", "committed"}

(* What a record on disk says of the retained container and the timer.     *)
RecordsInv ==
  \A r \in Releases :
    /\ Retained(r) =>
         /\ Recorded(r, {"preparing", "deployed", "committed", "restoring"})
         /\ backup[r].image = disk[r].old_image
         /\ disk[r].committed \/ Armed(r)
    /\ Recorded(r, {"deployed", "committed"}) => Retained(r)
    /\ Committed(r) => Recorded(r, {"committed", "restoring"})
    /\ Recorded(r, {"committed"}) => Committed(r)

(* How far the copy of the record that the lock holder works on may be     *)
(* ahead of the disk, step by step.                                        *)
HolderInv ==
  holder # None =>
    LET d == disk[R]
        m == holder.state
        At_(S) == holder.step \in S
    IN
    /\ At_({"record"}) => d = None
    /\ At_({"record"} \cup CutoverSteps) => m.status = "preparing" /\ ~m.committed
    /\ At_(CutoverSteps) => d = m
    /\ At_({"record", "arm", "retain", "abandon", "record_abandoned",
            "restart", "restore_gate", "record_restored"}) => ~Retained(R)
    /\ At_({"record", "arm", "retain"}) => production.image = m.old_image
    /\ At_({"retain"}) => Armed(R)
    /\ At_((CutoverSteps \ {"arm", "retain"}) \cup {"check", "remove", "reinstate"}) =>
         Retained(R)
    /\ At_({"recover", "abandon", "record_abandoned"} \cup RestoreSteps) =>
         /\ d # None
         /\ d.old_image = m.old_image
         /\ d.committed = m.committed
         /\ m.committed => holder.verb = "rollback"
         /\ d.status = "restoring" <=> m.status = "restoring"
    /\ At_({"recover", "abandon", "record_abandoned"}) => ~m.committed
    /\ At_({"abandon", "record_abandoned"}) => m.status # "restoring"
    /\ At_(RestoreSteps \ {"restore"}) => m.status = "restoring"
    /\ At_({"record_committed"}) => d = m /\ m.status \in {"deployed", "committed"}
    /\ At_({"disarm"}) =>
         d # None /\ (d.committed \/ (~Retained(R) /\ d.status # "restoring"))

(* A release that accounts for a port on which nothing listens.            *)
Responsible(r) ==
  \/ Recorded(r, {"restoring"})
  \/ Retained(r) /\ Recorded(r, {"preparing", "deployed"})

(* Somebody does, at any step, and a restore begun is not left unwatched.  *)
OutageInv ==
  /\ ~PortTaken => \E r \in Releases : Responsible(r)
  /\ \A r \in Releases : Recorded(r, {"restoring"}) /\ ~Committed(r) => Armed(r)

InductiveInv == ContainersInv /\ RecordsInv /\ HolderInv /\ OutageInv

-----------------------------------------------------------------------------
(* Liveness: a process that holds the lock goes on (every command it runs  *)
(* has a time limit), systemd fires a running timer (OnUnitActiveSec=10s), *)
(* a waiting watchdog is granted the lock, and the deadline passes.        *)
(* Nobody is bound to commit, to roll back or to deploy.                   *)

(* A step that Docker, systemd, the disk and the host leave undisturbed: a *)
(* command that can succeed does, stop_timer does stop the timer, a sound  *)
(* restored container passes its gate.  A candidate may still fail its own. *)
Undisturbed ==
  \/ \E r \in Releases : Verb(r) \/ Fire(r) \/ Expire(r)
  \/ Step("ok") /\ (At("abandon") \/ At("disarm") => R \notin enabled' \cup active')
  \/ Step("failed") /\ ~ENABLED Step("ok")
  \/ \E ok \in BOOLEAN : CandidateGate(ok) \/ Recover(ok) \/ CheckProduction(ok)
  \/ ResumeRestore \/ RefuseRestore
  \/ RestoreGate(Serving(production) /\ production.image = holder.state.old_image)

Fairness ==
  /\ WF_vars(Step("ok") \/ Step("failed") \/ Decision)
  /\ \A r \in Releases :
       /\ WF_vars(Fire(r))
       /\ WF_vars(Expire(r))
       /\ SF_vars(\E healthy \in BOOLEAN : Watchdog(r, healthy))

(* Faults are transient: each may happen any number of times, anywhere, but *)
(* from some point on every step is undisturbed.                           *)
FairSpec == Spec /\ Fairness /\ <>[][Undisturbed]_vars

(* An uncommitted cutover does not stay open: it is committed, or the      *)
(* watchdog puts the retained container back and the old image serves.     *)
CutoverSettles ==
  \A r \in Releases :
    backup[r] # None /\ ~Committed(r) ~>
      Committed(r) \/ (backup[r] = None /\ Serving(production))

(* A running timer does not run forever, whatever the end of its release: *)
(* even one whose stop_timer was lost is disarmed by a later run.          *)
WatchdogRetires == \A r \in Releases : r \in active ~> r \notin enabled \cup active

(* An outage of an uncommitted release is repaired without an operator.    *)
OutageRepaired ==
  \A r \in Releases :
    ~Serving(production) /\ r \in enabled \cap active /\ ~Committed(r) ~>
      Serving(production)
=============================================================================
