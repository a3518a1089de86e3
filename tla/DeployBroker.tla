---------------------------- MODULE DeployBroker ----------------------------
(***************************************************************************)
(* The root-owned deploy broker (deploy/llm_proxy_deploy.py), the Docker   *)
(* containers and systemd rollback timers it drives, and the release       *)
(* records it keeps on disk.                                               *)
(*                                                                         *)
(* Every verb runs under one exclusive file lock.  One action is one       *)
(* effect of the verb that holds it (a docker or systemctl command, or an  *)
(* atomic write of the release record) together with the reads that        *)
(* precede it since the last effect, or one decision on what has been      *)
(* read, so that a failure, the death of the process or a reboot can fall  *)
(* between any two effects, and between an effect and what is read next.   *)
(***************************************************************************)

CONSTANTS
  Releases,      \* the releases that may be dispatched; each is also its image
  Original,      \* the image production runs before the first of them
  Unfit,         \* the images whose containers never pass a health probe
  InspectFaults, \* may "docker inspect" fail on a container that exists?
  None           \* no container, no release record, nobody holding the lock

Images == Releases \cup {Original}

(* A container: its image, whether it runs, whether it is on both networks *)
Container == [image: Images, running: BOOLEAN, joined: BOOLEAN]

Status == {"preparing", "deployed", "committed",
           "restoring", "rolled_back", "failed_pre_cutover"}

(* What the broker decides on in RELEASES_ROOT/<sha>.json; "committed" is  *)
(* a field of its own there too, it is not derived from "status".          *)
Record == [status: Status, committed: BOOLEAN, old_image: Images]

(* The next effect of the verb that holds the lock *)
CutoverSteps == {"arm", "retain", "quiesce", "create", "connect", "start",
                 "gate", "record_deployed"}
RestoreSteps == {"restore", "check", "remove", "reinstate", "restart",
                 "restore_gate", "record_restored"}
Steps == {"record", "recover", "abandon", "record_abandoned",
          "record_committed", "disarm"} \cup CutoverSteps \cup RestoreSteps

Verbs == {"deploy", "rollback", "commit", "watchdog"}
Holder == [verb: Verbs, release: Releases, step: Steps, state: Record]

ASSUME ImagesAssumption == Original \notin Releases /\ Unfit \subseteq Releases
ASSUME FaultsAssumption == InspectFaults \in BOOLEAN
ASSUME NoneAssumption   == None \notin Images \cup Container \cup Record \cup Holder

VARIABLES
  production, \* the container with the canonical name, or None
  backup,     \* per release: its retained rollback container, or None
  disk,       \* per release: its record, or None
  enabled,    \* the releases whose rollback timer is enabled (survives a boot)
  active,     \* the releases whose rollback timer runs
  pending,    \* the releases whose watchdog service waits for the lock
  expired,    \* the releases whose recorded deadline has passed
  holder      \* the verb that holds the lock, with its copy of the record

containers == <<production, backup>>
timers     == <<enabled, active>>
vars == <<production, backup, disk, enabled, active, pending, expired, holder>>

TypeOK ==
  /\ production \in Container \cup {None}
  /\ backup \in [Releases -> Container \cup {None}]
  /\ disk \in [Releases -> Record \cup {None}]
  /\ enabled \subseteq Releases
  /\ active \subseteq Releases
  /\ pending \subseteq Releases
  /\ expired \subseteq Releases
  /\ holder \in Holder \cup {None}

Init ==
  /\ production = [image |-> Original, running |-> TRUE, joined |-> TRUE]
  /\ backup = [r \in Releases |-> None]
  /\ disk = [r \in Releases |-> None]
  /\ enabled = {} /\ active = {} /\ pending = {} /\ expired = {}
  /\ holder = None

-----------------------------------------------------------------------------
(* What the broker can observe.                                            *)

AllContainers == ({production} \cup {backup[r] : r \in Releases}) \ {None}
PortTaken == \E c \in AllContainers : c.running

(* container_exists: a false answer also stands for a failed inspect.      *)
Sees(seen, c) == IF seen THEN c # None ELSE c = None \/ InspectFaults

(* GET /health on the loopback port: whatever container listens answers.   *)
Answers == \E c \in AllContainers : c.running /\ c.image \notin Unfit

(* The health gates: a probe that answers, and the reviewed topology.      *)
Serving(c) == c # None /\ c.running /\ c.joined /\ c.image \notin Unfit

(* preflight: production is there, as reviewed, and answers.               *)
preflight == Serving(production)

(* The health verb: production is this release, as reviewed, and answers.  *)
health(r) == Serving(production) /\ production.image = r

-----------------------------------------------------------------------------
(* How a step of the verb that holds the lock ends.  A command or a write  *)
(* succeeds, fails before its effect, or reports an error (a timeout, a    *)
(* failed fsync) after its effect.                                         *)

Outcomes == {"ok", "failed", "late"}
TakesEffect(o) == o \in {"ok", "late"}

At(s) == holder # None /\ holder.step = s
R == holder.release

Proceed(s, st) ==
  holder' = IF s = "exit" THEN None ELSE [holder EXCEPT !.step = s, !.state = st]
Exit == holder' = None

(* An exception: the try block of deploy recovers, every other verb ends.  *)
After(o, next, st) ==
  Proceed(IF o = "ok" THEN next
          ELSE IF holder.step \in CutoverSteps THEN "recover" ELSE "exit", st)

Docker(o, p, b, next) ==
  /\ production' = IF TakesEffect(o) THEN p ELSE production
  /\ backup' = IF TakesEffect(o) THEN b ELSE backup
  /\ After(o, next, holder.state)
  /\ UNCHANGED <<disk, timers, pending, expired>>

Save(o, st, next) ==
  /\ disk' = IF TakesEffect(o) THEN [disk EXCEPT ![R] = st] ELSE disk
  /\ After(o, next, st)
  /\ UNCHANGED <<containers, timers, pending, expired>>

Decide(next) ==
  /\ Proceed(next, holder.state)
  /\ UNCHANGED <<containers, disk, timers, pending, expired>>

Abort == Exit /\ UNCHANGED <<containers, disk, timers, pending, expired>>

-----------------------------------------------------------------------------
(* deploy: take the lock, pass every check that precedes the first effect. *)

Acquire(verb, r, step, st) ==
  /\ holder = None
  /\ holder' = [verb |-> verb, release |-> r, step |-> step, state |-> st]
  /\ UNCHANGED <<containers, disk, timers, expired>>

Deploy(r) ==
  /\ preflight
  /\ disk[r] = None
  /\ Sees(FALSE, backup[r])
  /\ Acquire("deploy", r, "record",
             [status |-> "preparing", committed |-> FALSE,
              old_image |-> production.image])
  /\ UNCHANGED pending

(* Faulty variant: a failed write of the first record is not noticed.      *)
RecordReleaseUnchecked(o) ==
  /\ At("record")
  /\ disk' = IF TakesEffect(o) THEN [disk EXCEPT ![R] = holder.state] ELSE disk
  /\ Proceed("arm", holder.state)
  /\ UNCHANGED <<containers, timers, pending, expired>>

RecordRelease(o) == At("record") /\ Save(o, holder.state, "arm")

(* Faulty variants: "enable --now" unchecked, and "start" for "enable --now". *)
ArmWatchdogUnchecked(o) ==
  /\ At("arm")
  /\ enabled' = IF TakesEffect(o) THEN enabled \cup {R} ELSE enabled
  /\ active' = IF TakesEffect(o) THEN active \cup {R} ELSE active
  /\ Proceed("retain", holder.state)
  /\ UNCHANGED <<containers, disk, pending, expired>>
ArmWatchdogTransient(o) ==
  /\ At("arm")
  /\ active' = IF TakesEffect(o) THEN active \cup {R} ELSE active
  /\ After(o, "retain", holder.state)
  /\ UNCHANGED <<containers, disk, enabled, pending, expired>>

(* systemctl enable --now: the link first, then the start.                 *)
ArmWatchdog(o) ==
  /\ At("arm")
  /\ enabled' \in IF o = "failed" THEN {enabled, enabled \cup {R}} ELSE {enabled \cup {R}}
  /\ active' = IF TakesEffect(o) THEN active \cup {R} ELSE active
  /\ After(o, "retain", holder.state)
  /\ UNCHANGED <<containers, disk, pending, expired>>

RetainCurrent(o) ==
  /\ At("retain")
  /\ TakesEffect(o) => production # None /\ backup[R] = None
  /\ Docker(o, None, [backup EXCEPT ![R] = production], "quiesce")

StopRetained(o) ==
  /\ At("quiesce")
  /\ TakesEffect(o) => backup[R] # None
  /\ Docker(o, production, [backup EXCEPT ![R].running = FALSE], "create")

CreateCandidate(o) ==
  /\ At("create")
  /\ TakesEffect(o) => production = None
  /\ Docker(o, [image |-> R, running |-> FALSE, joined |-> FALSE], backup, "connect")

ConnectCandidate(o) ==
  /\ At("connect")
  /\ TakesEffect(o) => production # None
  /\ Docker(o, [production EXCEPT !.joined = TRUE], backup, "start")

(* docker start: a container that runs already is left alone, another one  *)
(* needs the published port.                                               *)
Start(o, next) ==
  /\ TakesEffect(o) => production # None /\ (production.running \/ ~PortTaken)
  /\ Docker(o, [production EXCEPT !.running = TRUE], backup, next)

StartCandidate(o) == At("start") /\ Start(o, "gate")

CandidateGate(ok) ==
  /\ At("gate")
  /\ ok => Serving(production)
  /\ Decide(IF ok THEN "record_deployed" ELSE "recover")

(* Faulty variant: a status the other verbs do not know.                   *)
RecordDeployedMisspelt(o) ==
  /\ At("record_deployed")
  /\ Save(o, [holder.state EXCEPT !.status = "deploy"], "exit")

RecordDeployed(o) ==
  /\ At("record_deployed")
  /\ Save(o, [holder.state EXCEPT !.status = "deployed"], "exit")

-----------------------------------------------------------------------------
(* recover_after_deploy_error                                              *)

(* Faulty variant: a restore already begun is not resumed.                 *)
RecoverForgetful(seen) ==
  /\ At("recover")
  /\ Sees(seen, backup[R])
  /\ IF seen
       THEN Decide("restore")
       ELSE \/ Sees(TRUE, production) /\ Decide("abandon")
            \/ Sees(FALSE, production) /\ Abort

Recover(seen) ==
  /\ At("recover")
  /\ Sees(seen, backup[R])
  /\ IF seen \/ holder.state.status = "restoring"
       THEN Decide("restore")
       ELSE \/ Sees(TRUE, production) /\ Decide("abandon")
            \/ Sees(FALSE, production) /\ Abort

(* Faulty variant: "stop" for "disable --now".                             *)
StopTimerOnly(o, next) ==
  /\ \/ o # "late" /\ UNCHANGED active
     \/ active' = active \ {R}
  /\ After(o, next, holder.state)
  /\ UNCHANGED <<containers, disk, enabled, pending, expired>>

(* stop_timer: the link is removed, then the timer stopped; a failure of   *)
(* either is ignored, unless the command times out.                        *)
StopTimer(o, next) ==
  /\ \/ o # "late" /\ UNCHANGED timers
     \/ /\ enabled' = enabled \ {R}
        /\ active' \in {active, active \ {R}}
  /\ After(o, next, holder.state)
  /\ UNCHANGED <<containers, disk, pending, expired>>

Abandon(o) == At("abandon") /\ StopTimer(o, "record_abandoned")

RecordAbandoned(o) ==
  /\ At("record_abandoned")
  /\ Save(o, [holder.state EXCEPT !.status = "failed_pre_cutover",
                                  !.committed = FALSE], "exit")

-----------------------------------------------------------------------------
(* rollback_locked                                                         *)

(* Faulty variant: the record does not say that a restore has begun.       *)
BeginRestoreUnmarked(o) ==
  /\ At("restore")
  /\ Sees(TRUE, backup[R])
  /\ Save(o, holder.state, "check")

BeginRestore(o) ==
  /\ At("restore")
  /\ Sees(TRUE, backup[R])
  /\ backup[R].image = holder.state.old_image
  /\ Save(o, [holder.state EXCEPT !.status = "restoring"], "check")

(* Whatever has production's name by now is to go.                         *)
CheckProduction(seen) ==
  /\ At("check")
  /\ Sees(seen, production)
  /\ Decide(IF seen THEN "remove" ELSE "reinstate")

(* Faulty variants: the retry removes what it has just put back, or takes  *)
(* it to be running.                                                       *)
ResumeRestoreFromStart ==
  /\ At("restore")
  /\ Sees(FALSE, backup[R])
  /\ holder.state.status = "restoring"
  /\ Sees(TRUE, production)
  /\ Decide("remove")
ResumeRestoreUnstarted ==
  /\ At("restore")
  /\ Sees(FALSE, backup[R])
  /\ holder.state.status = "restoring"
  /\ Sees(TRUE, production)
  /\ Decide("restore_gate")

(* A retry after the retained container has its canonical name again.      *)
ResumeRestore ==
  /\ At("restore")
  /\ Sees(FALSE, backup[R])
  /\ holder.state.status = "restoring"
  /\ Sees(TRUE, production)
  /\ production.image = holder.state.old_image
  /\ Decide("restart")

RefuseRestore ==
  /\ At("restore")
  /\ \/ /\ Sees(TRUE, backup[R])
        /\ backup[R].image # holder.state.old_image
     \/ /\ Sees(FALSE, backup[R])
        /\ \/ holder.state.status # "restoring"
           \/ Sees(FALSE, production)
           \/ production # None /\ production.image # holder.state.old_image
  /\ Abort

RemoveCandidate(o) == At("remove") /\ Docker(o, None, backup, "reinstate")

Reinstate(o) ==
  /\ At("reinstate")
  /\ TakesEffect(o) => backup[R] # None /\ production = None
  /\ Docker(o, backup[R], [backup EXCEPT ![R] = None], "restart")

StartRestored(o) == At("restart") /\ Start(o, "restore_gate")

RestoreGate(ok) ==
  /\ At("restore_gate")
  /\ ok => Serving(production) /\ production.image = holder.state.old_image
  /\ IF ok THEN Decide("record_restored") ELSE Abort

(* Faulty variant: "committed" is left as it was.                          *)
RecordRestoredCommitted(o) ==
  /\ At("record_restored")
  /\ Save(o, [holder.state EXCEPT !.status = "rolled_back"], "disarm")

RecordRestored(o) ==
  /\ At("record_restored")
  /\ Save(o, [holder.state EXCEPT !.status = "rolled_back",
                                  !.committed = FALSE], "disarm")

Disarm(o) == At("disarm") /\ StopTimer(o, "exit")

-----------------------------------------------------------------------------
(* The other verbs.                                                        *)

Rollback(r) ==
  /\ disk[r] # None
  /\ disk[r].status # "rolled_back"
  /\ Acquire("rollback", r, "restore", disk[r])
  /\ UNCHANGED pending

(* Faulty variant: the release is not probed before it is committed.       *)
CommitUnprobed(r) ==
  /\ disk[r] # None
  /\ disk[r].status \in {"deployed", "committed"}
  /\ Acquire("commit", r, "record_committed", disk[r])
  /\ UNCHANGED pending

Commit(r) ==
  /\ disk[r] # None
  /\ disk[r].status \in {"deployed", "committed"}
  /\ health(r)
  /\ Acquire("commit", r, "record_committed", disk[r])
  /\ UNCHANGED pending

RecordCommitted(o) ==
  /\ At("record_committed")
  /\ Save(o, [holder.state EXCEPT !.status = "committed",
                                  !.committed = TRUE], "disarm")

(* Faulty variants: the deadline before the commit, and no deadline.       *)
DeadlineFirst(r, healthy) ==
  IF ~healthy \/ r \in expired THEN "rollback"
  ELSE IF disk[r].committed THEN "committed"
  ELSE "wait"
NoDeadline(r, healthy) ==
  IF disk[r].committed THEN "committed" ELSE IF healthy THEN "wait" ELSE "rollback"

watchdog_decision(r, healthy) ==
  IF disk[r].committed THEN "committed"
  ELSE IF ~healthy \/ r \in expired THEN "rollback"
  ELSE "wait"

(* load_release fails without a record: the service ends, as for "wait".   *)
Watchdog(r, healthy) ==
  /\ r \in pending
  /\ healthy => Answers
  /\ pending' = pending \ {r}
  /\ IF disk[r] = None \/ watchdog_decision(r, healthy) = "wait"
       THEN holder = None /\ UNCHANGED <<containers, disk, timers, expired, holder>>
       ELSE Acquire("watchdog", r,
                    IF watchdog_decision(r, healthy) = "committed" THEN "disarm" ELSE "recover",
                    disk[r])

-----------------------------------------------------------------------------
(* systemd, the clock, and the ends a process may come to.                 *)

(* The oneshot service is started again only after its last run ended.     *)
Fire(r) ==
  /\ r \in active \ pending
  /\ ~(holder # None /\ holder.verb = "watchdog" /\ holder.release = r)
  /\ pending' = pending \cup {r}
  /\ UNCHANGED <<containers, disk, timers, expired, holder>>

(* TimeoutStartSec ends a service that has waited too long for the lock.   *)
GiveUp(r) ==
  /\ r \in pending
  /\ holder # None
  /\ pending' = pending \ {r}
  /\ UNCHANGED <<containers, disk, timers, expired, holder>>

Expire(r) ==
  /\ r \notin expired
  /\ disk[r] # None
  /\ expired' = expired \cup {r}
  /\ UNCHANGED <<containers, disk, timers, pending, holder>>

(* The holder dies (a kill, a lost session, TimeoutStartSec); the kernel   *)
(* releases the lock.                                                      *)
Crash ==
  /\ holder # None
  /\ Exit
  /\ UNCHANGED <<containers, disk, timers, pending, expired>>

(* A boot restarts what ran (unless-stopped) and every enabled timer.      *)
Reboot ==
  /\ holder' = None
  /\ pending' = {}
  /\ active' = enabled
  /\ UNCHANGED <<containers, disk, enabled, expired>>

-----------------------------------------------------------------------------
Step(o) ==
  \/ RecordRelease(o) \/ ArmWatchdog(o) \/ RetainCurrent(o) \/ StopRetained(o)
  \/ CreateCandidate(o) \/ ConnectCandidate(o) \/ StartCandidate(o)
  \/ RecordDeployed(o) \/ Abandon(o) \/ RecordAbandoned(o)
  \/ BeginRestore(o) \/ RemoveCandidate(o) \/ Reinstate(o) \/ StartRestored(o)
  \/ RecordRestored(o) \/ RecordCommitted(o) \/ Disarm(o)

Decision == \/ \E ok \in BOOLEAN : \/ CandidateGate(ok) \/ RestoreGate(ok)
                                \/ Recover(ok) \/ CheckProduction(ok)
            \/ ResumeRestore \/ RefuseRestore

Verb(r) == \/ Deploy(r) \/ Rollback(r) \/ Commit(r)
           \/ \E healthy \in BOOLEAN : Watchdog(r, healthy)

Next ==
  \/ \E r \in Releases : Verb(r) \/ Fire(r) \/ GiveUp(r) \/ Expire(r)
  \/ \E o \in Outcomes : Step(o)
  \/ Decision \/ Crash \/ Reboot

Spec == Init /\ [][Next]_vars
=============================================================================
