-------------------------- MODULE DeployBrokerLate --------------------------
(***************************************************************************)
(* The deploy broker on a host that is later than its answers: a docker    *)
(* command the broker gave up on, or died in, may still be carried out     *)
(* while a recovery is under way, on the container it was resolved to; and *)
(* a record whose write reported an error after it took effect may be      *)
(* taken back when the power goes, until the next write syncs the          *)
(* directory (ReleaseFiles).                                               *)
(***************************************************************************)
EXTENDS DeployBrokerProperties

VARIABLES
  late,     \* the command the Docker daemon still has to carry out, or None
  older,    \* per release: the records a power loss may bring back
  overtaken \* history: has a late rename overtaken the restore under way?

lateVars == <<vars, late, older, overtaken>>

DockerSteps == {"retain", "quiesce", "create", "connect", "start",
                "remove", "reinstate", "restart"}

(* A command, and the container it is about, which its image stands for:   *)
(* no two containers of the service have the same.                         *)
Command == [step: DockerSteps, release: Releases, image: Images]

ASSUME NoCommandAssumption == None \notin Command

LateTypeOK ==
  /\ TypeOK
  /\ late \in Command \cup {None}
  /\ older \in [Releases -> SUBSET (Record \cup {None})]
  /\ overtaken \in BOOLEAN

LateInit == Init /\ late = None /\ older = [r \in Releases |-> {}] /\ overtaken = FALSE

-----------------------------------------------------------------------------
(* subprocess.run kills docker when its time is up, and the end of the     *)
(* broker may too: the daemon has the command.                             *)
Resolved ==
  IF holder.step = "create" THEN {R}
  ELSE {c.image : c \in {IF holder.step \in {"quiesce", "reinstate"} THEN backup[R]
                         ELSE production} \ {None}}

Linger ==
  /\ late = None
  /\ holder # None /\ holder.step \in DockerSteps
  /\ \E image \in Resolved : late' = [step |-> holder.step, release |-> R, image |-> image]
  /\ Step("failed") \/ Crash
  /\ UNCHANGED older

(* What has image's container becomes c, wherever it is by now.            *)
Becomes(image, c) ==
  LET Now(d) == IF d # None /\ d.image = image THEN c ELSE d IN
  production' = Now(production) /\ backup' = [r \in Releases |-> Now(backup[r])]

(* docker rename.                                                          *)
BecomesProduction(c) ==
  /\ production = None
  /\ production' = c
  /\ backup' = [r \in Releases |-> IF backup[r] = c THEN None ELSE backup[r]]
BecomesBackup(c, r) ==
  /\ backup[r] = None
  /\ production' = IF production = c THEN None ELSE production
  /\ backup' = [q \in Releases |-> IF q = r THEN c ELSE IF backup[q] = c THEN None ELSE backup[q]]

(* A command that can no longer be carried out is dropped.                 *)
Land ==
  /\ late # None
  /\ late' = None
  /\ \/ \E c \in {d \in AllContainers : d.image = late.image} :
          \/ late.step = "retain" /\ BecomesBackup(c, late.release)
          \/ late.step = "quiesce" /\ Becomes(c.image, [c EXCEPT !.running = FALSE])
          \/ late.step = "connect" /\ Becomes(c.image, [c EXCEPT !.joined = TRUE])
          \/ late.step \in {"start", "restart"} /\ ~PortTaken
               /\ Becomes(c.image, [c EXCEPT !.running = TRUE])
          \/ late.step = "remove" /\ Becomes(c.image, None)
          \/ late.step = "reinstate" /\ BecomesProduction(c)
     \/ /\ late.step = "create" /\ production = None
        /\ production' = [image |-> late.image, running |-> FALSE, joined |-> FALSE]
        /\ UNCHANGED backup
     \/ UNCHANGED containers
  /\ UNCHANGED <<disk, timers, pending, expired, holder, older>>

-----------------------------------------------------------------------------
(* A write that reports an error after its effect leaves the older record  *)
(* behind; one that reports success syncs the directory of all of them.    *)
WriteSteps == {"record", "record_deployed", "record_abandoned", "restore",
               "record_restored", "record_committed"}

StepLate(o) ==
  /\ Step(o)
  /\ older' = IF holder.step \notin WriteSteps \/ o = "failed" THEN older
              ELSE IF o = "ok" THEN [r \in Releases |-> {}]
              ELSE [older EXCEPT ![R] = @ \cup {disk[R]}]
  /\ UNCHANGED late

PowerLoss ==
  /\ disk' \in [Releases -> UNION {{disk[r]} \cup older[r] : r \in Releases}]
  /\ \A r \in Releases : disk'[r] \in {disk[r]} \cup older[r]
  /\ holder' = None
  /\ pending' = {}
  /\ active' = enabled
  /\ older' = [r \in Releases |-> {}]
  /\ late' = None
  /\ UNCHANGED <<containers, enabled, expired>>

(* Bound: what is late is carried out, or not at all, before a verb of     *)
(* another release gets the lock.                                          *)
Prompt(r) == late # None => late.release = r

LateSteps ==
  \/ /\ \/ \E r \in Releases : \/ Prompt(r) /\ Verb(r)
                             \/ Fire(r) \/ GiveUp(r) \/ Expire(r)
        \/ Decision \/ Crash
     /\ UNCHANGED <<late, older>>
  \/ \E o \in Outcomes : StepLate(o)
  \/ Linger \/ Land \/ PowerLoss

(* The rename of an earlier run puts the retained container back after a   *)
(* later run has found it, and before that run looks at production.  The   *)
(* history lasts as long as that run, or the command it was given up in.   *)
Overtakes == At("check") /\ late # None /\ late.step = "reinstate" /\ production' # production

LateNext ==
  /\ LateSteps
  /\ overtaken' = ((overtaken \/ Overtakes) /\ (holder' # None \/ late' # None))

LateSpec == LateInit /\ [][LateNext]_lateVars
=============================================================================
