# Verification of arcanada-llm-proxy

TLA+ models of the parts of this repository where a wrong order of steps does
harm: the root-owned deploy broker with its rollback watchdog, the files it
keeps and the environment it hands on, the workflow that drives it, and the chat
proxy with its fallback. TLC checks the models on small instances; TLAPS proves
the safety properties for every number of releases and requests, also on a host
that is late and forgetful, and that the broker implements an abstract contract
of a cutover.

    tlc -workers 2 -config BrokerOverlap.cfg MCDeployBroker.tla
    tlapm DeployBrokerProofs.tla

`PROJECT.json` lists the runs, the faulty variants each property must reject,
the source lines every definition stands for, the hazards and the findings.

## 1. The system

| part | source | state it keeps | operations |
|---|---|---|---|
| deploy broker | `deploy/llm_proxy_deploy.py` | one record per release (`releases/<sha>.json`), the lock file; through Docker the production and the retained containers | `deploy`, `rollback`, `commit`, `watchdog`; read-only: `preflight`, `health`, `status`, `verify-bundle` |
| its state files | same, `atomic_bytes` | `<sha>.env`, `<sha>.json` and their directory | replaced whole: write, sync, rename, sync the directory |
| runtime environment | same, `project_runtime_environment` | the settings in the live container, the file, the candidate | read, project, serialise, create |
| rollback timer, watchdog service | `deploy/arcanada-llm-proxy-rollback@.{timer,service}` | per release: enabled, active, a run in progress | fires every 10 s and 5 s after a boot; ends after 12 min |
| chat proxy | `app/main.py`, `router.py`, `mc_client.py` | the lazily opened HTTP client; per request its connector, payload and fallback reason | `POST /v1/chat/completions`, startup, shutdown |
| authentication, secret | `app/auth.py`, `app/vault.py` | the shared secret, set once per process | check of every request; load at startup |
| schemas | `app/schemas.py` | - | shapes of requests and replies |
| observability | `app/observability.py` | log filters, tracer | redaction, one span per request |
| deploy workflow | `.github/workflows/deploy.yml` | job results; the concurrency group | guard, cutover, finalize |
| installer | `deploy/install-llm-proxy-deploy.sh` | helper, units, capability hash, sudo rule | replaces them one by one under `flock -n` |
| CI, image publication | `.github/workflows/ci.yml` | the published image and its identity artifact | test, publish, verify |
| Dependabot auto-merge | `.github/workflows/dependabot-auto-merge.yml` | - | gates on a pull request, merge |
| runner preflight | `scripts/ci/runner-broker-preflight.sh` | - | checks of groups and of the broker file |

How they interact. A dispatched workflow runs `deploy` through sudo; the broker
records the release, arms its timer, and replaces the production container.
The workflow's last job probes it and runs `commit`, or `rollback`. Meanwhile
systemd starts the watchdog of every armed release every ten seconds. All verbs
that change anything meet at one exclusive file lock; what they share is the
set of containers (one canonical name, one published port), the records and the
timers. In the container the proxy serves requests concurrently on one event
loop and calls the Model Connector, at most twice per request.

What is hard, part by part:

* *Broker.* A cutover is eight effects and a restore six, and the process may
  die, time out or be rebooted between any two; a command may report an error
  although it took effect; a failed `docker inspect` looks like an absent
  container. The watchdog runs concurrently with the workflow's verbs, waits on
  the lock while they change what it is about to read, and is itself the retry
  of whatever was left half done. Releases may overlap: nothing stops a second
  deploy while the first is uncommitted. Correct means: no failure leaves the
  host without a container that can serve; an open cutover is watched until it
  is committed or undone; records tell the truth and only move forward.
* *Proxy.* Requests interleave at every await with each other, with a drain and
  with a kill; the fallback silently changes what the client asked for. Correct
  means: a lost schema is disclosed, nobody is left waiting, the shared client
  is not closed under a request.
* *Files.* The process dies or the power goes between any two calls; readers
  take no lock. Correct means: a file is whole and never older than the last
  write reported, and a record has its settings.
* *Environment.* Settings pass through many containers, only ever by way of the
  one that is live, and images bring defaults along. Correct means: no setting
  drifts, and what one release leaves can be deployed over by the next.
* *Workflow.* Lost jobs whose process goes on as root, runs that queue, releases
  dispatched again, watchdogs that act between two jobs. Correct means: a run
  ends and leaves production serving; cutovers do not overlap; a committed
  release stays.
* *Installer.* It replaces the bundle and the capability while a release may be
  between its deploy and its commit.

## 2. Modules

| module | what it is |
|---|---|
| `DeployBroker` | the broker, Docker, systemd and the disk |
| `DeployBrokerProperties` | its properties, inductive invariants and fairness |
| `CutoverContract` | the abstract specification: what a cutover promises |
| `DeployBrokerRefinement` | the refinement mapping from `DeployBroker` to it |
| `DeployBrokerProofs`, `DeployBrokerRefinementProofs` | TLAPS proofs |
| `MCDeployBroker` | the instance for TLC |
| `DeployBrokerLate` | `DeployBroker` with a late Docker daemon and records a power loss takes back |
| `DeployBrokerLateProperties`, `DeployBrokerLateProofs`, `MCDeployBrokerLate` | as above |
| `RecordStore` | the abstract specification: what the verbs may take a record on disk for |
| `ReleaseFiles`, `ReleaseFilesProofs` | the files of a release, call by call, which implement it |
| `RuntimeEnvironment`, `RuntimeEnvironmentProofs`, `MCRuntimeEnvironment` | the settings of production over releases |
| `DeployWorkflow` | the jobs of `deploy.yml`, composed with `DeployBroker` (EXTENDS) |
| `DeployWorkflowProperties`, `DeployWorkflowProofs`, `MCDeployWorkflow` | as above |
| `ChatProxy` | the proxy and the life of its process |
| `ChatProxyProperties`, `ChatProxyProofs`, `MCChatProxy` | as above |

### DeployBroker

| variable | in the code |
|---|---|
| `production` | the container named `arcanada-llm-proxy` |
| `backup[r]` | the container `arcanada-llm-proxy-rollback-<sha>` |
| `disk[r]` | `releases/<sha>.json`: `status`, `committed`, `old_image_id` |
| `enabled`, `active` | the timer's link in `timers.target.wants`, and the running timer |
| `pending` | watchdog services that were started and wait in `flock` |
| `expired` | releases whose `deadline` has passed |
| `holder` | the verb in the critical section: its release, its next effect, and the dictionary `state` it works on, which may be ahead of the disk |

A release and the image built from it are one value. A container is its image,
whether it runs and whether it has been connected to both networks; of the
reviewed topology, only that last connection changes in a deploy.

One action is one effect (a docker or systemctl command, an atomic write) with
the reads before it; a read that follows a write and decides on the next effect
is an action of its own (`CheckProduction`, line 506, after the write of
`BeginRestore`, line 505). Every effect has an outcome: `ok`, `failed` (nothing
happened) or `late` (it happened and an error was reported: a time-out, an
fsync of the directory that failed). What follows an error is the code's
exception path: within the `try` of `deploy` that is
`recover_after_deploy_error`, elsewhere the verb ends. `Crash` ends the holder
between any two effects; `Reboot` also empties `pending` and restarts exactly
the enabled timers. `InspectFaults` lets `docker inspect` fail on a container
that exists (`container_exists` then says no). Health gates may fail for a
healthy container but never pass for one that is down, unconnected or `Unfit`.

| code | actions |
|---|---|
| `deploy` up to its record | `Deploy`, `RecordRelease` |
| `deploy`, the `try` block | `ArmWatchdog`, `RetainCurrent`, `StopRetained`, `CreateCandidate`, `ConnectCandidate`, `StartCandidate`, `CandidateGate`, `RecordDeployed` |
| `recover_after_deploy_error` | `Recover`, `Abandon`, `RecordAbandoned` |
| `rollback_locked` | `BeginRestore`, `CheckProduction`, `ResumeRestore`, `RefuseRestore`, `RemoveCandidate`, `Reinstate`, `StartRestored`, `RestoreGate`, `RecordRestored`, `Disarm` |
| `rollback`, `commit`, `watchdog` | `Rollback`; `Commit`, `RecordCommitted`, `Disarm`; `Watchdog` |
| systemd and the clock | `Fire`, `GiveUp`, `Expire`, `Crash`, `Reboot` |

A docker command on a container that does not exist, or under a name that is
taken, fails. Left out: the capability, the digests and labels, disk space and
the ACL unit (each can only refuse a deploy before its first effect); the
wording of output. Simplified: deadlines pass in any order; an image is found
unfit by every probe or by none. An atomic write is one effect here, and an
effect reported as an error lands before the recovery looks; the next modules
drop these two.

### CutoverContract and DeployBrokerRefinement

The contract has no lock, verbs, records or crashes. It knows the image in
production's name and whether it serves, and per release a phase (untouched,
open, deployed, committed, on its way back, over), the image it began with,
whether that is kept aside, and whether a watchdog stands guard. Its steps say
what a cutover may do: the service goes down only in `SetAside`, for a watched
release, and in `Remove`, for a release on its way back whose old image is kept;
`Confirm` needs a release that serves; a release is `Undone` only when the image
it began with serves again; `Supervise` never leaves an open cutover unwatched.

The mapping: `installed` and `healthy` are the image of `production` and
`Serving`; `phase` is the status on disk, where a restore of a committed record
is "withdrawing"; `retained` are the releases with a rollback container,
`watched` those whose timer is both enabled and active. `failed_pre_cutover` and
`rolled_back` are both "over", so the rewritten record of finding 3 is not seen
at this level, nor is it by `Lifecycle`, which lets a `rolled_back` record
become `failed_pre_cutover`: `RolledBackIsFinal` alone speaks of it. The
contract is a safety contract: it promises nothing in time.

### DeployBrokerLate

Three variables more. `late` is one command the broker gave up on, by its time
limit or by its death, and which the daemon carries out at any later moment
(`Linger`, `Land`) on the container it resolved the name to, wherever that is by
then, or never. `older[r]` are the records a power loss may bring back: those
replaced by writes that reported an error after the rename, until a later write
syncs the directory. Inspections may fail as well. `overtaken` is a history and
decides nothing: whether, in the restore under way or in the command it was given
up in, a late `rename` of an earlier run has put the retained container back
after that restore had found it (500) and before it looks at production (506).

Bounds: one late command at a time, and `Prompt`: a verb takes the lock only
when no command of another release is late. Releases overlap as they like
otherwise. The bound cannot be dropped: without it TLC finds that a late
`rm --force` of one release removes the container another one has put in the
same place, even the last that can serve, and `LossOnlyIfOvertaken` and
`RollbackTargetRetained` are both false with two releases.

Within the bound `ServiceRecoverable` is false too (finding 2,
`broker_overtaken`), and `LossOnlyIfOvertaken` says that this is the only way: the
step that takes the last container that can serve belongs to a restore that was
overtaken. It is an action property, since what is lost stays lost.

What survives all this is proved: nothing else loses the last container; the
container a deployed or committed record names is kept, also when a power loss
has brought that record back; a record that a failed first write left behind
(`preparing`, nothing retained; it refuses every later `deploy` of that release)
has no container; and a commit that was reported stands. What does not:
`ServiceRecoverable`, `WatchdogArmed` and `OutageIsWatched`. A `rename` that
lands after the recovery has abandoned the release leaves production down with
its timer stopped.

### ReleaseFiles

`entry` is what each of the two names leads to, `older` what it may lead to
after a power loss, `writer` the process in `atomic_bytes` with the call it is
at, `since` a history: per file the content last reported as written and those
begun since. `Deploy` writes the settings, then the record, and only where there
is no record; `Rewrite` is every other verb, which starts from the record it has
loaded. `Stop` is a call that fails or a process that dies; `PowerLoss` keeps
for each name the present or an older entry, torn if its content was not synced.

`RecordStore` is what is left of this for the verbs: a record that changes at
once (`WriteRecord`, at `os.replace`), that a power loss takes back (`LosePower`)
until the directory is synced (`Sync`), and whose settings are those of the
record before. `ReleaseFiles` implements it (`ImplementsRecordStore`): `record`
is the record's file together with the settings' file a reader finds beside it,
`revocable` the older entries. `DeployBrokerLate` has one such store per release
in `disk` and `older`: its write that reports an error is `WriteRecord`, its
write that succeeds is `WriteRecord` and `Sync`, its `PowerLoss` is `LosePower`.
Left out: ownership and mode checks, and the temporary name nobody reads.

### RuntimeEnvironment

`runtime` is the environment of the live container (a function from names to
values or `Unset`), `kept[r]` that of a retained one. `Deploy` is preflight,
projection, serialisation and `docker create` up to a candidate that has
production's name; `Restore` is any of the three ways back, in any order, also
over the container of a later release. What becomes of a value of several lines
in a file of lines is modelled (`FirstLine`), since a check of the code is there
to prevent it. The first container is whatever somebody set up by hand.

### DeployWorkflow

The verbs of the broker are no longer called by anybody at any time but by the
jobs of a run. `run` is the one run the concurrency group admits: its release,
the job it is at or the call that job waits for (`at`), whether that call's
process has got the lock (`entered`), and the result of the cutover job.
`orphans` are the calls whose job is gone and whose process, being root's, still
waits for the lock. A run that waits in the queue of the group is a later
`Dispatch`.

| code | actions |
|---|---|
| `workflow_dispatch`, `concurrency` | `Dispatch` |
| the jobs up to a call of the broker | `Guard`, `Cutover`, `Finalize`, `FinalizeFails` |
| the call | `Call` (the broker's `Deploy`, `Rollback` or `Commit`), `Refuse` (a call that ends without effect) |
| its process | `Broker`: every other step of the broker; a step that frees the lock returns to the job (`Leave`, `Returned`) |
| the runner, a job's time limit | `LoseJob`; `Boot`, since the runner is on the production host |

`Boot` loses the job in progress, even where `LostJobs` is false. A lost or
failed cutover job is followed by finalize (`if: always()`), a lost finalize by
nothing. `Refuse` at any moment, and a `Cutover` that may fail, also cover an
installer that runs between two calls of a release: it takes the lock, replaces
the bundle and rotates the capability. What people dispatch is not in the code;
`Discipline` makes it a parameter: `free` (any release, again and again), `once`
(no release that the broker has a record of), `patient` (once, and no release
while another is neither committed nor undone). None of them has the operator's
own rollback (how-to, line 144 and following): with it a committed release may
be undone and left half way, which `broker_live` and `broker_overlap` cover.

### ChatProxy

`lifespan` is the process (down, serving, draining), `secret` (from the
environment or from Vault) and `client` its two module-level objects,
`request[q]` one request: its phase, the format it asked for, the connector
called last, whether the payload still carries the schema, the fallback reason,
the result of the last call, and the status answered. A coroutine is suspended
only inside `mc_client.execute`, so everything between two awaits is one action:
`Receive` (authenticate, route, open the client, call) and `Resume` (classify
the result, then fall back or answer). Each `Startup` finds `Surroundings` of
its own and runs `load_shared_secret` on them; a client's token is missing,
wrong, or one of the two secrets, which after a restart may be the old one.
`execute` maps every HTTP class and body the Model Connector can send to the
result the caller sees, synthetic errors included. `Shutdown`, `Close` and
`Kill` are the end of the process. `main.py:50-53` closes the client without
asking for requests; that they have drained by then (`Drained`) is uvicorn's
doing, external, and modelled from how the lifespan relies on it. Prompts, model
names, token counts, spans and the 422 of a malformed body are left out.

## 3. Runs

| run | instance | distinct states | question |
|---|---|---|---|
| `broker_overlap` | 2 fit releases, truthful inspections, symmetric | 157 764 | does a container that can serve remain, do records, retained containers and timers stay consistent in any overlap, and is all that happens a cutover of the contract? |
| `broker_late` | a fit and an unfit release that overlap, late commands, power losses, failing inspections | 1 163 378 | is the last container that can serve lost to an overtaken restore only, does every way back remain, does a reported commit stand, is a stranded record harmless, and is the invariant of the proofs one? |
| `broker_live` | 1 release, fair | 828 | can a restore that was cut short be gone on with, that of a committed release included; does every open cutover settle, every outage end, every watchdog retire? |
| `broker_stale_watchdog` | 2 releases | violated | may an old watchdog undo a newer committed release? |
| `broker_overtaken` | 1 release, late commands, truthful inspections | violated | may a late command cost the last container that can serve? |
| `broker_rewritten_record` | 1 release | violated | is `rolled_back` final? |
| `release_files` | 2 settings, 3 statuses | 30 654 | is what a reader finds whole, current, and a record never without its settings; may the verbs take it for a record that changes at once? |
| `runtime_environment` | 3 releases, 4 names, 3 values, 4 images | 1 572 | does a setting ever change, and can what is left be deployed over? |
| `workflow_patient` | 2 releases, `patient`, no job lost but by a boot, fair | 139 567 | do cutovers never overlap; does no restore get stuck; is a committed release left alone; does every cutover settle? |
| `workflow_lost` | 1 release, `once`, jobs lost anywhere, fair | 7 638 | does every restore keep its timer although processes outlive their jobs; does every run end, and leave production serving? |
| `workflow_redispatch` | 1 release, `free` | violated | may the workflow take a committed release out of production? |
| `proxy` | 2 requests, fair | 138 005 | is a lost schema disclosed; does anyone wait on a closed client; does every request, and every drain, end? |

*Bounds.* The state spaces are finite without any counter bound. Two releases
are the smallest number at which a watchdog meets somebody else's container, a
second deploy retains an uncommitted candidate, and two timers compete for the
lock; a third adds a longer chain of retained containers but no new kind of
pair, and the proofs below cover every number. `broker_late` is cut down by an
action constraint, `Trimmed`: no deadline passes (an unanswered probe makes a
watchdog decide the same) and one watchdog at a time waits for the lock; the
theorems have neither. It is also the run in which inspections fail, and in
which a candidate may be unfit. `broker_live` has one release because with two
the liveness properties are false, and rightly so: the broker lets a second
release be deployed, and a committed one be rolled back without a timer, while
another is half restored; then an old watchdog may refuse to restore for ever
(its image is not the one in production any more), or abandon its release while
the outage is another one's. Patience excludes this: `workflow_patient` checks
the same property with two releases. Requests do not influence each other but
through the client and the process, so two of them show each sharing. In
`release_files` two settings suffice to tell an old file from a new one, and
three statuses to have one in between; in `runtime_environment` there is one
name of each class (required, optional, reviewed, unreviewed) and one value of
each kind (one line, two lines, empty), and three releases so that one may be
restored over another that was deployed over a third. `MCErrorTypes` has one
type of each class the proxy distinguishes; the synthetic types come on top.

*Fairness.* `FairSpec` of the broker assumes: the lock holder goes on (every
command has a time limit); a running timer fires (`OnUnitActiveSec=10s`);
deadlines pass; and a watchdog that waits for the lock is granted it if the lock
becomes free again and again (strong fairness; flock wakes its waiters, and the
workflow's verbs are few). Nobody is obliged to deploy, commit or roll back.
Faults are unlimited in number and place but transient: from some point on every
step is `Undisturbed` (a command that can succeed does, a timer that is disabled
stops, nobody dies), which is an assumption about the host, not about the code.
Faults are excluded by naming what may still happen, not by forbidding fault
actions: a reboot and a watchdog that decides to wait may be the same change of
state, and forbidding the one would forbid the other. A candidate's gate may
still fail then; a sound restored container's may not. `FairWorkflowSpec` adds
that jobs go on and that a waiting call gets the lock. `FairSpec` of the proxy
assumes that every awaited call ends (httpx waits 300 s for each read, and a
reply has an end) and that uvicorn closes a drained application.

### Findings

1. **An old watchdog removes a committed release.** `deploy` does not ask
   whether an earlier release is still open. If r1 is deployed and not
   committed, and r2 is then deployed and committed, r1's deadline still
   passes: its watchdog removes whatever has the canonical name
   (`llm_proxy_deploy.py:507`), r2's committed container, and puts back the
   container from before r1. The how-to (lines 140-142) ties automatic restores
   to the absence of a commit. The workflow's concurrency group makes the
   overlap rare (its last job must have failed) but does not exclude it; waiting
   until the release before is committed or undone does, as long as no job is
   lost (`workflow_patient`). With lost jobs not even that: a `deploy` left
   waiting for the lock may start behind the next run's back.
2. **A restore overtaken by a late rename loses the last container.** The docker
   client of a watchdog's `rename` (`:508`) is killed at its time limit, or dies
   with the run, and the daemon still has the command. The next run finds the
   rollback container, verifies its image (`:500-503`) and writes `restoring`
   (`:505`); now the rename is carried out; the run looks at production (`:506`),
   takes the container it finds for the candidate and removes it with `--force`
   (`:507`). It was the retained container, and nothing can be restored any more
   (`:514`). The how-to says (line 155) that rollback verifies what it retains
   before it removes the candidate; what is removed is never verified. To look at
   the image of production before the removal would close it.
3. **A rolled-back record is rewritten** as `failed_pre_cutover` by a watchdog
   that fires before, or in spite of, the disarming (`:543`).
4. **Dispatching a committed release again rolls it back.** `deploy` refuses it
   since its record exists (`:560`); finalize takes the failed cutover and the
   record for an interrupted deploy (`deploy.yml:143-149`) and calls
   `rollback`, which accepts a committed release.

Three remarks that no run is spent on. `container_exists` (`:360`) cannot tell
"absent" from "could not ask". If the inspection of the rollback container fails
and that of production does not, the recovery takes an uncommitted cutover for
one that never began and stops its timer (`:537-542`), although the how-to
promises a restore until the commit; hence the hypothesis "truthful inspections"
of `WatchdogArmed` and of all that rests on it. The rollback of a committed
release has no timer behind it, since the commit disabled it: if it fails
halfway, nobody retries, although the how-to says (line 159) that failed
restores leave the timer enabled; with one release the operator can always go on
with it (`RestoreCanResume` in `broker_live`, where anybody may call
`rollback`); without such rollbacks the sentence is true, and proved
(`FailedRestoreKeepsTimerAlways`). And a retryable codex error whose type is not
on the list of `main.py:105-108`, `network_error` say, is answered 503 without a
fallback, although `docs/reference/api.md:76` says of 503 that the fallback
failed as well.

## 4. Proofs

`DeployBrokerProofs` rests on one inductive invariant in three parts.

* `Inv1` is `TypeOK` with `ContainersInv`: which containers each step of the
  holder may rely on, that every retained container is proven (connected, not
  unfit) and that a proven one is left somewhere. "Something recoverable is
  left" is not inductive alone: that `RemoveCandidate` is harmless depends on
  the retained container seen by an earlier step, hence the facts per step. It
  holds even with failing inspections, because the code checks again what it
  would lose (`rename` fails if the name is taken or the source missing).
* `Inv2` is `RecordsInv` (what the record says of the retained container and
  the timer) with `HolderInv` (how far the holder's copy of the record may be
  ahead of the disk, step by step). It needs `~InspectFaults`; the first
  remark above shows that the assumption cannot be dropped.
* `OutageInv`: at any step, not only when the lock is free, a port on which
  nothing listens has a release that is responsible for it, and a restore begun
  on an uncommitted release is armed.

Between the first two stands `HeldInv`: `HeldRecordInv` (the holder's copy agrees
with the disk on the image and on the commit; what that commit, and a restore
marked on disk, say of the step) with `RollbackTargetRetained`. It trusts no
inspection, only what the verbs check on the containers themselves, so that
`RollbackTargetRetained` and `OnlyRollbackUndoesCommit` hold where inspections
fail: a misled recovery may leave a cutover unwatched, but it loses nothing.
`broker_late` has TLC check the first two with failing inspections.

Each is preserved by every action (one step of the proof per action). The
action properties follow from the invariants and a lemma that names the only
six writes (`OnlySavesWrite`, `WritesAreSound`). TLC checks the same invariant
(`InductiveInv`) in `broker_overlap`.

`DeployBrokerRefinementProofs` proves the step simulation: under `Inv1` and
`Inv2` each action of the broker, with each of its outcomes, is the named step of
`CutoverContract` under the mapping or changes nothing there. The invariants do
the work at the places where the code acts on what it read before:
`RemoveCandidate` maps to `Remove` only because the old image is still kept,
`RecordCommitted` to `Confirm` only because the release still serves.

`DeployWorkflowProofs` first proves that `DeployWorkflow` implements
`DeployBroker` (`WorkflowImplementsBroker`: each step of the workflow is one of
the broker's or leaves the broker alone), so all theorems about the broker hold
of production under any discipline, with or without lost jobs. Then, who calls:

* `CallersInv` ties the calls that are pending (of the run, of orphans, of the
  holder) to the records: a release for which a rollback is pending has no commit
  pending and is not committed, and no restore is under way on a committed one.
  From it, and `OutageInv`, `FailedRestoreKeepsTimer`, whatever jobs are lost.
* `PatientInv` adds, when no job is lost, that whoever holds the lock was called
  by the run in progress or is a watchdog, and that no other release is open;
  `InPlace`, that while an open release keeps the old container, nothing but its
  own candidate has production's name. From them `OneOpenRelease`,
  `CommittedIsLeftAlone` and `RestoreCanResume`: whenever a restore is marked on
  disk, the container it is to put back is retained or is production already, so
  that no retry is refused. The last is false as soon as a job may be lost: an
  orphaned `deploy` then retains the half restored container as its own, TLC
  finds, hence the hypothesis.

`DeployBrokerLateProofs` needs another invariant, since on a late host no step
knows that the container it acts on is where it was. `LateHostInv` has five parts:

* `OneOfEach`: no image has two containers, so that a late command, which
  follows its container, means one thing;
* `RetainedProven`: retained containers are proven;
* `VersionsInv` speaks of every version of a record that a power loss may leave,
  not only of the one on disk: if any says deployed or committed, the container
  it names is retained; if any says preparing, or is missing, the release
  retains the old container or has none of its own;
* `LateHolderInv`: what the holder may rely on, step by step, in particular that
  within the `try` of `deploy` nothing is late, and at `check` and
  `remove` that the retained container is still there or has been put back by a
  late command, that is, the restore is overtaken and nothing is late any more;
* `LateCommandInv`: what each late command can still find. A late `rename` back
  is late only once no version of the record is deployed, a late `rm --force`
  finds the last container only if its restore was overtaken, and so on.

That a proven container is left is not part of it, because it is false. It is
proved as the action property `LossOnlyIfOvertaken`: outside an overtaken restore
every step `Keeps` what can serve, that is, leaves some release its retained
container, or a proven container in production, or takes nothing away. For the
steps of the lock holder (`StepKeeps`) and for commands carried out late
(`LandLeaves`) this comes down to the `rm --force`, which finds its release's
container still retained.

The order of the code carries it: the record is written before the first
command, `restoring` before the first command that undoes one, and each write
that reports success settles all versions before it. `CommitHeldInv` adds that
`commit` reports only what every version says, from which `ReportedCommitStands`;
with `CopyInv` (the copy and the disk agree) the two give `HeldRecordInv` here too.

`ReleaseFilesProofs` strengthens the two properties with what each entry, and
each older one, may be: synced, and begun since the last report; behind a record
every surviving pair of files fits. With that each call is a step of `RecordStore`
or none. `RuntimeEnvironmentProofs` needs that every
retained environment agrees with production's on all settings.
`ChatProxyProofs` ties each request's phase, connector, schema and reason.

| theorem | says | assumes |
|---|---|---|
| `DeployBrokerProofs.TypeCorrect` | `TypeOK` | - |
| `ServiceRecoverableAlways` | a container that can serve remains | commands end with their client (`DeployBroker`) |
| `WatchdogArmedAlways` | an open cutover is watched | truthful inspections |
| `HeldRecordInvAlways` | the holder's copy of the record is right | - |
| `RollbackTargetRetainedAlways` | a deployed or committed release can be rolled back | - |
| `OutageIsWatchedAlways` | an outage is in somebody's hands | truthful inspections |
| `InductiveInvAlways` | the invariant TLC checks | truthful inspections |
| `RecordsAreBornOut` | records are true when written | truthful inspections |
| `CommitIsRespected` | only `rollback` undoes a commit | - |
| `RecordsMoveForward` | records only move forward | truthful inspections |
| `BrokerImplementsContract` | the broker implements `CutoverContract` | truthful inspections |
| `WorkflowImplementsBroker` | the workflow implements `DeployBroker` | - |
| `WorkflowTypeCorrect` | `WorkflowTypeOK` | - |
| `FailedRestoreKeepsTimerAlways` | a restore left half done has its timer | truthful inspections; no release dispatched twice |
| `OneOpenReleaseAlways` | cutovers do not overlap | truthful inspections; patience; no job lost while the host is up |
| `CommittedIsLeftAloneAlways` | only the next deploy replaces a committed release | the same |
| `RestoreCanResumeAlways` | no interrupted restore gets stuck | the same |
| `LateTypeCorrect`, `LateInductive` | the invariant on a late host | late commands meet no other release's verb (`Prompt`) |
| `LateLossOnlyIfOvertaken`, `LateRollbackTarget`, `LateHeldRecord`, `LateStrandedRecord`, `LateCommitStands` | what survives a late host, failing inspections included | the same |
| `RecordStoreImplemented` | the files implement `RecordStore` | - |
| `ReadersFindTheLastWriteAlways`, `SettingsBehindRecordAlways`, `ReleaseFilesProofs.TypeCorrect` | the files | - |
| `SettingsAreKept`, `StaysDeployableAlways`, `RuntimeEnvironmentProofs.TypeCorrect` | the environment (the second has its assumption on the images inside) | - |
| `ChatProxyProofs.TypeCorrect`, `SchemaLossIsDisclosed`, `WaitsOnOpenClientAlways` | the proxy, for any requests and error types | - |

Beyond the assumptions named in the modules (images are distinct, `None` is no
other value, the empty value has no second line) nothing is assumed. Only
model-checked: everything under fairness (`CutoverSettles`, `WatchdogRetires`,
`OutageRepaired`, `RunEnds`, `RunLeavesService`, `EveryRequestEnds`, `DrainEnds`),
since TLAPS proves neither liveness nor `ENABLED`. Every safety property of a
passing run has its theorem.

## 5. Not modelled

* `observability.py`: regular expressions over log text and best-effort export;
  no other part reads its state.
* Capability, digest, label and bundle checks, the runner preflight, file modes
  and systemd sandboxing: functions of their input that keep no state. They
  appear as calls that are refused.
* The rest of the installer: its checks of the host and of the runners' process
  groups refuse before anything is changed. A failure among its replacements
  leaves a mixed bundle, which `verify-bundle` refuses at the next cutover; what
  a watchdog armed by the old helper does under the new one depends on two
  versions of the helper, of which the repository holds one.
* `dependabot-auto-merge.yml` waits for workflows called `ci` and `deploy`
  (line 28); the repository's are called `CI` and `Production deploy`. Whether
  it ever runs depends on how GitHub compares names.
* CI, governance and Dependabot configuration: their steps live in other
  repositories, or build and publish an image without state of their own here.
* Of a request: prompts, model names, token counts, spans, tokens that are not
  ASCII, and the 422 of a malformed body.
* A partial re-run of a workflow run (only its failed jobs): it would keep the
  guard's result of the earlier attempt; a run here is dispatched as a whole.

## 6. What could come next

How far `Prompt` can be relaxed: a late command of another release is harmless
unless it removes or moves a container, so that a bound on those alone may do.
What of `OutageIsWatched` is left on a late host, with one release and truthful
inspections. An abstract specification of the proxy's answer to a request.
Partial re-runs would be a further way into `Guard` and `Cutover`.
