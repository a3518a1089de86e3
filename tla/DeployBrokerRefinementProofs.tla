-------------------- MODULE DeployBrokerRefinementProofs --------------------
(***************************************************************************)
(* The deploy broker implements the contract of a cutover, for any set of  *)
(* releases, when inspections are truthful.                                *)
(***************************************************************************)
EXTENDS DeployBrokerRefinement, DeployBrokerProofs

USE DEF Container, Record, Holder, Status, Verbs, Steps, CutoverSteps, RestoreSteps

(* The abstract state.                                                     *)
bInstalled == IF production = None THEN None ELSE production.image
bHealthy   == Serving(production)
bPhase     == [r \in Releases |-> PhaseOf(disk[r])]
bPrevious  == [r \in Releases |-> IF disk[r] = None THEN None ELSE disk[r].old_image]
bRetained  == {r \in Releases : backup[r] # None}
bWatched   == enabled \cap active

ContractStep == [Contract!ContractNext]_(Contract!contractVars)

(* A step of the contract, and the changes it takes to be one.             *)
LEMMA Stutters ==
  ASSUME bInstalled' = bInstalled, bHealthy' = bHealthy, bPhase' = bPhase,
         bPrevious' = bPrevious, bRetained' = bRetained, bWatched' = bWatched
  PROVE  ContractStep
BY DEF ContractStep, Contract!contractVars, Contract!service, bInstalled, bHealthy, bPhase, bPrevious,
   bRetained, bWatched

(* An image is not the lack of one.                                        *)
LEMMA ImagesAreApart == \A i \in Images : i # None
BY NoneAssumption

(* Initial states map to initial states.                                   *)
LEMMA InitContract == Init => Contract!ContractInit
<1> SUFFICES ASSUME Init PROVE Contract!ContractInit
  OBVIOUS
<1>1. production \in Container /\ Original \notin Unfit
  BY ImagesAssumption DEF Init, Images
<1>2. production # None /\ production.image = Original /\ Serving(production)
  BY <1>1, NoneIsApart DEF Init, Serving
<1>3. /\ bPhase = [r \in Releases |-> "untouched"]
      /\ bPrevious = [r \in Releases |-> None]
      /\ bRetained = {} /\ bWatched = {}
  BY DEF Init, bPhase, bPrevious, bRetained, bWatched, PhaseOf
<1> QED
  BY <1>2, <1>3 DEF Contract!ContractInit, bPhase, bPrevious, bRetained, bWatched

(* Whoever has its image kept aside is watched, or committed.              *)
LEMMA Supervises ==
  ASSUME TypeOK, TypeOK', RecordsInv', UNCHANGED <<containers, disk>>
  PROVE  ContractStep
<1>1. \A r \in bRetained : PhaseOf(disk[r]) \notin {"committed", "withdrawing"} => r \in bWatched'
  BY DEF TypeOK, RecordsInv, containers, bRetained, bWatched, PhaseOf, Retained, Armed, Recorded, Committed
<1>2. bWatched' \in SUBSET Releases
  BY DEF TypeOK, bWatched
<1>3. Contract!Supervise
  BY <1>1, <1>2 DEF Contract!Supervise, Contract!service, containers, bRetained, bWatched
<1> QED
  BY <1>3 DEF ContractStep, Contract!ContractNext

-----------------------------------------------------------------------------
(* The effects on containers.                                              *)

LEMMA ContainerEffect ==
  ASSUME ~InspectFaults, Inv1, Inv2, NEW o \in Outcomes,
         \/ RetainCurrent(o) \/ StopRetained(o) \/ CreateCandidate(o) \/ ConnectCandidate(o)
         \/ StartCandidate(o) \/ RemoveCandidate(o) \/ Reinstate(o) \/ StartRestored(o)
  PROVE  ContractStep
<1> USE NoneIsApart, ImagesAreApart DEF At, Docker
<1>1. PICK r \in Releases : r = R
  BY DEF Inv1, TypeOK, R, RetainCurrent, StopRetained, CreateCandidate, ConnectCandidate,
     StartCandidate, RemoveCandidate, Reinstate, StartRestored, Start
<1>2. /\ holder # None /\ holder.state \in Record
      /\ production \in Container \cup {None} /\ backup \in [Releases -> Container \cup {None}]
      /\ UNCHANGED <<disk, enabled, active>>
  BY DEF Inv1, TypeOK, RetainCurrent, StopRetained, CreateCandidate, ConnectCandidate,
     StartCandidate, RemoveCandidate, Reinstate, StartRestored, Start, timers
<1>3. bPhase' = bPhase /\ bPrevious' = bPrevious /\ bWatched' = bWatched
  BY <1>2 DEF bPhase, bPrevious, bWatched
<1>4. CASE ~TakesEffect(o)
  <2>1. UNCHANGED <<production, backup>>
    BY <1>4 DEF RetainCurrent, StopRetained, CreateCandidate, ConnectCandidate,
       StartCandidate, RemoveCandidate, Reinstate, StartRestored, Start
  <2> QED
    BY <1>3, <2>1, Stutters DEF bInstalled, bHealthy, bRetained, Serving
<1>5. CASE TakesEffect(o) /\ RetainCurrent(o)
  <2>1. /\ backup' = [backup EXCEPT ![r] = production] /\ production' = None /\ backup[r] = None
    BY <1>1, <1>5 DEF RetainCurrent
  <2>2. Serving(production) /\ disk[r] = holder.state /\ holder.state.status = "preparing"
        /\ production.image = holder.state.old_image /\ Armed(r)
    BY <1>1, <1>5 DEF RetainCurrent, Inv1, Inv2, ContainersInv, HolderInv, Armed
  <2>3. production # None
    BY <2>2 DEF Serving
  <2>4. bPhase[r] = "open" /\ bPrevious[r] = production.image
    BY <1>2, <2>2 DEF bPhase, bPrevious, PhaseOf
  <2>5. r \in bWatched \ bRetained /\ bRetained' = bRetained \cup {r}
    BY <1>2, <2>1, <2>2, <2>3 DEF bWatched, bRetained, Armed
  <2>6. bHealthy /\ ~bHealthy' /\ bInstalled = production.image /\ bInstalled' = None
    BY <2>1, <2>2, <2>3 DEF bHealthy, bInstalled, Serving
  <2>7. Contract!SetAside(r)
    BY <1>3, <2>4, <2>5, <2>6 DEF Contract!SetAside, bInstalled, bHealthy, bPhase, bPrevious,
       bRetained, bWatched
  <2> QED
    BY <2>7 DEF ContractStep, Contract!ContractNext
<1>6. CASE TakesEffect(o) /\ StopRetained(o)
  <2>1. Retained(r) /\ backup[r] \in Container
    BY <1>1, <1>2, <1>6 DEF StopRetained, Inv1, ContainersInv, Retained, R
  <2>2. production' = production /\ backup' = [backup EXCEPT ![r].running = FALSE]
    BY <1>1, <1>6 DEF StopRetained
  <2>3. bRetained' = bRetained
    BY <1>2, <2>1, <2>2 DEF bRetained
  <2> QED
    BY <1>3, <2>2, <2>3, Stutters DEF bInstalled, bHealthy, Serving
<1>7. CASE TakesEffect(o) /\ CreateCandidate(o)
  <2>1. production = None /\ UNCHANGED backup
        /\ production' = [image |-> r, running |-> FALSE, joined |-> FALSE]
    BY <1>1, <1>7 DEF CreateCandidate
  <2>2. Retained(r) /\ disk[r] = holder.state /\ holder.state.status = "preparing"
    BY <1>1, <1>7 DEF CreateCandidate, Inv2, HolderInv, Retained
  <2>3. production' \in Container /\ production'.image = r /\ ~production'.running
    BY <2>1 DEF Images
  <2>4. bInstalled = None /\ bInstalled' = r /\ ~bHealthy' /\ bRetained' = bRetained
    BY <2>1, <2>3 DEF bInstalled, bHealthy, bRetained, Serving
  <2>5. bPhase[r] = "open" /\ r \in bRetained
    BY <1>2, <2>2 DEF bPhase, PhaseOf, bRetained, Retained
  <2>6. Contract!Install(r)
    BY <1>3, <2>4, <2>5 DEF Contract!Install, bInstalled, bHealthy, bPhase, bPrevious,
       bRetained, bWatched
  <2> QED
    BY <2>6 DEF ContractStep, Contract!ContractNext
<1>8. CASE TakesEffect(o) /\ (ConnectCandidate(o) \/ StartCandidate(o) \/ StartRestored(o))
  <2>1. /\ production \in Container /\ UNCHANGED backup
        /\ \/ production' = [production EXCEPT !.joined = TRUE]
           \/ production' = [production EXCEPT !.running = TRUE]
    BY <1>2, <1>8 DEF ConnectCandidate, StartCandidate, StartRestored, Start, Inv1, ContainersInv
  <2>2. production' \in Container /\ production'.image = production.image
        /\ (Serving(production) => Serving(production'))
    BY <2>1 DEF Serving
  <2>3. bInstalled' = bInstalled /\ bInstalled # None /\ (bHealthy => bHealthy')
        /\ bRetained' = bRetained
    BY <2>1, <2>2 DEF bInstalled, bHealthy, bRetained
  <2>4. CASE bHealthy' = bHealthy
    BY <1>3, <2>3, <2>4, Stutters
  <2>5. CASE ~bHealthy /\ bHealthy'
    <3>1. Contract!ComeUp
      BY <1>3, <2>3, <2>5 DEF Contract!ComeUp, bInstalled, bHealthy, bPhase, bPrevious,
         bRetained, bWatched
    <3> QED
      BY <3>1 DEF ContractStep, Contract!ContractNext
  <2> QED
    BY <2>3, <2>4, <2>5 DEF bHealthy, Serving
<1>9. CASE TakesEffect(o) /\ (RemoveCandidate(o) \/ Reinstate(o))
  <2>1. Retained(r) /\ disk[r] # None /\ disk[r].status = "restoring" /\ disk[r] \in Record
    BY <1>1, <1>2, <1>9 DEF RemoveCandidate, Reinstate, Inv1, Inv2, TypeOK, HolderInv, Retained
  <2>2. bPhase[r] \in {"undoing", "withdrawing"} /\ r \in bRetained
        /\ bPrevious[r] = disk[r].old_image
    BY <2>1 DEF bPhase, PhaseOf, bRetained, Retained, bPrevious
  <2>3. CASE RemoveCandidate(o)
    <3>1. production' = None /\ UNCHANGED backup
      BY <1>9, <2>3 DEF RemoveCandidate
    <3>2. bInstalled' = None /\ ~bHealthy' /\ bRetained' = bRetained
      BY <3>1 DEF bInstalled, bHealthy, bRetained, Serving
    <3>3. CASE production = None
      BY <1>3, <3>1, <3>2, <3>3, Stutters DEF bInstalled, bHealthy, Serving
    <3>4. CASE production # None
      <4>1. bInstalled # None
        BY <1>2, <3>4 DEF bInstalled
      <4>2. Contract!Remove(r)
        BY <1>3, <2>2, <3>2, <4>1 DEF Contract!Remove, Contract!GoingBack, bInstalled, bHealthy,
           bPhase, bPrevious, bRetained, bWatched
      <4> QED
        BY <4>2 DEF ContractStep, Contract!ContractNext
    <3> QED
      BY <3>3, <3>4
  <2>4. CASE Reinstate(o)
    <3>1. production = None /\ production' = backup[r] /\ backup' = [backup EXCEPT ![r] = None]
      BY <1>1, <1>9, <2>4 DEF Reinstate
    <3>2. backup[r] \in Container /\ backup[r].image = disk[r].old_image
      BY <1>2, <2>1 DEF Retained, Inv2, RecordsInv
    <3>3. bInstalled = None /\ bInstalled' = bPrevious[r] /\ bHealthy' \in BOOLEAN
      BY <2>2, <3>1, <3>2 DEF bInstalled, bHealthy, Serving
    <3>4. bRetained' = bRetained \ {r}
      BY <1>2, <3>1 DEF bRetained
    <3>5. Contract!PutBack(r)
      BY <1>3, <2>2, <3>3, <3>4 DEF Contract!PutBack, Contract!GoingBack, bInstalled, bHealthy,
         bPhase, bPrevious, bRetained, bWatched
    <3> QED
      BY <3>5 DEF ContractStep, Contract!ContractNext
  <2> QED
    BY <1>9, <2>3, <2>4
<1> QED
  BY <1>4, <1>5, <1>6, <1>7, <1>8, <1>9

-----------------------------------------------------------------------------
(* The writes of the record.                                               *)

LEMMA Rewrites ==
  ASSUME TypeOK, NEW r \in Releases, NEW st \in Record, disk' = [disk EXCEPT ![r] = st],
         UNCHANGED <<containers, timers>>
  PROVE  /\ bPhase' = [bPhase EXCEPT ![r] = PhaseOf(st)]
         /\ bPrevious' = [bPrevious EXCEPT ![r] = st.old_image]
         /\ bInstalled' = bInstalled /\ bHealthy' = bHealthy
         /\ bRetained' = bRetained /\ bWatched' = bWatched
<1>1. bPhase' = [bPhase EXCEPT ![r] = PhaseOf(st)]
  BY DEF TypeOK, bPhase
<1>2. bPrevious' = [bPrevious EXCEPT ![r] = st.old_image]
  BY NoneIsApart DEF TypeOK, bPrevious
<1> QED
  BY <1>1, <1>2 DEF bInstalled, bHealthy, bRetained, bWatched, containers, timers, Serving

(* What the writers make of the record they hold.                          *)
NewRecord(s, c, i) == [status |-> s, committed |-> c, old_image |-> i]

LEMMA Rewritten ==
  ASSUME NEW d \in Record, NEW s \in Status, NEW c \in BOOLEAN
  PROVE  /\ d = NewRecord(d.status, d.committed, d.old_image)
         /\ [d EXCEPT !.status = s] = NewRecord(s, d.committed, d.old_image)
         /\ [d EXCEPT !.status = s, !.committed = c] = NewRecord(s, c, d.old_image)
<1> DEFINE e == [d EXCEPT !.status = s]
           f == [d EXCEPT !.status = s, !.committed = c]
           x == NewRecord(s, d.committed, d.old_image)
           y == NewRecord(s, c, d.old_image)
<1>1. e \in Record /\ e.status = s /\ e.committed = d.committed /\ e.old_image = d.old_image
  OBVIOUS
<1>2. f \in Record /\ f.status = s /\ f.committed = c /\ f.old_image = d.old_image
  OBVIOUS
<1>3. x \in Record /\ x.status = s /\ x.committed = d.committed /\ x.old_image = d.old_image
  BY DEF NewRecord
<1>4. y \in Record /\ y.status = s /\ y.committed = c /\ y.old_image = d.old_image
  BY DEF NewRecord
<1>5. d = NewRecord(d.status, d.committed, d.old_image)
  BY DEF NewRecord
<1> HIDE DEF e, f, x, y
<1>6. e = x /\ f = y
  BY <1>1, <1>2, <1>3, <1>4, SameRecord
<1> QED
  BY <1>5, <1>6 DEF e, f, x, y

(* The phase that a rewritten record stands for.                           *)
LEMMA PhaseRewritten ==
  ASSUME NEW s \in Status, NEW c \in BOOLEAN, NEW i \in Images
  PROVE  /\ NewRecord(s, c, i) \in Record /\ NewRecord(s, c, i).old_image = i
         /\ s = "preparing" => PhaseOf(NewRecord(s, c, i)) = "open"
         /\ s = "deployed" => PhaseOf(NewRecord(s, c, i)) = "deployed"
         /\ s = "restoring" =>
              PhaseOf(NewRecord(s, c, i)) = IF c THEN "withdrawing" ELSE "undoing"
         /\ s \in {"rolled_back", "failed_pre_cutover"} => PhaseOf(NewRecord(s, c, i)) = "over"
<1> DEFINE st == NewRecord(s, c, i)
<1>1. st \in Record /\ st.status = s /\ st.committed = c /\ st.old_image = i
  BY DEF NewRecord
<1> HIDE DEF st
<1>2. st # None
  BY <1>1, NoneIsApart
<1> QED
  BY <1>1, <1>2 DEF PhaseOf, st

(* A write that moves one release along.                                   *)
LEMMA Moves ==
  ASSUME NEW r \in Releases, NEW p,
         bPhase' = [bPhase EXCEPT ![r] = p], bPrevious' = bPrevious,
         bInstalled' = bInstalled, bHealthy' = bHealthy, bRetained' = bRetained,
         bWatched' = bWatched,
         \/ bPhase[r] = p
         \/ /\ bHealthy /\ bInstalled = r /\ r \in bRetained
            /\ \/ bPhase[r] = "open" /\ p = "deployed"
               \/ bPhase[r] = "deployed" /\ p = "committed"
         \/ /\ r \in bRetained
            /\ \/ bPhase[r] \in {"open", "deployed"} /\ p = "undoing"
               \/ bPhase[r] = "committed" /\ p = "withdrawing"
         \/ /\ bPhase[r] \in {"undoing", "withdrawing"} /\ r \notin bRetained
            /\ bHealthy /\ bInstalled = bPrevious[r] /\ p = "over"
         \/ bPhase[r] = "open" /\ r \notin bRetained /\ bInstalled # None /\ p = "over"
  PROVE  ContractStep
<1>1. CASE bPhase[r] = p
  <2>1. bPhase' = bPhase
    BY <1>1 DEF bPhase
  <2> QED
    BY <2>1, Stutters
<1>2. CASE bPhase[r] # p
  <2>1. Contract!Confirm(r) \/ Contract!TurnBack(r) \/ Contract!Undone(r) \/ Contract!Abandon(r)
    BY <1>2 DEF Contract!Confirm, Contract!TurnBack, Contract!Undone, Contract!Abandon,
       Contract!GoingBack, Contract!Reaches, Contract!service, bInstalled, bHealthy, bPhase,
       bPrevious, bRetained, bWatched
  <2> QED
    BY <2>1 DEF ContractStep, Contract!ContractNext
<1> QED
  BY <1>1, <1>2

(* Every write of a record is a step of the contract, or changes nothing   *)
(* it sees.                                                                *)
LEMMA RecordEffect ==
  ASSUME ~InspectFaults, Inv1, Inv2, NEW o \in Outcomes, NEW status \in Status,
         Writes(o, status)
  PROVE  ContractStep
<1> USE NoneIsApart, ImagesAreApart DEF At, Save
<1>1. PICK r \in Releases : r = R
  BY DEF Inv1, TypeOK, R, Writes, RecordRelease, RecordDeployed, RecordAbandoned, BeginRestore,
     RecordRestored, RecordCommitted
<1> DEFINE d == disk[r]
           m == holder.state
<1>2. /\ holder # None /\ m \in Record /\ d \in Record \cup {None} /\ TypeOK
      /\ UNCHANGED <<containers, timers>>
  BY DEF Inv1, TypeOK, Writes, RecordRelease, RecordDeployed, RecordAbandoned, BeginRestore,
     RecordRestored, RecordCommitted
<1>3. CASE disk' = disk
  BY <1>2, <1>3, Stutters DEF bInstalled, bHealthy, bPhase, bPrevious, bRetained, bWatched,
     containers, timers, Serving
<1>4. ASSUME NEW st \in Record, disk' = [disk EXCEPT ![r] = st]
      PROVE  /\ bPhase' = [bPhase EXCEPT ![r] = PhaseOf(st)]
             /\ bPrevious' = [bPrevious EXCEPT ![r] = st.old_image]
             /\ d # None /\ d.old_image = st.old_image =>
                  bPrevious' = bPrevious /\ bPrevious[r] = st.old_image
             /\ bInstalled' = bInstalled /\ bHealthy' = bHealthy
             /\ bRetained' = bRetained /\ bWatched' = bWatched
  <2>1. bPrevious' = [bPrevious EXCEPT ![r] = st.old_image]
    BY <1>2, <1>4, Rewrites
  <2>2. d # None /\ d.old_image = st.old_image => bPrevious' = bPrevious /\ bPrevious[r] = st.old_image
    BY <2>1 DEF bPrevious
  <2> QED
    BY <1>2, <1>4, <2>2, Rewrites
<1>5. CASE disk' # disk /\ RecordRelease(o)
  <2> DEFINE st == NewRecord("preparing", m.committed, m.old_image)
  <2>1. d = None /\ m.status = "preparing" /\ Serving(production) /\ production.image = m.old_image
    BY <1>1, <1>2, <1>5 DEF RecordRelease, Inv1, Inv2, ContainersInv, HolderInv
  <2>2. disk' = [disk EXCEPT ![r] = st]
    BY <1>1, <1>2, <1>5, <2>1, Rewritten DEF RecordRelease
  <2>3. st \in Record /\ st.old_image = m.old_image /\ PhaseOf(st) = "open"
    BY <1>2, PhaseRewritten
  <2>4. bPhase[r] = "untouched" /\ bHealthy /\ bInstalled = m.old_image
    BY <2>1 DEF bPhase, PhaseOf, bInstalled, bHealthy, Serving
  <2> HIDE DEF st
  <2>5. /\ bPhase' = [bPhase EXCEPT ![r] = "open"]
        /\ bPrevious' = [bPrevious EXCEPT ![r] = bInstalled]
        /\ bInstalled' = bInstalled /\ bHealthy' = bHealthy
        /\ bRetained' = bRetained /\ bWatched' = bWatched
    BY <1>2, <1>4, <2>2, <2>3, <2>4
  <2>6. Contract!Begin(r)
    BY <2>4, <2>5 DEF Contract!Begin, Contract!Reaches, Contract!service, bInstalled,
       bHealthy, bPhase, bPrevious, bRetained, bWatched
  <2> QED
    BY <2>6 DEF ContractStep, Contract!ContractNext
<1>6. CASE disk' # disk /\ RecordDeployed(o)
  <2> DEFINE st == NewRecord("deployed", m.committed, m.old_image)
  <2>1. /\ d = m /\ m.status = "preparing" /\ Retained(r)
        /\ Serving(production) /\ production.image = r
    BY <1>1, <1>2, <1>6 DEF RecordDeployed, Inv1, Inv2, ContainersInv, HolderInv
  <2>2. disk' = [disk EXCEPT ![r] = st]
    BY <1>1, <1>2, <1>6, Rewritten DEF RecordDeployed
  <2>3. bPhase[r] = "open" /\ bHealthy /\ bInstalled = r /\ r \in bRetained
    BY <1>2, <2>1 DEF bPhase, PhaseOf, bHealthy, bInstalled, bRetained, Retained, Serving
  <2>4. st \in Record /\ st.old_image = m.old_image /\ PhaseOf(st) = "deployed"
    BY <1>2, PhaseRewritten
  <2> HIDE DEF st
  <2> QED
    BY <1>2, <1>4, <2>1, <2>2, <2>3, <2>4, Moves
<1>7. CASE disk' # disk /\ RecordAbandoned(o)
  <2> DEFINE st == NewRecord("failed_pre_cutover", FALSE, m.old_image)
  <2>1. /\ d # None /\ d.old_image = m.old_image /\ ~d.committed /\ ~Retained(r)
        /\ production # None /\ d.status \in {"preparing", "rolled_back", "failed_pre_cutover"}
    BY <1>1, <1>2, <1>7 DEF RecordAbandoned, Inv1, Inv2, ContainersInv, RecordsInv, HolderInv,
       Recorded, Retained
  <2>2. disk' = [disk EXCEPT ![r] = st]
    BY <1>1, <1>2, <1>7, Rewritten DEF RecordAbandoned
  <2>3. bPhase[r] \in {"open", "over"} /\ r \notin bRetained /\ bInstalled # None
    BY <1>2, <2>1 DEF bPhase, PhaseOf, bInstalled, bRetained, Retained, TypeOK
  <2>4. st \in Record /\ st.old_image = m.old_image /\ PhaseOf(st) = "over"
    BY <1>2, PhaseRewritten
  <2> HIDE DEF st
  <2> QED
    BY <1>2, <1>4, <2>1, <2>2, <2>3, <2>4, Moves
<1>8. CASE disk' # disk /\ BeginRestore(o)
  <2> DEFINE st == NewRecord("restoring", m.committed, m.old_image)
  <2>1. /\ d # None /\ d.old_image = m.old_image /\ d.committed = m.committed /\ Retained(r)
        /\ d.status \in {"preparing", "deployed", "committed", "restoring"}
        /\ d.committed <=> (d.status = "committed" \/ (d.status = "restoring" /\ d.committed))
    BY <1>1, <1>2, <1>8 DEF BeginRestore, Sees, Inv1, Inv2, RecordsInv, HolderInv, Recorded,
       Retained, Committed
  <2>2. disk' = [disk EXCEPT ![r] = st]
    BY <1>1, <1>2, <1>8, Rewritten DEF BeginRestore
  <2>3. st \in Record /\ st.old_image = m.old_image /\ PhaseOf(st) = IF m.committed THEN "withdrawing" ELSE "undoing"
    BY <1>2, PhaseRewritten
  <2>4. /\ r \in bRetained
        /\ m.committed => bPhase[r] \in {"committed", "withdrawing"}
        /\ ~m.committed => bPhase[r] \in {"open", "deployed", "undoing"}
    BY <1>2, <2>1 DEF bPhase, PhaseOf, bRetained, Retained
  <2> HIDE DEF st
  <2> QED
    BY <1>2, <1>4, <2>1, <2>2, <2>3, <2>4, Moves, ZenonT(60)
<1>9. CASE disk' # disk /\ RecordRestored(o)
  <2> DEFINE st == NewRecord("rolled_back", FALSE, m.old_image)
  <2>1. /\ d # None /\ d.old_image = m.old_image /\ d.status = "restoring" /\ ~Retained(r)
        /\ Serving(production) /\ production.image = m.old_image
    BY <1>1, <1>2, <1>9 DEF RecordRestored, Inv1, Inv2, ContainersInv, HolderInv
  <2>2. disk' = [disk EXCEPT ![r] = st]
    BY <1>1, <1>2, <1>9, Rewritten DEF RecordRestored
  <2>3. st \in Record /\ st.old_image = m.old_image /\ PhaseOf(st) = "over"
    BY <1>2, PhaseRewritten, ZenonT(60)
  <2>4. /\ bPhase[r] \in {"undoing", "withdrawing"} /\ r \notin bRetained
        /\ bHealthy /\ bInstalled = m.old_image /\ bPrevious[r] = m.old_image
    BY <1>2, <2>1 DEF bPhase, PhaseOf, bHealthy, bInstalled, bPrevious, bRetained, Retained, Serving
  <2> HIDE DEF st
  <2> QED
    BY <1>2, <1>4, <2>1, <2>2, <2>3, <2>4, Moves
<1>10. CASE disk' # disk /\ RecordCommitted(o)
  <2> DEFINE st == NewRecord("committed", TRUE, m.old_image)
  <2>1. /\ d # None /\ d.old_image = m.old_image
        /\ d.status \in {"deployed", "committed"} /\ Retained(r)
        /\ Serving(production) /\ production.image = r
    BY <1>1, <1>2, <1>10 DEF RecordCommitted, Inv1, Inv2, ContainersInv, RecordsInv, HolderInv,
       Recorded
  <2>2. disk' = [disk EXCEPT ![r] = st]
    BY <1>1, <1>2, <1>10, Rewritten DEF RecordCommitted
  <2>3. st \in Record /\ st.old_image = m.old_image /\ PhaseOf(st) = "committed"
    <3>1. st \in Record /\ st.status = "committed" /\ st.old_image = m.old_image
      BY <1>2 DEF NewRecord
    <3> HIDE DEF st
    <3> QED
      BY <3>1 DEF PhaseOf
  <2>4. bPhase[r] \in {"deployed", "committed"} /\ bHealthy /\ bInstalled = r /\ r \in bRetained
    BY <1>2, <2>1 DEF bPhase, PhaseOf, bHealthy, bInstalled, bRetained, Retained, Serving
  <2> HIDE DEF st
  <2>5. /\ bPhase' = [bPhase EXCEPT ![r] = "committed"] /\ bPrevious' = bPrevious
        /\ bInstalled' = bInstalled /\ bHealthy' = bHealthy
        /\ bRetained' = bRetained /\ bWatched' = bWatched
    BY <1>2, <1>4, <2>1, <2>2, <2>3
  <2> QED
    BY <2>4, <2>5, Moves
<1>11. \/ RecordRelease(o) \/ RecordDeployed(o) \/ RecordAbandoned(o)
       \/ BeginRestore(o) \/ RecordRestored(o) \/ RecordCommitted(o)
  BY DEF Writes
<1> QED
  BY ONLY <1>3, <1>5, <1>6, <1>7, <1>8, <1>9, <1>10, <1>11

-----------------------------------------------------------------------------
(* Everything else leaves the containers and the records alone.            *)

LEMMA OtherEffect ==
  ASSUME [Next]_vars
  PROVE  \/ UNCHANGED <<containers, disk>>
         \/ \E o \in Outcomes :
              \/ RetainCurrent(o) \/ StopRetained(o) \/ CreateCandidate(o) \/ ConnectCandidate(o)
              \/ StartCandidate(o) \/ RemoveCandidate(o) \/ Reinstate(o) \/ StartRestored(o)
              \/ \E status \in Status : Writes(o, status)
<1> USE DEF Decide, Abort, Acquire, containers
<1>1. ASSUME NEW r \in Releases, Verb(r) \/ Fire(r) \/ GiveUp(r) \/ Expire(r)
      PROVE  UNCHANGED <<containers, disk>>
  BY <1>1 DEF Verb, Deploy, Rollback, Commit, Watchdog, Fire, GiveUp, Expire
<1>2. CASE Decision \/ Crash \/ Reboot \/ UNCHANGED vars
  BY <1>2 DEF Decision, CandidateGate, RestoreGate, Recover, CheckProduction, ResumeRestore,
     RefuseRestore, Crash, Reboot, vars
<1>3. ASSUME NEW o \in Outcomes, ArmWatchdog(o) \/ Abandon(o) \/ Disarm(o)
      PROVE  UNCHANGED <<containers, disk>>
  BY <1>3 DEF ArmWatchdog, Abandon, Disarm, StopTimer
<1> QED
  BY <1>1, <1>2, <1>3 DEF Next, Step, Writes

(* Every step maps to a step or a stutter.                                 *)
LEMMA EveryStep == ~InspectFaults /\ Inv1 /\ Inv2 /\ [Next]_vars => ContractStep
<1> SUFFICES ASSUME ~InspectFaults, Inv1, Inv2, [Next]_vars
             PROVE  ContractStep
  OBVIOUS
<1>1. Inv1' /\ Inv2'
  BY NextInv1, NextInv2
<1>2. CASE UNCHANGED <<containers, disk>>
  BY <1>1, <1>2, Supervises DEF Inv1, Inv2
<1>3. ASSUME NEW o \in Outcomes,
             \/ RetainCurrent(o) \/ StopRetained(o) \/ CreateCandidate(o) \/ ConnectCandidate(o)
             \/ StartCandidate(o) \/ RemoveCandidate(o) \/ Reinstate(o) \/ StartRestored(o)
      PROVE  ContractStep
  BY <1>3, ContainerEffect
<1>4. ASSUME NEW o \in Outcomes, NEW status \in Status, Writes(o, status)
      PROVE  ContractStep
  BY <1>4, RecordEffect
<1> QED
  BY <1>2, <1>3, <1>4, OtherEffect

(* The broker implements the contract: for any number of releases and any  *)
(* unfit images, every behaviour of llm_proxy_deploy.py, with its races,   *)
(* failures, deaths and reboots, is a behaviour of CutoverContract.        *)
THEOREM BrokerImplementsContract == ASSUME ~InspectFaults PROVE Spec => ImplementsContract
<1>1. Inv1 /\ Inv2 /\ [Next]_vars => [Contract!ContractNext]_(Contract!contractVars)
  BY EveryStep DEF ContractStep
<1> QED
  BY <1>1, InitContract, Inv2Always, PTL DEF Spec, ImplementsContract, Contract!ContractSpec
=============================================================================
