---------------------------- MODULE ReleaseFiles ----------------------------
(***************************************************************************)
(* The two files a release leaves in RELEASES_ROOT, <sha>.env and          *)
(* <sha>.json, and how atomic_bytes replaces them: a temporary file is     *)
(* written and synced, takes the file's name, and the directory is synced. *)
(* The process may die and the host may lose power between any two of      *)
(* these calls; DeployBroker takes the whole for one step, Save.           *)
(***************************************************************************)
CONSTANTS
  Settings, \* contents of the .env file
  Statuses, \* what else the record says
  None,     \* no such file
  Torn      \* contents that were not on the disk when the power went

Files == {"env", "record"}
Record == [settings: Settings, status: Statuses]  \* a record, and the .env it was made with
Bodies == Settings \cup Record
Content == [body: Bodies, synced: BOOLEAN]

Steps == {"write", "fsync", "replace", "fsync_directory"}
Writer == [file: Files, body: Bodies, synced: BOOLEAN, step: Steps, record: Record]

ASSUME NoneAssumption == None \notin Content \cup Writer \cup {Torn} /\ Torn \notin Content
ASSUME SettingsAssumption == Settings \cap Record = {}

VARIABLES
  entry,  \* per file: what its name leads to
  older,  \* per file: what the name on the disk may still lead to instead
  writer, \* the process that holds the lock and writes, or None
  since   \* history: per file, the content last reported as written, or None,
          \* and those whose writing has begun since

vars == <<entry, older, writer, since>>

TypeOK ==
  /\ entry \in [Files -> Content \cup {None, Torn}]
  /\ older \in [Files -> SUBSET (Content \cup {None})]
  /\ writer \in Writer \cup {None}
  /\ since \in [Files -> SUBSET (Bodies \cup {None})]

Init ==
  /\ entry = [f \in Files |-> None]
  /\ older = [f \in Files |-> {}]
  /\ writer = None
  /\ since = [f \in Files |-> {None}]

-----------------------------------------------------------------------------
Begins(f, body, record) ==
  /\ writer' = [file |-> f, body |-> body, synced |-> FALSE, step |-> "write", record |-> record]
  /\ since' = [since EXCEPT ![f] = @ \cup {body}]

(* deploy: only a release without a record; the settings first.            *)
Deploy(record) ==
  /\ writer = None
  /\ entry["record"] = None
  /\ Begins("env", record.settings, record)
  /\ UNCHANGED <<entry, older>>

(* Faulty variant: a verb that does not start from the record on disk.     *)
RewriteFromScratch(status) ==
  /\ writer = None
  /\ entry["record"] \notin {None, Torn}
  /\ Begins("record", [status |-> status], [status |-> status])
  /\ UNCHANGED <<entry, older>>

(* Any verb that writes the record it has loaded.                          *)
Rewrite(status) ==
  /\ writer = None
  /\ entry["record"] \notin {None, Torn}
  /\ LET record == [entry["record"].body EXCEPT !.status = status] IN
       Begins("record", record, record)
  /\ UNCHANGED <<entry, older>>

At(step) == writer # None /\ writer.step = step
Goes(step) == writer' = [writer EXCEPT !.step = step] /\ UNCHANGED since

Write == At("write") /\ Goes("fsync") /\ UNCHANGED <<entry, older>>

FsyncSkipped ==   \* faulty variant
  /\ At("fsync")
  /\ Goes("replace")
  /\ UNCHANGED <<entry, older>>
Fsync ==
  /\ At("fsync")
  /\ writer' = [writer EXCEPT !.step = "replace", !.synced = TRUE]
  /\ UNCHANGED <<entry, older, since>>

(* os.replace, and the chmod that follows it.                              *)
Replace ==
  /\ At("replace")
  /\ entry' = [entry EXCEPT ![writer.file] = [body |-> writer.body, synced |-> writer.synced]]
  /\ older' = [older EXCEPT ![writer.file] = @ \cup ({entry[writer.file]} \ {Torn})]
  /\ Goes("fsync_directory")

(* The write is reported; deploy goes on from the settings to the record.  *)
Reported ==
  IF writer.file = "env"
    THEN /\ writer' = [writer EXCEPT !.file = "record", !.body = writer.record,
                                     !.synced = FALSE, !.step = "write"]
         /\ since' = [since EXCEPT !["env"] = {writer.body}, !["record"] = @ \cup {writer.record}]
    ELSE /\ writer' = None
         /\ since' = [since EXCEPT !["record"] = {writer.body}]

FsyncDirectorySkipped ==   \* faulty variant
  /\ At("fsync_directory")
  /\ Reported
  /\ UNCHANGED <<entry, older>>
FsyncDirectory ==
  /\ At("fsync_directory")
  /\ older' = [f \in Files |-> {}]
  /\ Reported
  /\ UNCHANGED entry

(* A call fails, and the exception leaves the verb's write, or the process *)
(* dies: its temporary file is removed, or stays under a name nobody reads. *)
Stop ==
  /\ writer # None
  /\ writer' = None
  /\ UNCHANGED <<entry, older, since>>

Survivors(f) ==
  {entry[f]} \cup older[f]
    \cup (IF \E c \in {entry[f]} \cup older[f] : c \in Content /\ ~c.synced THEN {Torn} ELSE {})

PowerLoss ==
  /\ writer' = None
  /\ entry' \in [Files -> UNION {Survivors(f) : f \in Files}]
  /\ \A f \in Files : entry'[f] \in Survivors(f)
  /\ older' = [f \in Files |-> {}]
  /\ UNCHANGED since

Next ==
  \/ \E record \in Record : Deploy(record)
  \/ \E status \in Statuses : Rewrite(status)
  \/ Write \/ Fsync \/ Replace \/ FsyncDirectory \/ Stop \/ PowerLoss

Spec == Init /\ [][Next]_vars

-----------------------------------------------------------------------------
(* Whoever reads a file, at any moment and without the lock (load_release, *)
(* status, docker create), finds it whole and finds the last content       *)
(* reported as written, or one whose writing has begun since: a failed     *)
(* write, a death or a power loss never brings an older one back.          *)
BodyOf(c) == IF c \in {None, Torn} THEN c ELSE c.body
ReadersFindTheLastWrite == \A f \in Files : BodyOf(entry[f]) \in since[f]

(* A release that has a record has the settings it was recorded with, now  *)
(* and after a power loss: deploy writes them first, and nothing writes    *)
(* them again once there is a record.                                      *)
SettingsBehindRecord ==
  entry["record"] # None =>
    /\ entry["record"] # Torn /\ entry["env"] \notin {None, Torn}
    /\ entry["env"].body = entry["record"].body.settings

(* What the broker's verbs rely on: seen from them, the calls that replace *)
(* a record's file are one write of the record, which a power loss may     *)
(* take back until a directory sync; the file of the settings is nothing   *)
(* but further syncs.                                                      *)
Store == INSTANCE RecordStore WITH
  record    <- BodyOf(entry["record"]),
  revocable <- {BodyOf(c) : c \in older["record"]}
ImplementsRecordStore == Store!StoreSpec
=============================================================================
