------------------------- MODULE ReleaseFilesProofs -------------------------
(***************************************************************************)
(* For any settings and statuses, and any number of writes, failures,      *)
(* deaths and power losses: a release's files are whole and agree.         *)
(***************************************************************************)
EXTENDS ReleaseFiles, TLAPS

(* Only synced contents ever get a name, and only those in "since" do.     *)
Sound(f, c) ==
  c # None =>
    /\ c \in Content /\ c.synced
    /\ c.body \in IF f = "env" THEN Settings ELSE Record
ContentsInv ==
  \A f \in Files : \A c \in {entry[f]} \cup older[f] :
    Sound(f, c) /\ c # Torn /\ BodyOf(c) \in since[f]

WriterInv ==
  writer # None =>
    /\ writer.body \in since[writer.file]
    /\ writer.body = IF writer.file = "env" THEN writer.record.settings ELSE writer.record
    /\ writer.step \in {"replace", "fsync_directory"} => writer.synced
    /\ writer.step = "fsync_directory" =>
         entry[writer.file] # None /\ entry[writer.file].body = writer.body
    /\ writer.file = "env" => entry["record"] = None

(* Once a record is written or being written, its settings are settled.    *)
SettledFor(settings) ==
  older["env"] = {} /\ entry["env"] # None /\ entry["env"].body = settings
SettledInv ==
  /\ entry["record"] = None => older["record"] = {}
  /\ \A c \in {entry["record"]} \cup older["record"] : c # None => SettledFor(c.body.settings)
  /\ writer # None /\ writer.file = "record" => SettledFor(writer.record.settings)

IInv == TypeOK /\ ContentsInv /\ WriterInv /\ SettledInv

(* No file to begin with.                                                  *)
LEMMA InitIInv == Init => IInv
BY NoneAssumption DEF Init, IInv, TypeOK, ContentsInv, Sound, BodyOf, WriterInv, SettledInv, Files

(* A content, a torn file and no file are three things.                    *)
LEMMA ContentIsApart ==
  /\ None # Torn
  /\ \A c \in Content : c # None /\ c # Torn
  /\ \A w \in Writer : w # None
BY NoneAssumption

(* Nothing that can be found after a power loss is torn.                   *)
LEMMA SurvivorsAreWhole ==
  ASSUME ContentsInv, NEW f \in Files
  PROVE  Survivors(f) = {entry[f]} \cup older[f]
BY ContentIsApart DEF ContentsInv, Sound, Survivors

(* Every step, one case per call of atomic_bytes.                          *)
LEMMA StepIInv == IInv /\ [Next]_vars => IInv'
<1> SUFFICES ASSUME IInv, [Next]_vars
             PROVE  IInv'
  OBVIOUS
<1> USE ContentIsApart DEF IInv, TypeOK, ContentsInv, WriterInv, SettledInv, SettledFor, Sound,
        BodyOf, Files, Steps, Bodies, At, Goes
<1>1. ASSUME NEW record \in Record, Deploy(record)
      PROVE  IInv'
  <2>1. record.settings \in Settings
    BY DEF Record
  <2>2. writer' \in Writer
    BY <1>1, <2>1 DEF Deploy, Begins, Writer
  <2> QED
    BY <1>1, <2>1, <2>2 DEF Deploy, Begins
<1>2. ASSUME NEW status \in Statuses, Rewrite(status)
      PROVE  IInv'
  <2> DEFINE old == entry["record"].body
             record == [old EXCEPT !.status = status]
  <2>1. old \in Record /\ SettledFor(old.settings)
    BY <1>2 DEF Rewrite
  <2>2. record \in Record /\ record.settings = old.settings
    BY <2>1 DEF Record
  <2> HIDE DEF record
  <2>3. /\ writer' = [file |-> "record", body |-> record, synced |-> FALSE, step |-> "write",
                      record |-> record]
        /\ since' = [since EXCEPT !["record"] = @ \cup {record}] /\ UNCHANGED <<entry, older>>
    BY <1>2 DEF Rewrite, Begins, record
  <2>4. writer' \in Writer
    BY <2>2, <2>3 DEF Writer
  <2> QED
    BY <2>1, <2>2, <2>3, <2>4
<1>3. CASE Write \/ Fsync
  <2>1. writer' \in Writer /\ UNCHANGED <<entry, older, since>>
    BY <1>3 DEF Write, Fsync, Writer
  <2>2. /\ writer'.file = writer.file /\ writer'.body = writer.body /\ writer'.record = writer.record
        /\ writer'.step \in {"fsync", "replace"} /\ (writer'.step = "replace" => writer'.synced)
    BY <1>3 DEF Write, Fsync, Writer
  <2> QED
    BY <1>3, <2>1, <2>2 DEF Write, Fsync
<1>4. CASE Replace
  <2> DEFINE f == writer.file
             new == [body |-> writer.body, synced |-> writer.synced]
  <2>1. /\ writer # None /\ writer \in Writer /\ f \in Files /\ writer.step = "replace"
        /\ writer.record \in Record
    BY <1>4 DEF Replace, Writer
  <2>2. new \in Content /\ new.synced /\ new.body = writer.body /\ Sound(f, new)
    BY <2>1 DEF Content, Writer, Record
  <2> HIDE DEF new
  <2>3. /\ entry' = [entry EXCEPT ![f] = new]
        /\ older' = [older EXCEPT ![f] = @ \cup ({entry[f]} \ {Torn})]
        /\ writer' = [writer EXCEPT !.step = "fsync_directory"] /\ UNCHANGED since
    BY <1>4 DEF Replace, new
  <2>4. /\ writer' \in Writer /\ writer'.file = f /\ writer'.body = writer.body
        /\ writer'.record = writer.record /\ writer'.synced = writer.synced
        /\ writer'.step = "fsync_directory"
    BY <2>1, <2>3 DEF Writer
  <2>5. TypeOK'
    BY <2>1, <2>2, <2>3, <2>4
  <2>6. ContentsInv'
    BY <2>1, <2>2, <2>3
  <2>7. WriterInv'
    BY <2>1, <2>2, <2>3, <2>4
  <2>8. SettledInv'
    BY <2>1, <2>2, <2>3, <2>4
  <2> QED
    BY <2>5, <2>6, <2>7, <2>8
<1>5. CASE FsyncDirectory
  <2>1. writer # None /\ writer \in Writer /\ writer.record \in Record /\ writer.body \in Bodies
    BY <1>5 DEF FsyncDirectory, Writer
  <2>2. CASE writer.file = "env"
    <3>1. /\ writer' = [writer EXCEPT !.file = "record", !.body = writer.record,
                                      !.synced = FALSE, !.step = "write"]
          /\ since' = [since EXCEPT !["env"] = {writer.body}, !["record"] = @ \cup {writer.record}]
          /\ older' = [f \in Files |-> {}] /\ entry' = entry
      BY <1>5, <2>2 DEF FsyncDirectory, Reported
    <3>2. /\ writer'.file = "record" /\ writer'.body = writer.record
          /\ writer'.step = "write" /\ writer'.record = writer.record
      BY <2>1, <3>1 DEF Writer
    <3>3. writer' \in Writer
      BY <2>1, <3>1 DEF Writer
    <3>4. entry["record"] = None /\ entry["env"] # None /\ entry["env"].body = writer.body
          /\ writer.body = writer.record.settings
      BY <1>5, <2>2 DEF FsyncDirectory
    <3> QED
      BY <2>1, <3>1, <3>2, <3>3, <3>4
  <2>3. CASE writer.file = "record"
    <3>1. /\ writer' = None /\ since' = [since EXCEPT !["record"] = {writer.body}]
          /\ older' = [f \in Files |-> {}] /\ entry' = entry
      BY <1>5, <2>3 DEF FsyncDirectory, Reported
    <3>2. /\ entry["record"] # None /\ entry["record"].body = writer.body
          /\ SettledFor(writer.body.settings)
      BY <1>5, <2>3 DEF FsyncDirectory
    <3> QED
      BY <2>1, <3>1, <3>2
  <2> QED
    BY <2>1, <2>2, <2>3 DEF Writer
<1>6. CASE Stop
  BY <1>6 DEF Stop
<1>7. CASE PowerLoss
  BY <1>7, SurvivorsAreWhole DEF PowerLoss
<1>8. CASE UNCHANGED vars
  BY <1>8 DEF vars
<1> QED
  BY <1>1, <1>2, <1>3, <1>4, <1>5, <1>6, <1>7, <1>8 DEF Next

(* So the invariant holds throughout.                                      *)
LEMMA Always == Spec => []IInv
BY InitIInv, StepIInv, PTL DEF Spec

(* The variables stay in their types.                                      *)
THEOREM TypeCorrect == Spec => []TypeOK
<1>1. IInv => TypeOK
  BY DEF IInv
<1> QED
  BY <1>1, Always, PTL

(* No reader ever finds a torn file or one that a reported write replaced. *)
THEOREM ReadersFindTheLastWriteAlways == Spec => []ReadersFindTheLastWrite
<1>1. IInv => ReadersFindTheLastWrite
  BY DEF IInv, ContentsInv, ReadersFindTheLastWrite
<1> QED
  BY <1>1, Always, PTL

(* A record never outlives, or comes before, the settings it stands for.   *)
THEOREM SettingsBehindRecordAlways == Spec => []SettingsBehindRecord
<1>1. IInv => SettingsBehindRecord
  BY DEF IInv, ContentsInv, SettledInv, SettledFor, SettingsBehindRecord, Files
<1> QED
  BY <1>1, Always, PTL

-----------------------------------------------------------------------------
(* The files of a release implement a record that changes at once.         *)

storeKept == UNCHANGED <<BodyOf(entry["record"]), {BodyOf(c) : c \in older["record"]}>>

(* os.replace is the write; it comes from a verb that has loaded the       *)
(* record, or from the deploy of a release that has none.                  *)
LEMMA ReplaceWrites ==
  ASSUME IInv, Replace
  PROVE  storeKept \/ \E d \in Record : Store!WriteRecord(d)
<1> USE ContentIsApart DEF IInv, TypeOK, Files
<1>1. /\ writer # None /\ writer \in Writer /\ writer.file \in Files /\ writer.record \in Record
      /\ entry' = [entry EXCEPT ![writer.file] = [body |-> writer.body, synced |-> writer.synced]]
      /\ older' = [older EXCEPT ![writer.file] = @ \cup ({entry[writer.file]} \ {Torn})]
  BY DEF Replace, At, Writer
<1>2. CASE writer.file = "env"
  <2>1. entry'["record"] = entry["record"] /\ older'["record"] = older["record"]
    BY <1>1, <1>2
  <2> QED
    BY <2>1 DEF storeKept, BodyOf
<1>3. CASE writer.file = "record"
  <2> DEFINE d == writer.record
             new == [body |-> writer.body, synced |-> writer.synced]
  <2>1. new \in Content /\ new.body = d
    BY <1>1, <1>3 DEF WriterInv, Writer, Content
  <2>2. entry'["record"] = new /\ older'["record"] = older["record"] \cup {entry["record"]}
    BY <1>1, <1>3 DEF ContentsInv
  <2> HIDE DEF new
  <2>3. BodyOf(entry["record"])' = d
    BY <2>1, <2>2 DEF BodyOf
  <2>4. {BodyOf(c) : c \in older["record"]}' =
          {BodyOf(c) : c \in older["record"]} \cup {BodyOf(entry["record"])}
    BY <2>2 DEF BodyOf
  <2>5. BodyOf(entry["record"]) # None => d.settings = BodyOf(entry["record"]).settings
    BY <1>1, <1>3 DEF BodyOf, ContentsInv, SettledInv, SettledFor
  <2> QED
    BY <1>1, <2>3, <2>4, <2>5 DEF Store!WriteRecord
<1> QED
  BY <1>1, <1>2, <1>3

(* Every step is one of the record store's, or none.                       *)
LEMMA StoreStep ==
  ASSUME IInv, [Next]_vars
  PROVE  storeKept \/ (\E d \in Record : Store!WriteRecord(d)) \/ Store!Sync \/ Store!LosePower
<1>1. CASE UNCHANGED <<entry, older>>
  BY <1>1 DEF storeKept, BodyOf
<1>2. CASE Replace
  BY <1>2, ReplaceWrites
<1>3. CASE FsyncDirectory
  <2>1. entry' = entry /\ older'["record"] = {}
    BY <1>3 DEF FsyncDirectory, Files
  <2> QED
    BY <2>1 DEF Store!Sync, BodyOf
<1>4. CASE PowerLoss
  <2>1. entry'["record"] \in {entry["record"]} \cup older["record"] /\ older'["record"] = {}
    BY <1>4, SurvivorsAreWhole DEF PowerLoss, Files, IInv
  <2> QED
    BY <2>1 DEF Store!LosePower, BodyOf
<1> QED
  BY <1>1, <1>2, <1>3, <1>4 DEF Next, Deploy, Rewrite, Write, Fsync, Stop, Goes, vars

(* The verbs may take a record for a value that changes at once, that a    *)
(* power loss takes back only until the directory is synced, and that is   *)
(* never torn, never without its settings and never with another's.        *)
THEOREM RecordStoreImplemented == Spec => ImplementsRecordStore
<1>1. Init => Store!StoreInit
  BY DEF Init, Store!StoreInit, BodyOf, Files
<1>2. IInv /\ [Next]_vars =>
        [(\E d \in Record : Store!WriteRecord(d)) \/ Store!Sync \/ Store!LosePower]_(Store!storeVars)
  BY StoreStep DEF storeKept, Store!storeVars
<1> QED
  BY <1>1, <1>2, Always, PTL DEF Spec, ImplementsRecordStore, Store!StoreSpec
=============================================================================
