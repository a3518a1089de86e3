---------------------------- MODULE RecordStore ----------------------------
(***************************************************************************)
(* What the verbs may expect of a release's record on disk, without the    *)
(* calls that replace its file: it changes at once and as a whole, and a   *)
(* power loss takes back at most the writes that nothing has synced since. *)
(* ReleaseFiles implements it; DeployBrokerLate keeps one for each release *)
(* (disk and older), with a step for a write that reports an error (Write) *)
(* and one for a write that does not (Write, then Sync).                   *)
(***************************************************************************)
CONSTANTS
  Record, \* the records, each with the settings of its release
  None    \* no record

VARIABLES
  record,   \* what a reader finds
  revocable \* what a power loss may bring back instead

storeVars == <<record, revocable>>

StoreInit == record = None /\ revocable = {}

(* A record keeps the settings of the one before it.                       *)
WriteRecord(d) ==
  /\ record # None => d.settings = record.settings
  /\ record' = d
  /\ revocable' = revocable \cup {record}

Sync == revocable' = {} /\ UNCHANGED record

LosePower ==
  /\ record' \in {record} \cup revocable
  /\ revocable' = {}

StoreSpec == StoreInit /\ [][(\E d \in Record : WriteRecord(d)) \/ Sync \/ LosePower]_storeVars
=============================================================================
