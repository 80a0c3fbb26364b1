------------------------------- MODULE RunStore -------------------------------
(***************************************************************************)
(* The records of the runs (filestore/run_repository.go) and the starts    *)
(* that make them (application/service.go, startRunLocked).  Every Save    *)
(* rewrites the file as a whole: the record goes into memory, the oldest   *)
(* records over the retention are dropped, the file is replaced, and if    *)
(* that fails memory is what it was.  The dropped runs wait in a list for  *)
(* the sweep that deletes their events.  A client that got no answer sends *)
(* its start again, with the same Idempotency-Key.                         *)
(*                                                                         *)
(* Runs are numbered in the order they were created.  Those of a project   *)
(* kept in memory are never written to the file.                           *)
(***************************************************************************)
EXTENDS Naturals, FiniteSets

CONSTANTS
    Keys,            \* idempotency keys, one of each kind of project
    NoKey,           \* a start without one
    Volatile,        \* the keys used in projects kept in memory
    Retention,       \* defaultRunRetention
    MaxStarts,       \* bound: runs created
    MaxStoreFaults   \* bound: files that cannot be replaced, restarts

ASSUME RunStoreAssumption ==
    /\ NoKey \notin Keys /\ Volatile \subseteq Keys /\ Retention \in Nat \ {0}
    /\ {MaxStarts, MaxStoreFaults} \subseteq Nat

VARIABLES
    records,    \* RunRepository.runs
    recorded,   \* the runs of runs.json
    protected,  \* runs with a goroutine that has not ended
    dropped,    \* RunRepository.pruned
    created,    \* runs created so far
    storeFaults

runStoreVars == <<records, recorded, protected, dropped, created, storeFaults>>

Ids == 1..MaxStarts
Ended(record) == record.status = "ended"

(* The records with this one: of each kind, the ones beyond the retention  *)
(* go, unless they have not ended or their goroutine has not.              *)
SameKind(values, id) ==
    {i \in DOMAIN values : (values[i].key \in Volatile) = (values[id].key \in Volatile)}
TooOld(values, guarded) ==
    {id \in DOMAIN values :
       /\ Cardinality({i \in SameKind(values, id) : i > id}) >= Retention
       /\ Ended(values[id]) /\ id \notin guarded}

Dropping(values, ids) == [i \in DOMAIN values \ ids |-> values[i]]
With(id, record) ==
    [i \in DOMAIN records \cup {id} |-> IF i = id THEN record ELSE records[i]]
Persistable(values) == Dropping(values, {i \in DOMAIN values : values[i].key \in Volatile})

Saved(id, record, guarded) ==
    LET values == With(id, record)
        old == TooOld(values, guarded)
    IN  /\ records' = Dropping(values, old)
        /\ recorded' = Persistable(Dropping(values, old))
        /\ dropped' = dropped \cup old
        /\ UNCHANGED storeFaults

(* Bug: the records are restored, the list of dropped runs is not.         *)
ForgetsDropped(id, record, guarded) ==
    /\ storeFaults < MaxStoreFaults /\ storeFaults' = storeFaults + 1
    /\ dropped' = dropped \cup TooOld(With(id, record), guarded)
    /\ UNCHANGED <<records, recorded>>

NotSaved(id, record, guarded) ==
    /\ storeFaults < MaxStoreFaults /\ storeFaults' = storeFaults + 1
    /\ UNCHANGED <<records, recorded, dropped>>

RunStoreInit ==
    /\ records = <<>> /\ recorded = <<>> /\ protected = {} /\ dropped = {}
    /\ created = 0 /\ storeFaults = 0

(* Bug: a run that ended no longer answers for its key.                    *)
StillAtWork(key) == {i \in DOMAIN records : records[i].key = key /\ ~Ended(records[i])}

(* FindByIdempotencyKey.                                                   *)
RunsOf(key) == {i \in DOMAIN records : records[i].key = key}

(* StartRun under startMu: a known key answers with its run; otherwise the *)
(* new run is protected before it is saved, and released if that fails.    *)
StartKey(key) ==
    /\ key = NoKey \/ RunsOf(key) = {}
    /\ created < MaxStarts /\ created' = created + 1
    /\ LET id == created + 1
           record == [status |-> "at work", key |-> key]
       IN  \/ /\ Saved(id, record, protected \cup {id})
              /\ protected' = protected \cup {id}
           \/ /\ NotSaved(id, record, protected \cup {id})
              /\ UNCHANGED protected

(* The run, or who controls it, saves its record while it is active.       *)
SaveRecord(id) ==
    /\ id \in protected /\ id \in DOMAIN records
    /\ \E status \in {"at work", "ended"} :
         LET record == [status |-> status, key |-> records[id].key]
         IN  /\ Ended(records[id]) => status = "ended"
             /\ Saved(id, record, protected) \/ NotSaved(id, record, protected)
    /\ UNCHANGED <<protected, created>>

(* The goroutine is gone, whether or not its last Save succeeded.          *)
ReleaseRun(id) ==
    /\ id \in protected /\ protected' = protected \ {id}
    /\ UNCHANGED <<records, recorded, dropped, created, storeFaults>>

(* sweepStorage takes the list; the events of these runs are deleted.      *)
TakePruned ==
    /\ dropped # {} /\ dropped' = {}
    /\ UNCHANGED <<records, recorded, protected, created, storeFaults>>

(* The session is deleted, with all of its runs.                           *)
DeleteRuns(keys) ==
    /\ protected = {}
    /\ LET left == Dropping(records, {i \in DOMAIN records : records[i].key \in keys})
       IN  left # records /\ records' = left /\ recorded' = Persistable(left)
    /\ UNCHANGED <<protected, dropped, created, storeFaults>>

(* load, markInterruptedRuns, pruneLocked, persistLocked.                  *)
ReloadRuns ==
    /\ storeFaults < MaxStoreFaults /\ storeFaults' = storeFaults + 1
    /\ LET marked == [i \in DOMAIN recorded |-> [recorded[i] EXCEPT !.status = "ended"]]
           old == TooOld(marked, {})
       IN  /\ records' = Dropping(marked, old) /\ recorded' = Dropping(marked, old)
           /\ dropped' = old
    /\ protected' = {}
    /\ UNCHANGED created

RunStoreNext ==
    \/ \E key \in Keys \cup {NoKey} : StartKey(key)
    \/ \E id \in Ids : SaveRecord(id) \/ ReleaseRun(id)
    \/ TakePruned \/ DeleteRuns({NoKey} \cup Keys) \/ ReloadRuns

RunStoreSpec == RunStoreInit /\ [][RunStoreNext]_runStoreVars

RunStoreTypeOK ==
    /\ DOMAIN records \subseteq Ids /\ DOMAIN recorded \subseteq Ids
    /\ \A i \in DOMAIN records :
         records[i] \in [status : {"at work", "ended"}, key : Keys \cup {NoKey}]
    /\ protected \subseteq Ids /\ dropped \subseteq Ids
    /\ created \in 0..MaxStarts /\ storeFaults \in 0..MaxStoreFaults

(* The sweep is never told to delete the events of a run whose record is   *)
(* still there, in memory or in the file, whatever failed in between: the  *)
(* list goes back with the records (run_repository.go:186-206).            *)
DroppedAreGone == dropped \cap (DOMAIN records \cup DOMAIN recorded) = {}

(* A key never has two runs: a start sent again finds the first run also   *)
(* after it ended, after a restart and after a Save that failed.  Only     *)
(* when the retention dropped the record does the work start again         *)
(* (service.go:1029-1040, run_repository.go:124-145).                      *)
OneRunPerKey ==
    \A i, j \in DOMAIN records :
        records[i].key = records[j].key /\ records[i].key # NoKey => i = j

(* A run that is kept is found again by its key and keeps its events; one  *)
(* that is dropped is dropped everywhere.                                  *)
KeptOrDropped == DroppedAreGone /\ OneRunPerKey
=============================================================================
