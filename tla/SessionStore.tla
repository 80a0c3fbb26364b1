----------------------------- MODULE SessionStore -----------------------------
(***************************************************************************)
(* The transcript file of a session (filestore/session_repository.go,      *)
(* session_index.go).  Appends hold the session's lock; readers hold none. *)
(* They find their place with an index of the lines, kept in memory and    *)
(* taken to be valid while its size is the file's: built by a reader in    *)
(* three steps, the scan, the size and the installation, and extended by   *)
(* each append after its write and sync.                                   *)
(***************************************************************************)
EXTENDS Naturals, Sequences

CONSTANTS
    Readers,          \* requests that page through the transcript
    MaxLines,         \* bound: lines of the file
    MaxSessionFaults  \* bound: writes and syncs that fail, restarts

ASSUME SessionBounds == MaxLines \in Nat /\ MaxSessionFaults \in Nat

VARIABLES
    lines,     \* the file: each line's sequence, or Damaged
    torn,      \* 1 when half an entry follows the last line
    index,     \* SessionRepository.indexes: the lines it knows, and its size
    number,    \* SessionRepository.sequences, 0 when not known
    append,    \* the append that holds the session's lock
    scan,      \* what each reader has found so far
    acked,     \* the lines whose append was acknowledged
    breaks     \* faults so far

storeVars == <<lines, torn, index, number, append, scan, acked, breaks>>

Damaged == 0
NoIndex == [records |-> <<>>, size |-> 0, built |-> FALSE]
Idle == [at |-> "idle"]

Size == 2 * Len(lines) + torn
Ascending(s) == \A i \in 1..Len(s) - 1 : s[i] < s[i + 1]
AllLines == [i \in 1..Len(lines) |-> i]

StoreInit ==
    /\ lines = <<>> /\ torn = 0 /\ index = NoIndex /\ number = 0
    /\ append = Idle /\ scan = [r \in Readers |-> Idle] /\ acked = {} /\ breaks = 0

StoreFault == breaks < MaxSessionFaults /\ breaks' = breaks + 1

(* buildEntryIndex fails on a line that does not decode, and when the      *)
(* sequences do not ascend.                                                *)
Indexable == torn = 0 /\ Ascending(lines) /\ \A i \in 1..Len(lines) : lines[i] # Damaged
Valid == index.built /\ index.size = Size

LastIn(records) == IF records = <<>> THEN 0 ELSE lines[records[Len(records)]]

(* Bug: without an index the last line's number is taken, decoded or not.  *)
NumberAtEnd == LastIn(AllLines)

LargestNumber ==
    CHOOSE n \in {0} \cup {lines[i] : i \in 1..Len(lines)} :
        \A i \in 1..Len(lines) : lines[i] <= n

(* nextSequenceLocked: the number after the last append's; after a restart *)
(* after the index's last, and without an index after the file's largest.  *)
TakesNumber(next) ==
    \/ /\ number # 0 /\ next = number + 1
       /\ UNCHANGED index
    \/ /\ number = 0 /\ Valid /\ next = LastIn(index.records) + 1
       /\ UNCHANGED index
    \/ /\ number = 0 /\ ~Valid /\ Indexable /\ next = LastIn(AllLines) + 1
       /\ index' = [records |-> AllLines, size |-> Size, built |-> TRUE]
    \/ /\ number = 0 /\ ~Valid /\ ~Indexable /\ next = LargestNumber + 1
       /\ UNCHANGED index

BeginAppend ==
    /\ append.at = "idle" /\ Len(lines) < MaxLines
    /\ \E next \in 1..MaxLines + 1 :
         TakesNumber(next) /\ append' = [at |-> "write", next |-> next]
    /\ UNCHANGED <<lines, torn, number, scan, acked, breaks>>

(* The half entry a failed write left makes one line with the next entry.  *)
LineWith(next) == IF torn = 0 THEN next ELSE Damaged

WriteLine ==
    /\ append.at = "write"
    /\ lines' = Append(lines, LineWith(append.next)) /\ torn' = 0
    /\ append' = [at |-> "sync", next |-> append.next, offset |-> Size]
    /\ UNCHANGED <<index, number, scan, acked, breaks>>

WriteFails ==
    /\ append.at = "write" /\ StoreFault
    /\ torn' \in {torn, 1} /\ append' = Idle
    /\ UNCHANGED <<lines, index, number, scan, acked>>

SyncFails ==
    /\ append.at = "sync" /\ StoreFault
    /\ append' = Idle
    /\ UNCHANGED <<lines, torn, index, number, scan, acked>>

(* noteAppendedEntry: an index that ends where the line began grows by it, *)
(* any other is dropped.                                                   *)
NoteAppended ==
    /\ append.at = "sync"
    /\ number' = append.next
    /\ index' = IF ~index.built THEN index
                ELSE IF index.size # append.offset THEN NoIndex
                ELSE [records |-> Append(index.records, Len(lines)), size |-> Size, built |-> TRUE]
    /\ acked' = acked \cup {Len(lines)} /\ append' = Idle
    /\ UNCHANGED <<lines, torn, scan, breaks>>

(* entryIndexFor, with no valid index: read the lines ...                  *)
ScanLines(r) ==
    /\ scan[r].at = "idle" /\ ~Valid /\ Indexable
    /\ scan' = [scan EXCEPT ![r] = [at |-> "scanned", records |-> AllLines]]
    /\ UNCHANGED <<lines, torn, index, number, append, acked, breaks>>

(* ... then ask for the size ...                                           *)
StatSize(r) ==
    /\ scan[r].at = "scanned"
    /\ scan' = [scan EXCEPT ![r] = [at |-> "sized", records |-> scan[r].records, size |-> Size]]
    /\ UNCHANGED <<lines, torn, index, number, append, acked, breaks>>

(* ... and install it, unless there is one of that size or larger.         *)
InstallIndex(r) ==
    /\ scan[r].at = "sized"
    /\ index' = IF index.built /\ index.size >= scan[r].size THEN index
                ELSE [records |-> scan[r].records, size |-> scan[r].size, built |-> TRUE]
    /\ scan' = [scan EXCEPT ![r] = Idle]
    /\ UNCHANGED <<lines, torn, number, append, acked, breaks>>

RestartStore ==
    /\ StoreFault
    /\ index' = NoIndex /\ number' = 0 /\ append' = Idle
    /\ scan' = [r \in Readers |-> Idle]
    /\ UNCHANGED <<lines, torn, acked>>

StoreNext ==
    \/ BeginAppend \/ WriteLine \/ WriteFails \/ SyncFails \/ NoteAppended
    \/ \E r \in Readers : ScanLines(r) \/ StatSize(r) \/ InstallIndex(r)
    \/ RestartStore

StoreSpec == StoreInit /\ [][StoreNext]_storeVars

StoreTypeOK ==
    /\ lines \in Seq(Nat) /\ Len(lines) <= MaxLines /\ torn \in {0, 1} /\ number \in Nat
    /\ index.size \in Nat /\ append.at \in {"idle", "write", "sync"}
    /\ \A i \in 1..Len(index.records) : index.records[i] \in 1..Len(lines)
    /\ \A r \in Readers : scan[r].at \in {"idle", "scanned", "sized"}
    /\ acked \subseteq 1..Len(lines) /\ breaks \in 0..MaxSessionFaults

(* Of two acknowledged entries that can be read, the later one has the     *)
(* larger sequence: over restarts, over a failed write that left half an   *)
(* entry or a whole one that nobody was told of, and whatever the readers  *)
(* make of the index (session_repository.go:901-937).                      *)
NumbersAscend ==
    \A i, j \in acked : i < j /\ lines[j] # Damaged => lines[i] < lines[j]
=============================================================================
