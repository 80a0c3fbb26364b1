---------------------------- MODULE RecordProofs ----------------------------
(* Components that MCComponents checks on small instances, for every value *)
(* of their constants: what is recorded, of runs, of notices, of the quota *)
(* and in a backup, of the entries of a session and the steps of a plan,   *)
(* and what of a conversation is read and shown.                           *)
EXTENDS RunStore, Notifications, Backup, Quota, SessionStore, PlanSteps, ContextWindow, ThinkTags,
        OrderProofs

-----------------------------------------------------------------------------
(* Finite sets of numbers, and of what is numbered.                        *)

\* One thing counted by another: distinct for distinct.
LEMMA CountedBy ==
    ASSUME NEW S, NEW T, IsFiniteSet(T), NEW f \in [S -> T],
           \A x, y \in S : f[x] = f[y] => x = y
    PROVE  IsFiniteSet(S) /\ Cardinality(S) \in Nat /\ Cardinality(S) <= Cardinality(T)
<1>1. f \in Injection(S, T)
  BY DEF Injection, IsInjective
<1> QED
  BY <1>1, FS_Injection, FS_CardinalityType

\* A finite set of naturals has a least element.
LEMMA LeastOf ==
    ASSUME NEW S \in SUBSET Nat, IsFiniteSet(S), S # {}
    PROVE  \E n \in S : \A m \in S : n <= m
<1> DEFINE Upto(n) == {m \in S : m <= n}
           Family  == {Upto(n) : n \in S}
<1>1. Family # {} /\ Family \subseteq FiniteSubsetsOf(S)
  <2>1. \A n \in S : IsFiniteSet(Upto(n))
    BY FS_Subset
  <2> QED
    BY <2>1 DEF FiniteSubsetsOf
<1>2. IsWellFoundedOn(StrictSubsetOrdering(S), FiniteSubsetsOf(S))
  BY FS_StrictSubsetOrderingWellFounded
<1>3. PICK U \in Family : \A V \in Family : ~(<<V, U>> \in StrictSubsetOrdering(S))
  <2> HIDE DEF Family
  <2> QED
    BY <1>1, <1>2, WFMin
<1>4. PICK n \in S : U = Upto(n)
  OBVIOUS
<1>5. ASSUME NEW m \in S, m < n PROVE FALSE
  <2>1. Upto(m) \subseteq Upto(n) /\ Upto(m) # Upto(n)
    <3>1. n \in Upto(n) /\ n \notin Upto(m)
      BY <1>5
    <3>2. \A k \in Upto(m) : k \in Upto(n)
      BY <1>5
    <3> QED
      BY <3>1, <3>2
  <2>2. <<Upto(m), U>> \in StrictSubsetOrdering(S)
    BY <2>1, <1>4 DEF StrictSubsetOrdering
  <2> QED
    BY <2>2, <1>3
<1> QED
  BY <1>5

-----------------------------------------------------------------------------
(* RunStore: for any retention and any number of starts and of faults, a   *)
(* dropped run is gone from both copies, and a key has one run.            *)

RunRecords == [status : {"at work", "ended"}, key : Keys \cup {NoKey}]

\* Records are those of runs created, and so are the runs that were dropped.
RecordShape ==
    /\ created \in Nat
    /\ DOMAIN records \subseteq 1..created /\ dropped \subseteq 1..created
    /\ \A i \in DOMAIN records :
          records[i] \in RunRecords

\* The file has no record that memory has not, and knows its key.
FileWithin ==
    /\ DOMAIN recorded \subseteq DOMAIN records
    /\ \A i \in DOMAIN recorded :
          /\ recorded[i] \in RunRecords
          /\ recorded[i].key = records[i].key

RunStoreInv == RecordShape /\ FileWithin /\ KeptOrDropped

LEMMA RunStoreInvStarts == RunStoreInit => RunStoreInv
BY DEF RunStoreInit, RunStoreInv, RecordShape, FileWithin, KeptOrDropped, DroppedAreGone,
       OneRunPerKey

\* A record saved: a new one of a key that has none, or one of a run that is
\* there, with the key it had.  What is too old goes from both copies at once.
LEMMA SavedKeeps ==
    ASSUME RunStoreInv, NEW id, NEW record, NEW guarded,
           record \in RunRecords,
           \/ /\ id = created + 1 /\ created' = created + 1
              /\ record.key = NoKey \/ RunsOf(record.key) = {}
           \/ id \in DOMAIN records /\ created' = created /\ record.key = records[id].key,
           Saved(id, record, guarded)
    PROVE  RunStoreInv'
<1> DEFINE values == With(id, record)
           old == TooOld(values, guarded)
<1>1. /\ records' = Dropping(values, old)
      /\ recorded' = Persistable(Dropping(values, old))
      /\ dropped' = dropped \cup old
  BY DEF Saved
<1>2. RecordShape /\ FileWithin /\ DroppedAreGone /\ OneRunPerKey
  BY DEF RunStoreInv, KeptOrDropped
<1>0. \/ id = created + 1 /\ created' = created + 1
      \/ id \in DOMAIN records /\ created' = created
  OBVIOUS
<1>3. created \in Nat /\ created' \in Nat /\ created <= created'
  <2>1. created \in Nat
    BY <1>2 DEF RecordShape
  <2> QED
    BY <1>0, <2>1
<1>3a. /\ \A i \in DOMAIN records \cup dropped : i \in 1..created'
       /\ id \in 1..created' /\ id \notin dropped
  <2>1. \A i \in DOMAIN records \cup dropped : i \in 1..created
    BY <1>2 DEF RecordShape
  <2>2. \A i \in 1..created : i \in 1..created' /\ i # created + 1
    BY <1>3
  <2>3. CASE id = created + 1 /\ created' = created + 1
    <3>1. id \in 1..created'
      BY <1>3, <2>3
    <3> QED
      BY <2>1, <2>2, <2>3, <3>1
  <2>4. CASE id \in DOMAIN records
    BY <1>2, <2>1, <2>2, <2>4 DEF DroppedAreGone
  <2> QED
    BY <1>0, <2>1, <2>2, <2>3, <2>4
<1>4. /\ DOMAIN values = DOMAIN records \cup {id}
      /\ values[id] = record
      /\ \A i \in DOMAIN records : i # id => values[i] = records[i]
  BY DEF With
<1>5. old \subseteq DOMAIN values
  BY DEF TooOld
<1> HIDE DEF old, values
<1>6. /\ DOMAIN records' = DOMAIN values \ old
      /\ \A i \in DOMAIN records' : records'[i] = values[i]
  BY <1>1 DEF Dropping
<1>7. /\ DOMAIN recorded' \subseteq DOMAIN records'
      /\ \A i \in DOMAIN recorded' : recorded'[i] = records'[i]
  BY <1>1 DEF Dropping, Persistable
<1>8. \A i \in DOMAIN values :
         values[i] \in RunRecords
  BY <1>2, <1>4 DEF RecordShape
<1>9. RecordShape'
  <2>1. DOMAIN values \subseteq 1..created' /\ dropped \subseteq 1..created'
    BY <1>4, <1>3a
  <2> QED
    BY <1>1, <1>3, <1>5, <1>6, <1>8, <2>1 DEF RecordShape
<1>10. FileWithin'
  BY <1>6, <1>7, <1>8 DEF FileWithin
<1>11. DroppedAreGone'
  <2>1. dropped' \cap DOMAIN records' = {}
    BY <1>1, <1>2, <1>4, <1>6, <1>3a DEF DroppedAreGone
  <2> QED
    BY <1>7, <2>1 DEF DroppedAreGone
<1>12. OneRunPerKey'
  <2>1. ASSUME NEW i \in DOMAIN values, NEW j \in DOMAIN values,
               values[i].key = values[j].key, values[i].key # NoKey
        PROVE  i = j
    <3>1. ASSUME NEW k \in DOMAIN records, k # id, record.key = records[k].key, record.key # NoKey
          PROVE  FALSE
      BY <1>2, <3>1 DEF RunsOf, OneRunPerKey
    <3>2. CASE i # id /\ j # id
      BY <1>2, <1>4, <2>1, <3>2 DEF OneRunPerKey
    <3>3. CASE i = id /\ j # id
      BY <1>4, <2>1, <3>1, <3>3
    <3>4. CASE i # id /\ j = id
      BY <1>4, <2>1, <3>1, <3>4
    <3> QED
      BY <3>2, <3>3, <3>4
  <2> QED
    BY <1>6, <2>1 DEF OneRunPerKey
<1> QED
  BY <1>9, <1>10, <1>11, <1>12 DEF RunStoreInv, KeptOrDropped

\* A Save that fails, with or without a number used up.
LEMMA NotSavedKeeps ==
    ASSUME RunStoreInv, UNCHANGED <<records, recorded, dropped>>,
           created' = created \/ created' = created + 1
    PROVE  RunStoreInv'
<1>1. /\ created \in Nat /\ DOMAIN records \subseteq 1..created /\ dropped \subseteq 1..created
  BY DEF RunStoreInv, RecordShape
<1>2. /\ created' \in Nat /\ DOMAIN records \subseteq 1..created' /\ dropped \subseteq 1..created'
  BY <1>1
<1> QED
  BY <1>2 DEF RunStoreInv, RecordShape, FileWithin, KeptOrDropped, DroppedAreGone, OneRunPerKey

LEMMA StartKeyKeeps ==
    ASSUME RunStoreInv, NEW key \in Keys \cup {NoKey}, StartKey(key)
    PROVE  RunStoreInv'
<1> DEFINE record == [status |-> "at work", key |-> key]
<1>1. /\ record \in RunRecords
      /\ record.key = key
  BY DEF RunRecords
<1>2. /\ key = NoKey \/ RunsOf(key) = {}
      /\ created' = created + 1
      /\ \/ Saved(created + 1, record, protected \cup {created + 1})
         \/ UNCHANGED <<records, recorded, dropped>>
  BY DEF StartKey, NotSaved
<1> HIDE DEF record
<1> QED
  BY <1>1, <1>2, SavedKeeps, NotSavedKeeps

LEMMA SaveRecordKeeps ==
    ASSUME RunStoreInv, NEW id \in Ids, SaveRecord(id)
    PROVE  RunStoreInv'
<1>1. PICK status \in {"at work", "ended"} :
         \/ Saved(id, [status |-> status, key |-> records[id].key], protected)
         \/ NotSaved(id, [status |-> status, key |-> records[id].key], protected)
  BY DEF SaveRecord
<1> DEFINE record == [status |-> status, key |-> records[id].key]
<1>2. id \in DOMAIN records /\ created' = created
  BY DEF SaveRecord
<1>3. /\ record \in RunRecords
      /\ record.key = records[id].key
  BY <1>2 DEF RunStoreInv, RecordShape, RunRecords
<1>4. Saved(id, record, protected) \/ UNCHANGED <<records, recorded, dropped>>
  BY <1>1 DEF NotSaved
<1> HIDE DEF record
<1> QED
  BY <1>2, <1>3, <1>4, SavedKeeps, NotSavedKeeps

LEMMA DeleteRunsKeeps ==
    ASSUME RunStoreInv, NEW keys, DeleteRuns(keys)
    PROVE  RunStoreInv'
<1>1. /\ DOMAIN records' \subseteq DOMAIN records
      /\ \A i \in DOMAIN records' : records'[i] = records[i]
      /\ DOMAIN recorded' \subseteq DOMAIN records'
      /\ \A i \in DOMAIN recorded' : recorded'[i] = records'[i]
      /\ UNCHANGED <<dropped, created>>
  BY DEF DeleteRuns, Dropping, Persistable
<1>2. RecordShape' /\ FileWithin'
  BY <1>1 DEF RunStoreInv, RecordShape, FileWithin
<1>3. DroppedAreGone'
  BY <1>1 DEF RunStoreInv, KeptOrDropped, DroppedAreGone
<1>4. OneRunPerKey'
  <2> SUFFICES ASSUME NEW i \in DOMAIN records', NEW j \in DOMAIN records',
                      records'[i].key = records'[j].key, records'[i].key # NoKey
               PROVE  i = j
    BY DEF OneRunPerKey
  <2>1. /\ i \in DOMAIN records /\ j \in DOMAIN records
        /\ records[i].key = records[j].key /\ records[i].key # NoKey
    BY <1>1
  <2> QED
    BY <2>1 DEF RunStoreInv, KeptOrDropped, OneRunPerKey
<1> QED
  BY <1>2, <1>3, <1>4 DEF RunStoreInv, KeptOrDropped

\* What is read again is what the file has, whose keys were those of memory.
LEMMA ReloadRunsKeeps ==
    ASSUME RunStoreInv, ReloadRuns
    PROVE  RunStoreInv'
<1> DEFINE marked == [i \in DOMAIN recorded |-> [recorded[i] EXCEPT !.status = "ended"]]
           old == TooOld(marked, {})
<1>1. /\ records' = Dropping(marked, old) /\ recorded' = Dropping(marked, old)
      /\ dropped' = old /\ created' = created
  BY DEF ReloadRuns
<1>2. /\ DOMAIN marked = DOMAIN recorded
      /\ \A i \in DOMAIN recorded :
            /\ marked[i] \in RunRecords
            /\ marked[i].key = records[i].key
  BY DEF RunStoreInv, FileWithin, RunRecords
<1>3. old \subseteq DOMAIN marked
  BY DEF TooOld
<1> HIDE DEF marked, old
<1>4. /\ DOMAIN records' = DOMAIN recorded \ old /\ recorded' = records'
      /\ \A i \in DOMAIN records' : records'[i] = marked[i]
  BY <1>1, <1>2 DEF Dropping
<1>5. DOMAIN recorded \subseteq DOMAIN records /\ DOMAIN records \subseteq 1..created
  BY DEF RunStoreInv, RecordShape, FileWithin
<1>6. RecordShape' /\ FileWithin'
  <2>1. created' \in Nat /\ DOMAIN records' \subseteq 1..created'
           /\ dropped' \subseteq 1..created'
    BY <1>1, <1>2, <1>3, <1>4, <1>5 DEF RunStoreInv, RecordShape
  <2>2. \A i \in DOMAIN records' :
           records'[i] \in RunRecords
    BY <1>2, <1>4
  <2> QED
    BY <1>4, <2>1, <2>2 DEF RecordShape, FileWithin
<1>7. DroppedAreGone'
  BY <1>1, <1>4 DEF DroppedAreGone
<1>8. OneRunPerKey'
  <2> SUFFICES ASSUME NEW i \in DOMAIN records', NEW j \in DOMAIN records',
                      records'[i].key = records'[j].key, records'[i].key # NoKey
               PROVE  i = j
    BY DEF OneRunPerKey
  <2>1. /\ i \in DOMAIN records /\ j \in DOMAIN records
        /\ records[i].key = records[j].key /\ records[i].key # NoKey
    BY <1>2, <1>4, <1>5
  <2> QED
    BY <2>1 DEF RunStoreInv, KeptOrDropped, OneRunPerKey
<1> QED
  BY <1>6, <1>7, <1>8 DEF RunStoreInv, KeptOrDropped

LEMMA RunStoreInvKept == RunStoreInv /\ [RunStoreNext]_runStoreVars => RunStoreInv'
<1> SUFFICES ASSUME RunStoreInv, [RunStoreNext]_runStoreVars PROVE RunStoreInv'
  OBVIOUS
<1>1. CASE \E key \in Keys \cup {NoKey} : StartKey(key)
  BY <1>1, StartKeyKeeps
<1>2. CASE \E id \in Ids : SaveRecord(id)
  BY <1>2, SaveRecordKeeps
<1>3. CASE \/ \E id \in Ids : ReleaseRun(id)
           \/ UNCHANGED runStoreVars
  <2>1. UNCHANGED <<records, recorded, dropped, created>>
    BY <1>3 DEF ReleaseRun, runStoreVars
  <2> QED
    BY <2>1, NotSavedKeeps
<1>4. CASE TakePruned
  BY <1>4 DEF TakePruned, RunStoreInv, RecordShape, FileWithin, KeptOrDropped, DroppedAreGone,
              OneRunPerKey
<1>5. CASE DeleteRuns({NoKey} \cup Keys)
  BY <1>5, DeleteRunsKeeps
<1>6. CASE ReloadRuns
  BY <1>6, ReloadRunsKeeps
<1> QED
  BY <1>1, <1>2, <1>3, <1>4, <1>5, <1>6 DEF RunStoreNext

\* Whatever Save fails, whatever is dropped and whenever the service starts
\* again: a dropped run is in neither copy, and a key has one run.
THEOREM RunsKeptOrDropped == RunStoreSpec => []KeptOrDropped
<1>1. RunStoreInv => KeptOrDropped
  BY DEF RunStoreInv
<1> QED
  BY <1>1, RunStoreInvStarts, RunStoreInvKept, PTL DEF RunStoreSpec

-----------------------------------------------------------------------------
(* Notifications: for any subjects, any limit and any number of notices,   *)
(* each thing is told once, what is kept fits the limit, and what the disk *)
(* has is of a session that is not volatile.                               *)

\* Notices that can be what the center holds: no two of one name or of one
\* subject, and neither group beyond its limit.
Distinct(ns) ==
    \A n, m \in ns : n.id = m.id \/ n.key = m.key => n = m
GroupOf(ns, v) == {n \in ns : IsVolatile(n) = v}
Fits(ns) ==
    \A v \in BOOLEAN : IsFiniteSet(GroupOf(ns, v)) /\ Cardinality(GroupOf(ns, v)) <= MaxStored
Well(ns) == ns \subseteq NoticeRecords /\ Distinct(ns) /\ Fits(ns)

\* Sets of notices have names enough to be counted.
LEMMA NoticesFinite ==
    ASSUME NEW ns \in SUBSET NoticeRecords, \A n, m \in ns : n.id = m.id => n = m
    PROVE  IsFiniteSet(ns) /\ Cardinality(ns) \in Nat
<1> DEFINE f == [n \in ns |-> n.id]
<1>1. f \in [ns -> 1..MaxNotices]
  BY DEF NoticeRecords
<1>2. IsFiniteSet(1..MaxNotices)
  BY NoticeBounds, FS_Interval
<1>3. \A n, m \in ns : f[n] = f[m] => n = m
  OBVIOUS
<1> HIDE DEF f
<1> QED
  BY <1>1, <1>2, <1>3, CountedBy

\* Fewer notices, and notices that were read meanwhile, are as well kept.
LEMMA WellReworded ==
    ASSUME NEW ns, Well(ns), NEW ms \in SUBSET NoticeRecords,
           \A m \in ms : \E n \in ns : n.id = m.id /\ n.key = m.key,
           \A m, n \in ms : m.id = n.id => m = n
    PROVE  Well(ms)
<1> DEFINE f == [m \in ms |-> CHOOSE n \in ns : n.id = m.id /\ n.key = m.key]
<1>1. \A m \in ms : f[m] \in ns /\ f[m].id = m.id /\ f[m].key = m.key
  OBVIOUS
<1>2. Distinct(ms)
  <2> SUFFICES ASSUME NEW n \in ms, NEW m \in ms, n.key = m.key PROVE n = m
    BY DEF Distinct
  <2>1. f[n] = f[m]
    BY <1>1 DEF Well, Distinct
  <2> QED
    BY <1>1, <2>1
<1>3. Fits(ms)
  <2> SUFFICES ASSUME NEW v \in BOOLEAN
               PROVE  /\ IsFiniteSet(GroupOf(ms, v))
                      /\ Cardinality(GroupOf(ms, v)) <= MaxStored
    BY DEF Fits
  <2> DEFINE g == [m \in GroupOf(ms, v) |-> f[m]]
  <2>1. g \in [GroupOf(ms, v) -> GroupOf(ns, v)]
    BY <1>1 DEF GroupOf, IsVolatile
  <2>2. \A m, n \in GroupOf(ms, v) : g[m] = g[n] => m = n
    BY <1>1 DEF GroupOf
  <2>3. /\ IsFiniteSet(GroupOf(ns, v)) /\ Cardinality(GroupOf(ns, v)) <= MaxStored
        /\ Cardinality(GroupOf(ns, v)) \in Nat
    BY FS_CardinalityType DEF Well, Fits
  <2> HIDE DEF g
  <2> QED
    BY <2>1, <2>2, <2>3, CountedBy, NoticeBounds
<1> QED
  BY <1>2, <1>3 DEF Well

\* What is left after trimming fits: the oldest that stayed has fewer than
\* MaxStored newer ones, which are all the others.
LEMMA WellTrimmed ==
    ASSUME NEW ns \in SUBSET NoticeRecords, Distinct(ns)
    PROVE  Well(Trimmed(ns))
<1>0. \A ms \in SUBSET ns : IsFiniteSet(ms) /\ Cardinality(ms) \in Nat
  BY NoticesFinite DEF Distinct
<1>1. Trimmed(ns) \in SUBSET ns
  BY DEF Trimmed
<1>2. Fits(Trimmed(ns))
  <2> SUFFICES ASSUME NEW v \in BOOLEAN
               PROVE  /\ IsFiniteSet(GroupOf(Trimmed(ns), v))
                      /\ Cardinality(GroupOf(Trimmed(ns), v)) <= MaxStored
    BY DEF Fits
  <2> DEFINE G == GroupOf(Trimmed(ns), v)
             ids == {n.id : n \in G}
  <2>1. G \in SUBSET ns /\ IsFiniteSet(G) /\ Cardinality(G) \in Nat
    BY <1>0, <1>1 DEF GroupOf
  <2>2. CASE G = {}
    BY <2>2, FS_EmptySet, NoticeBounds
  <2>3. CASE G # {}
    <3>1. ids \in SUBSET (1..MaxNotices) /\ ids # {}
      BY <2>1, <2>3 DEF NoticeRecords
    <3>2. IsFiniteSet(ids) /\ ids \in SUBSET Nat
      <4> HIDE DEF ids
      <4>1. IsFiniteSet(1..MaxNotices)
        BY FS_Interval, NoticeBounds
      <4>2. ids \in SUBSET Nat
        BY <3>1, NoticeBounds
      <4>3. IsFiniteSet(ids)
        BY <3>1, <4>1, FS_Subset
      <4> QED
        BY <4>2, <4>3
    <3>3. PICK i \in ids : \A j \in ids : i <= j
      BY <3>1, <3>2, LeastOf
    <3>4. PICK n \in G : n.id = i
      OBVIOUS
    <3> DEFINE newer == {m \in ns : IsVolatile(m) = IsVolatile(n) /\ m.id > n.id}
    <3>5. Cardinality(newer) < MaxStored
      BY <3>4 DEF GroupOf, Trimmed
    <3>6. G \ {n} \subseteq newer
      <4> SUFFICES ASSUME NEW m \in G, m # n PROVE m \in newer
        OBVIOUS
      <4>1. m.id >= n.id /\ m.id # n.id /\ m.id \in Nat /\ n.id \in Nat
        BY <3>3, <3>4, <3>1, <2>1 DEF Distinct
      <4> QED
        BY <4>1, <2>1 DEF GroupOf
    <3>7. Cardinality(G \ {n}) = Cardinality(G) - 1
      BY <2>1, FS_RemoveElement
    <3>8. Cardinality(G \ {n}) <= Cardinality(newer)
      <4>1. IsFiniteSet(newer)
        BY <1>0
      <4> HIDE DEF newer, G
      <4> QED
        BY <4>1, <3>6, FS_Subset
    <3>9. Cardinality(newer) \in Nat
      BY <1>0
    <3> QED
      BY <2>1, <3>5, <3>7, <3>8, <3>9, NoticeBounds
  <2> QED
    BY <2>2, <2>3
<1> QED
  BY <1>1, <1>2 DEF Well, Distinct

-----------------------------------------------------------------------------
\* The names given out: none twice, each notice on its way has one that no
\* other place knows, and what was saved to last is told by its name.
NoticeShape ==
    /\ made \in 0..MaxNotices /\ noticesEnabled \in BOOLEAN /\ unwritten \in BOOLEAN
    /\ coming \subseteq NoticeRecords /\ posted \cup excused \subseteq 1..made
    /\ Well(notices) /\ Well(noticeFile)
    /\ \A n \in notices \cup noticeFile \cup coming : n.id <= made

NamesAreFresh ==
    /\ \A n, m \in coming : n.id = m.id => n = m
    /\ \A n \in coming : n.id \notin posted \cup IdsOf(notices) \cup IdsOf(noticeFile)
    /\ \A n \in notices : ~IsVolatile(n) <=> n.id \in posted
    /\ \A n \in noticeFile : n.id \in posted

NoticeInv == NoticeShape /\ NamesAreFresh /\ DiskIsClean /\ StoredNoticesStay

LEMMA NoticeInvStarts == NoticesInit => NoticeInv
<1> SUFFICES ASSUME NoticesInit PROVE NoticeInv
  OBVIOUS
<1>1. Well({})
  BY FS_EmptySet, NoticeBounds DEF Well, Distinct, Fits, GroupOf
<1>2. NoticeShape
  <2>1. made \in 0..MaxNotices /\ posted \cup excused \subseteq 1..made
    BY NoticeBounds DEF NoticesInit
  <2>2. Well(notices) /\ Well(noticeFile)
    BY <1>1 DEF NoticesInit
  <2> QED
    BY <2>1, <2>2 DEF NoticesInit, NoticeShape
<1>3. NamesAreFresh /\ DiskIsClean /\ StoredNoticesStay
  BY DEF NoticesInit, NamesAreFresh, DiskIsClean, StoredNoticesStay, LastingNotices
<1> QED
  BY <1>2, <1>3 DEF NoticeInv

LEMMA MakeNoticeKeeps ==
    ASSUME NoticeInv, NEW key \in Subjects, MakeNotice(key)
    PROVE  NoticeInv'
<1> DEFINE new == Notice(made + 1, key)
<1>1. new \in NoticeRecords /\ new.id = made + 1 /\ made' = made + 1 /\ made + 1 \in 1..MaxNotices
  BY NoticeBounds DEF NoticeInv, NoticeShape, MakeNotice, Notice, NoticeRecords
<1>2. /\ coming' = coming \cup {new}
      /\ UNCHANGED <<notices, noticeFile, noticesEnabled, unwritten, posted, excused>>
  BY DEF MakeNotice
<1> HIDE DEF new
<1>3. NoticeShape'
  <2>1. \A n \in notices \cup noticeFile \cup coming : n.id \in Nat /\ n.id <= made
    BY DEF NoticeInv, NoticeShape, NoticeRecords, Well
  <2>2. posted' \cup excused' \subseteq 1..made'
    BY <1>1, <1>2 DEF NoticeInv, NoticeShape
  <2> QED
    BY <1>1, <1>2, <2>1, <2>2, NoticeBounds DEF NoticeInv, NoticeShape, Well, Distinct, Fits,
        GroupOf, IsVolatile
<1>4. NamesAreFresh'
  <2>1. \A n \in notices \cup noticeFile \cup coming : n.id # made + 1
    BY DEF NoticeInv, NoticeShape, NoticeRecords, Well
  <2>2. made + 1 \notin posted
    BY DEF NoticeInv, NoticeShape
  <2> QED
    BY <1>1, <1>2, <2>1, <2>2 DEF NoticeInv, NamesAreFresh, IdsOf, IsVolatile
<1>5. DiskIsClean' /\ StoredNoticesStay'
  BY <1>2 DEF NoticeInv, DiskIsClean, StoredNoticesStay, IdsOf, LastingNotices, IsVolatile
<1> QED
  BY <1>3, <1>4, <1>5 DEF NoticeInv

\* What every write of the file keeps, given what it leaves in memory.
LEMMA WriteKeeps ==
    ASSUME NoticeInv, NEW ns, NEW ok \in BOOLEAN, PersistLocked(ns, ok),
           Well(ns), NEW old \in SUBSET NoticeRecords,
           \A n \in ns : \E m \in old : m.id = n.id /\ m.key = n.key,
           \A m \in old : m.id <= made /\ (~IsVolatile(m) <=> m.id \in posted'),
           posted \subseteq posted', posted' \subseteq 1..made, excused' \subseteq 1..made,
           UNCHANGED <<noticesEnabled, made>>, coming' \subseteq coming,
           \A n \in coming' : n.id \notin IdsOf(old) \cup posted'
    PROVE  NoticeShape' /\ NamesAreFresh' /\ DiskIsClean'
<1>1. \A n \in ns : /\ n.id <= made /\ n.id \in IdsOf(old)
                    /\ ~IsVolatile(n) <=> n.id \in posted'
  BY DEF IdsOf, IsVolatile
<1>2. Well(LastingNotices(ns))
  <2>1. LastingNotices(ns) \in SUBSET NoticeRecords
    BY DEF LastingNotices, Well
  <2>2. /\ \A m \in LastingNotices(ns) : m \in ns
        /\ \A m, n \in LastingNotices(ns) : m.id = n.id => m = n
    BY DEF LastingNotices, Well, Distinct
  <2> QED
    BY <2>1, <2>2, WellReworded
<1>3. notices' = ns /\ (noticeFile' = LastingNotices(ns) \/ noticeFile' = noticeFile)
  BY DEF PersistLocked
<1>4. Well(notices') /\ Well(noticeFile')
  BY <1>2, <1>3 DEF NoticeInv, NoticeShape
<1>5. \A n \in noticeFile' : n \in noticeFile \/ (n \in ns /\ ~IsVolatile(n))
  BY <1>3 DEF LastingNotices
<1>6. NoticeShape'
  <2>1. unwritten' \in BOOLEAN
    BY DEF PersistLocked
  <2>2. Well(notices)' /\ Well(noticeFile)'
    BY <1>4 DEF Well, Distinct, Fits, GroupOf, IsVolatile
  <2>3. \A n \in notices' \cup noticeFile' \cup coming' : n.id <= made'
    BY <1>1, <1>3, <1>5 DEF NoticeInv, NoticeShape
  <2> QED
    BY <2>1, <2>2, <2>3 DEF NoticeInv, NoticeShape
<1>7. NamesAreFresh'
  <2>1. \A n \in notices' : ~IsVolatile(n) <=> n.id \in posted'
    BY <1>1, <1>3
  <2>2. \A n \in noticeFile' : n.id \in posted'
    BY <1>1, <1>5 DEF NoticeInv, NamesAreFresh
  <2>3. \A n \in coming' : n.id \notin posted' \cup IdsOf(notices') \cup IdsOf(noticeFile')
    <3> SUFFICES ASSUME NEW n \in coming' 
                 PROVE  n.id \notin posted' \cup IdsOf(notices') \cup IdsOf(noticeFile')
      OBVIOUS
    <3>1. n.id \notin posted' /\ n.id \notin IdsOf(noticeFile) /\ n.id \notin IdsOf(old)
      BY DEF NoticeInv, NamesAreFresh
    <3> QED
      BY <3>1, <1>1, <1>3, <1>5 DEF IdsOf
  <2>4. \A n, m \in coming' : n.id = m.id => n = m
    BY DEF NoticeInv, NamesAreFresh
  <2> QED
    BY <2>1, <2>2, <2>3, <2>4 DEF NamesAreFresh, IdsOf, IsVolatile
<1>8. DiskIsClean'
  BY <1>3, <1>5 DEF NoticeInv, DiskIsClean, PersistLocked, LastingNotices, IsVolatile
<1> QED
  BY <1>6, <1>7, <1>8

\* The notices that are newer, for a name: more of them as more are saved.
LEMMA NewerStay ==
    ASSUME NoticeInv, posted \subseteq posted', posted' \subseteq 1..made, NEW id
    PROVE  /\ IsFiniteSet({m \in posted' : m > id})
           /\ Cardinality({m \in posted : m > id}) <= Cardinality({m \in posted' : m > id})
           /\ Cardinality({m \in posted : m > id}) \in Nat
           /\ Cardinality({m \in posted' : m > id}) \in Nat
<1> DEFINE before == {m \in posted : m > id}
           after  == {m \in posted' : m > id}
<1>1. IsFiniteSet(1..made)
  BY FS_Interval, NoticeBounds DEF NoticeInv, NoticeShape
<1>2. after \subseteq 1..made /\ before \subseteq after
  OBVIOUS
<1> HIDE DEF before, after
<1>3. IsFiniteSet(after) /\ Cardinality(after) \in Nat
  BY <1>1, <1>2, FS_Subset, FS_CardinalityType
<1>4. IsFiniteSet(before) /\ Cardinality(before) <= Cardinality(after)
         /\ Cardinality(before) \in Nat
  BY <1>2, <1>3, FS_Subset, FS_CardinalityType
<1> QED
  BY <1>3, <1>4 DEF before, after

LEMMA SaveKeeps ==
    ASSUME NoticeInv, NEW n \in coming, NEW ok \in BOOLEAN, Save(n, ok)
    PROVE  NoticeInv'
<1>1. CASE \E m \in notices : m.key = n.key
  <2>1. coming' = coming \ {n} /\ UNCHANGED <<notices, noticeFile, noticesEnabled, made,
           unwritten, posted, excused>>
    BY <1>1 DEF Save
  <2>2. NoticeShape'
    BY <2>1 DEF NoticeInv, NoticeShape, Well, Distinct, Fits, GroupOf, IsVolatile
  <2>3. NamesAreFresh'
    BY <2>1 DEF NoticeInv, NamesAreFresh, IdsOf, IsVolatile
  <2>4. DiskIsClean' /\ StoredNoticesStay'
    BY <2>1 DEF NoticeInv, DiskIsClean, StoredNoticesStay, IdsOf, LastingNotices, IsVolatile
  <2> QED
    BY <2>2, <2>3, <2>4 DEF NoticeInv
<1>2. CASE \A m \in notices : m.key # n.key
  <2> DEFINE all == notices \cup {n}
             ns  == Trimmed(all)
  <2>1. /\ coming' = coming \ {n} /\ PersistLocked(ns, ok)
        /\ posted' = posted \cup IdsOf(LastingNotices({n}))
        /\ UNCHANGED <<noticesEnabled, made, excused>>
    BY <1>2 DEF Save
  <2>2. /\ n.id \notin posted \cup IdsOf(notices) \cup IdsOf(noticeFile)
        /\ n \in NoticeRecords /\ n.id <= made /\ made \in Nat
    BY NoticeBounds DEF NoticeInv, NoticeShape, NamesAreFresh
  <2>3. all \in SUBSET NoticeRecords /\ Distinct(all)
    <3>1. Distinct(notices) /\ notices \subseteq NoticeRecords
      BY DEF NoticeInv, NoticeShape, Well
    <3> QED
      BY <1>2, <2>2, <3>1 DEF Distinct, IdsOf
  <2>4. Well(ns) /\ ns \subseteq all
    BY <2>3, WellTrimmed DEF Trimmed
  <2>5. posted' = IF IsVolatile(n) THEN posted ELSE posted \cup {n.id}
    BY <2>1 DEF LastingNotices, IdsOf
  <2>6. \A m \in all : m.id <= made /\ (~IsVolatile(m) <=> m.id \in posted')
    <3>1. \A m \in notices : m.id <= made /\ (~IsVolatile(m) <=> m.id \in posted) /\ m.id # n.id
      BY <2>2 DEF NoticeInv, NoticeShape, NamesAreFresh, IdsOf
    <3> QED
      BY <2>2, <2>5, <3>1
  <2>7. posted \subseteq posted' /\ posted' \subseteq 1..made /\ excused' \subseteq 1..made
    BY <2>1, <2>2, <2>5 DEF NoticeInv, NoticeShape, NoticeRecords
  <2>8. \A c \in coming' : c.id \notin IdsOf(all) \cup posted'
    <3> SUFFICES ASSUME NEW c \in coming' PROVE c.id \notin IdsOf(all) \cup posted'
      OBVIOUS
    <3>1. c \in coming /\ c.id # n.id /\ c.id \notin posted \cup IdsOf(notices)
      BY <2>1 DEF NoticeInv, NamesAreFresh
    <3> QED
      BY <3>1, <2>5 DEF IdsOf
  <2>9. NoticeShape' /\ NamesAreFresh' /\ DiskIsClean'
    <3> HIDE DEF all, ns
    <3>1. \A m \in ns : \E k \in all : k.id = m.id /\ k.key = m.key
      BY <2>4
    <3>2. coming' \subseteq coming
      BY <2>1
    <3> QED
      BY <2>1, <2>3, <2>4, <2>6, <2>7, <2>8, <3>1, <3>2, WriteKeeps, ZenonT(60)
  <2>10. StoredNoticesStay'
    <3> SUFFICES ASSUME NEW id \in posted' \ excused', id \notin IdsOf(notices')
                 PROVE  Cardinality({m \in posted' : m > id}) >= MaxStored
      BY DEF StoredNoticesStay, IdsOf
    <3>1. CASE id \in IdsOf(all)
      <4>1. PICK k \in all : k.id = id
        BY <3>1 DEF IdsOf
      <4>2. notices' = ns
        BY <2>1 DEF PersistLocked
      <4>3. k \notin ns
        BY <4>1, <4>2 DEF IdsOf
      <4> DEFINE newer == {m \in all : IsVolatile(m) = IsVolatile(k) /\ m.id > k.id}
      <4>4. ~(Cardinality(newer) < MaxStored)
        BY <4>3 DEF Trimmed
      <4>5. ~IsVolatile(k)
        BY <2>6, <4>1
      <4>6. \A m \in newer : m.id \in posted' /\ m.id > id
        BY <2>6, <4>1, <4>5
      <4> DEFINE f == [m \in newer |-> m.id]
                 later == {m \in posted' : m > id}
      <4>7. f \in [newer -> later] /\ \A x, y \in newer : f[x] = f[y] => x = y
        BY <2>3, <4>6 DEF Distinct
      <4>8. IsFiniteSet(later)
        BY <2>7, NewerStay
      <4> HIDE DEF newer, f, later
      <4>9. Cardinality(newer) <= Cardinality(later) /\ Cardinality(newer) \in Nat
        BY <4>7, <4>8, CountedBy
      <4>10. Cardinality(later) \in Nat
        BY <4>8, FS_CardinalityType
      <4> QED
        BY <4>4, <4>9, <4>10, NoticeBounds DEF later
    <3>2. CASE id \notin IdsOf(all)
      <4>1. id \in posted \ excused /\ id \notin IdsOf(notices)
        BY <2>1, <2>5, <3>2 DEF IdsOf
      <4>2. Cardinality({m \in posted : m > id}) >= MaxStored
        BY <4>1 DEF NoticeInv, StoredNoticesStay
      <4>3. /\ Cardinality({m \in posted : m > id}) <= Cardinality({m \in posted' : m > id})
            /\ Cardinality({m \in posted : m > id}) \in Nat
            /\ Cardinality({m \in posted' : m > id}) \in Nat
        BY <2>7, NewerStay
      <4> QED
        BY <4>2, <4>3, NoticeBounds
    <3> QED
      BY <3>1, <3>2
  <2> QED
    BY <2>9, <2>10 DEF NoticeInv
<1> QED
  BY <1>1, <1>2

\* A write that saves nothing new: what is in memory is worded anew or given up.
LEMMA RewriteKeeps ==
    ASSUME NoticeInv, NEW ns \in SUBSET NoticeRecords, NEW ok \in BOOLEAN, PersistLocked(ns, ok),
           \A n \in ns : \E m \in notices : m.id = n.id /\ m.key = n.key,
           \A n, m \in ns : n.id = m.id => n = m,
           \A id \in IdsOf(notices) : id \in IdsOf(ns) \cup excused',
           excused \subseteq excused', excused' \subseteq 1..made,
           UNCHANGED <<coming, noticesEnabled, made, posted>>
    PROVE  NoticeInv'
<1>1. Well(notices) /\ notices \in SUBSET NoticeRecords
  BY DEF NoticeInv, NoticeShape, Well
<1>2. Well(ns)
  BY <1>1, WellReworded
<1>3. /\ \A m \in notices : m.id <= made /\ (~IsVolatile(m) <=> m.id \in posted')
      /\ posted \subseteq posted' /\ posted' \subseteq 1..made
      /\ \A n \in coming' : n.id \notin IdsOf(notices) \cup posted'
      /\ coming' \subseteq coming
  BY DEF NoticeInv, NoticeShape, NamesAreFresh
<1>4. NoticeShape' /\ NamesAreFresh' /\ DiskIsClean'
  BY <1>1, <1>2, <1>3, WriteKeeps
<1>5. StoredNoticesStay'
  <2>1. notices' = ns
    BY DEF PersistLocked
  <2> QED
    BY <2>1 DEF NoticeInv, StoredNoticesStay, IdsOf
<1> QED
  BY <1>4, <1>5 DEF NoticeInv

LEMMA MarkReadKeeps ==
    ASSUME NoticeInv, NEW n \in notices, NEW ok \in BOOLEAN, MarkRead(n, ok)
    PROVE  NoticeInv'
<1> DEFINE read == [n EXCEPT !.read = TRUE]
           ns   == (notices \ {n}) \cup {read}
<1>1. notices \subseteq NoticeRecords /\ Distinct(notices)
  BY DEF NoticeInv, NoticeShape, Well
<1>2. read \in NoticeRecords /\ read.id = n.id /\ read.key = n.key
  BY <1>1 DEF NoticeRecords
<1>3. /\ PersistLocked(ns, ok)
      /\ UNCHANGED <<coming, noticesEnabled, made, posted, excused>>
  BY DEF MarkRead, Read
<1> HIDE DEF read
<1>4. /\ \A m \in ns : \E k \in notices : k.id = m.id /\ k.key = m.key
      /\ \A m, k \in ns : m.id = k.id => m = k
      /\ IdsOf(notices) \subseteq IdsOf(ns)
      /\ ns \in SUBSET NoticeRecords
  BY <1>1, <1>2 DEF Distinct, IdsOf
<1>5. excused \subseteq excused' /\ excused' \subseteq 1..made
  BY <1>3 DEF NoticeInv, NoticeShape
<1> HIDE DEF ns
<1> QED
  BY <1>3, <1>4, <1>5, RewriteKeeps

LEMMA MarkAllReadKeeps ==
    ASSUME NoticeInv, NEW ok \in BOOLEAN, MarkAllRead(ok)
    PROVE  NoticeInv'
<1> DEFINE ns == Read(notices)
<1>1. notices \subseteq NoticeRecords /\ Distinct(notices)
  BY DEF NoticeInv, NoticeShape, Well
<1>2. \A m \in ns : \E k \in notices : m = [k EXCEPT !.read = TRUE]
  BY DEF Read
<1>3. \A k \in notices : /\ [k EXCEPT !.read = TRUE] \in ns
                               /\ [k EXCEPT !.read = TRUE] \in NoticeRecords
                         /\ [k EXCEPT !.read = TRUE].id = k.id
                         /\ [k EXCEPT !.read = TRUE].key = k.key
  BY <1>1 DEF NoticeRecords, Read
<1> HIDE DEF ns
<1>4. /\ \A m \in ns : \E k \in notices : k.id = m.id /\ k.key = m.key
      /\ \A m, k \in ns : m.id = k.id => m = k
      /\ ns \in SUBSET NoticeRecords
  <2>1. \A m \in ns : \E k \in notices : /\ k.id = m.id /\ k.key = m.key
                                         /\ m = [k EXCEPT !.read = TRUE] /\ m \in NoticeRecords
    BY <1>2, <1>3
  <2>2. ASSUME NEW m \in ns, NEW k \in ns, m.id = k.id PROVE m = k
    <3>1. PICK m0 \in notices : m0.id = m.id /\ m = [m0 EXCEPT !.read = TRUE]
      BY <2>1
    <3>2. PICK k0 \in notices : k0.id = k.id /\ k = [k0 EXCEPT !.read = TRUE]
      BY <2>1
    <3>3. m0 = k0
      BY <1>1, <2>2, <3>1, <3>2 DEF Distinct
    <3> QED
      BY <3>1, <3>2, <3>3
  <2> QED
    BY <2>1, <2>2
<1>5. IdsOf(notices) \subseteq IdsOf(ns)
  BY <1>3 DEF IdsOf
<1>6. /\ PersistLocked(ns, ok) /\ UNCHANGED <<coming, noticesEnabled, made, posted, excused>>
      /\ excused \subseteq excused' /\ excused' \subseteq 1..made
  BY DEF MarkAllRead, ns, NoticeInv, NoticeShape
<1> QED
  BY <1>4, <1>5, <1>6, RewriteKeeps

\* DeleteRead and DeleteSession: what is gone, a user gave up.
LEMMA GivenUpKeeps ==
    ASSUME NoticeInv, NEW gone \in SUBSET notices, NEW ok \in BOOLEAN,
           PersistLocked(notices \ gone, ok), excused' = excused \cup IdsOf(gone),
           UNCHANGED <<coming, noticesEnabled, made, posted>>
    PROVE  NoticeInv'
<1> DEFINE ns == notices \ gone
<1>1. notices \subseteq NoticeRecords /\ Distinct(notices) /\ \A n \in notices : n.id \in 1..made
  BY NoticeBounds DEF NoticeInv, NoticeShape, Well, NoticeRecords
<1>2. ns \in SUBSET NoticeRecords
  BY <1>1
<1>3. IdsOf(notices) \subseteq IdsOf(ns) \cup IdsOf(gone)
  BY DEF IdsOf
<1>4. excused \subseteq excused' /\ excused' \subseteq 1..made
  BY <1>1 DEF NoticeInv, NoticeShape, IdsOf
<1>5. /\ \A m \in ns : \E k \in notices : k.id = m.id /\ k.key = m.key
      /\ \A m, k \in ns : m.id = k.id => m = k
      /\ \A id \in IdsOf(notices) : id \in IdsOf(ns) \cup excused'
  BY <1>1, <1>3 DEF Distinct
<1> HIDE DEF ns
<1> QED
  BY <1>2, <1>4, <1>5, RewriteKeeps DEF ns

LEMMA RestartKeeps ==
    ASSUME NoticeInv, RestartNotices
    PROVE  NoticeInv'
<1>1. notices' = noticeFile /\ noticeFile' = noticeFile /\ coming' = {} /\ unwritten' = FALSE
  BY DEF RestartNotices
<1>2. UNCHANGED <<noticesEnabled, made, posted>>
  BY DEF RestartNotices
<1>3. \A n \in notices : n.id \in 1..made
  BY NoticeBounds DEF NoticeInv, NoticeShape, Well, NoticeRecords
<1>4. NoticeShape'
  <2>1. Well(notices)' /\ Well(noticeFile)'
    BY <1>1 DEF NoticeInv, NoticeShape, Well, Distinct, Fits, GroupOf, IsVolatile
  <2>2. posted' \cup excused' \subseteq 1..made'
    BY <1>2, <1>3 DEF NoticeInv, NoticeShape, RestartNotices, IdsOf
  <2>3. \A n \in notices' \cup noticeFile' \cup coming' : n.id <= made'
    BY <1>1, <1>2 DEF NoticeInv, NoticeShape
  <2> QED
    BY <1>1, <1>2, <2>1, <2>2, <2>3 DEF NoticeInv, NoticeShape
<1>5. NamesAreFresh'
  BY <1>1, <1>2 DEF NoticeInv, NamesAreFresh, DiskIsClean, IdsOf, IsVolatile
<1>6. DiskIsClean'
  BY <1>1 DEF NoticeInv, DiskIsClean, LastingNotices, IsVolatile
<1>7. StoredNoticesStay'
  <2>1. CASE unwritten
    <3>1. excused' = excused \cup IdsOf(notices)
      BY <2>1 DEF RestartNotices
    <3> QED
      BY <3>1, <1>2 DEF NoticeInv, StoredNoticesStay, IdsOf
  <2>2. CASE ~unwritten
    <3>1. excused' = excused /\ notices' = LastingNotices(notices)
      BY <1>1, <2>2 DEF RestartNotices, NoticeInv, DiskIsClean
    <3>2. \A id \in posted : id \in IdsOf(notices) => id \in IdsOf(LastingNotices(notices))
      BY DEF NoticeInv, NamesAreFresh, IdsOf, LastingNotices
    <3>3. IdsOf(notices)' = IdsOf(LastingNotices(notices))
      BY <3>1 DEF IdsOf
    <3> QED
      BY <3>1, <3>2, <3>3, <1>2 DEF NoticeInv, StoredNoticesStay
  <2> QED
    BY <2>1, <2>2 DEF NoticeInv, NoticeShape
<1> QED
  BY <1>4, <1>5, <1>6, <1>7 DEF NoticeInv

LEMMA NoticesRest ==
    ASSUME NoticeInv, noticesEnabled' \in BOOLEAN,
           UNCHANGED <<notices, noticeFile, coming, made, unwritten, posted, excused>>
    PROVE  NoticeInv'
<1>1. NoticeShape'
  BY DEF NoticeInv, NoticeShape, Well, Distinct, Fits, GroupOf, IsVolatile
<1>2. NamesAreFresh' /\ DiskIsClean' /\ StoredNoticesStay'
  BY DEF NoticeInv, NamesAreFresh, DiskIsClean, StoredNoticesStay, IdsOf, LastingNotices,
      IsVolatile
<1> QED
  BY <1>1, <1>2 DEF NoticeInv

LEMMA NoticeInvKept == NoticeInv /\ [NoticesNext]_noticeVars => NoticeInv'
<1> SUFFICES ASSUME NoticeInv, [NoticesNext]_noticeVars PROVE NoticeInv'
  OBVIOUS
<1>1. ASSUME NEW key \in Subjects, MakeNotice(key) PROVE NoticeInv'
  BY <1>1, MakeNoticeKeeps
<1>2. ASSUME NEW on \in BOOLEAN, SetNotificationsEnabled(on) PROVE NoticeInv'
  BY <1>2, NoticesRest DEF SetNotificationsEnabled
<1>3. ASSUME NEW ok \in BOOLEAN, NEW n \in coming, Save(n, ok) PROVE NoticeInv'
  BY <1>3, SaveKeeps
<1>4. ASSUME NEW ok \in BOOLEAN, NEW n \in notices, MarkRead(n, ok) PROVE NoticeInv'
  BY <1>4, MarkReadKeeps
<1>5. ASSUME NEW ok \in BOOLEAN, MarkAllRead(ok) PROVE NoticeInv'
  BY <1>5, MarkAllReadKeeps
<1>6. ASSUME NEW ok \in BOOLEAN, DeleteRead(ok) PROVE NoticeInv'
  <2> DEFINE gone == {n \in notices : n.read}
  <2>1. /\ PersistLocked(notices \ gone, ok) /\ excused' = excused \cup IdsOf(gone)
        /\ UNCHANGED <<coming, noticesEnabled, made, posted>> /\ gone \in SUBSET notices
    BY <1>6 DEF DeleteRead
  <2> HIDE DEF gone
  <2> QED
    BY <2>1, GivenUpKeeps
<1>7. ASSUME NEW ok \in BOOLEAN, NEW key \in Subjects, DeleteNoticesOf(SubjectOf[key], ok)
                PROVE NoticeInv'
  <2> DEFINE gone == {n \in notices : SubjectOf[n.key] = SubjectOf[key]}
  <2>1. CASE ok
    <3>1. /\ PersistLocked(notices \ gone, ok) /\ excused' = excused \cup IdsOf(gone)
          /\ UNCHANGED <<coming, noticesEnabled, made, posted>> /\ gone \in SUBSET notices
      BY <1>7, <2>1 DEF DeleteNoticesOf, PersistLocked
    <3> HIDE DEF gone
    <3> QED
      BY <3>1, GivenUpKeeps
  <2>2. CASE ~ok
    <3>1. /\ UNCHANGED <<notices, noticeFile, coming, noticesEnabled, made, unwritten, posted,
                excused>>
          /\ noticesEnabled \in BOOLEAN
      BY <1>7, <2>2 DEF DeleteNoticesOf, NoticeInv, NoticeShape
    <3> QED
      BY <3>1, NoticesRest
  <2> QED
    BY <2>1, <2>2
<1>8. CASE RestartNotices
  BY <1>8, RestartKeeps
<1>9. CASE UNCHANGED noticeVars
  <2>1. noticesEnabled' \in BOOLEAN
    BY <1>9 DEF noticeVars, NoticeInv, NoticeShape
  <2> QED
    BY <1>9, <2>1, NoticesRest DEF noticeVars
<1> QED
  BY <1>1, <1>2, <1>3, <1>4, <1>5, <1>6, <1>7, <1>8, <1>9 DEF NoticesNext

LEMMA NoticeInvHolds == NoticeInv => NoticesTypeOK /\ NoticesHold
<1> SUFFICES ASSUME NoticeInv PROVE NoticesTypeOK /\ NoticesHold
  OBVIOUS
<1>1. NoticesTypeOK
  BY DEF NoticeInv, NoticeShape, Well, NoticesTypeOK
<1>2. ToldOnce
  <2>1. \A v \in BOOLEAN : GroupOf(notices, v) = {n \in notices : IsVolatile(n) = v}
    BY DEF GroupOf
  <2> QED
    BY <2>1 DEF NoticeInv, NoticeShape, Well, Distinct, Fits, ToldOnce
<1> QED
  BY <1>1, <1>2 DEF NoticeInv, NoticesHold

-----------------------------------------------------------------------------
(* Backup: for any directories and any number of writes and restores, what *)
(* a restart reads after a restore is sound, or the backup was not of one  *)
(* piece.                                                                  *)

\* What is written in the order sessions, projects, workspaces, is on the one
\* side of an owner before the owner itself is.
OwnedBy(ts, ps, ws) ==
    \A t \in DOMAIN ts :
        /\ ts[t][1] \in ws
        /\ ts[t][2] # None => ts[t][2] \in DOMAIN ps /\ ps[ts[t][2]] = ts[t][1]
PlacedIn(ps, ws) == \A p \in DOMAIN ps : ps[p] \in ws
Within(ts, us) == \A t \in DOMAIN ts : t \in DOMAIN us /\ ts[t] = us[t]

LEMMA SoundIsOwned ==
    ASSUME NEW d
    PROVE  IsSound(d) <=> PlacedIn(d.projects, d.workspaces)
                          /\ OwnedBy(d.sessions, d.projects, d.workspaces)
BY DEF IsSound, PlacedIn, OwnedBy

Rest1 == <<"projects", "workspaces">>
Rest2 == <<"workspaces">>
Turns == {<<>>, Rest2, Rest1, Directories}

LEMMA TurnsGoOn ==
    /\ Directories # <<>> /\ Head(Directories) = "sessions" /\ Tail(Directories) = Rest1
    /\ Rest1 # <<>> /\ Head(Rest1) = "projects" /\ Tail(Rest1) = Rest2
    /\ Rest2 # <<>> /\ Head(Rest2) = "workspaces" /\ Tail(Rest2) = <<>>
BY DEF Directories, Rest1, Rest2

BackupShape ==
    /\ disk = [workspaces |-> disk.workspaces, projects |-> disk.projects,
          sessions |-> disk.sessions]
    /\ archive = [workspaces |-> archive.workspaces, projects |-> archive.projects,
                  sessions |-> archive.sessions]
    /\ kept = [workspaces |-> kept.workspaces, projects |-> kept.projects]
    /\ walk \in Turns /\ unpack \in Turns /\ (walk = <<>> \/ unpack = <<>>)
    /\ {halted, inPieces, changed} \subseteq BOOLEAN
    /\ restores \in Nat /\ service \in {"up", "down", "refused"}
    /\ service # "up" => walk = <<>> /\ unpack = <<>>

\* Before the first restore the directory is what the service has made of it.
UntilRestored ==
    restores = 0 =>
        /\ IsSound(disk) /\ ~halted /\ unpack = <<>> /\ service # "refused"
        /\ service = "up" => InStep

\* A backup so far, and the directory it is made of.
WalkIsOfOnePiece ==
    ~inPieces =>
        /\ walk # <<>> => IsSound(disk)
        /\ walk = Rest1 => OwnedBy(archive.sessions, disk.projects, disk.workspaces)
        /\ walk = Rest2 => /\ OwnedBy(archive.sessions, archive.projects, disk.workspaces)
                           /\ PlacedIn(archive.projects, disk.workspaces)
        /\ walk = <<>> => IsSound(archive)

\* An unchanged directory has no session that its backup has not, and a
\* restore makes it the backup's, one kind after the other.
RestoredSoFar ==
    ~inPieces /\ ~changed /\ ~halted =>
        /\ unpack = <<>> => IsSound(disk)
        /\ walk \in {Rest1, Rest2} \/ (walk = <<>> /\ archive # NoData) =>
              Within(disk.sessions, archive.sessions)
        /\ unpack = Directories => archive # NoData
        /\ unpack \in {Rest1, Rest2} => /\ Within(disk.sessions, archive.sessions)
                                        /\ Within(archive.sessions, disk.sessions)
        /\ unpack = Rest2 => disk.projects = archive.projects

BackupInv ==
    /\ BackupShape /\ UntilRestored /\ WalkIsOfOnePiece /\ RestoredSoFar
    /\ service = "refused" => ~IsSound(disk)

LEMMA NoDataIsSound ==
    /\ IsSound(NoData) /\ NoData.sessions = <<>>
    /\ IsSound([NoData EXCEPT !.workspaces = {First}])
    /\ [NoData EXCEPT !.workspaces = {First}].sessions = <<>>
BY DEF IsSound, NoData

LEMMA BackupInvStarts == BackupInit => BackupInv
<1> SUFFICES ASSUME BackupInit PROVE BackupInv
  OBVIOUS
<1>1. BackupShape
  BY DEF BackupInit, BackupShape, NoData, Turns
<1>2. InStep
  BY DEF BackupInit, InStep, NoData
<1>3. Directories # <<>> /\ Rest1 # <<>> /\ Rest2 # <<>>
  BY TurnsGoOn
<1> QED
  BY <1>1, <1>2, <1>3, NoDataIsSound
     DEF BackupInit, BackupInv, UntilRestored, WalkIsOfOnePiece, RestoredSoFar

-----------------------------------------------------------------------------
\* What the service adds keeps what is there, and it removes no owner of
\* anything, so long as it knows the directory.
Additions ==
    \/ \E w \in Spaces : AddSpace(w)
    \/ \E p \in Folders, w \in Spaces : AddFolder(p, w)
    \/ \E t \in Talks, w \in Spaces, p \in Folders \cup {None} : AddTalk(t, w, p)
Removals ==
    \/ \E w \in Spaces : RemoveSpace(w)
    \/ \E p \in Folders : RemoveFolder(p)
    \/ \E t \in Talks : RemoveTalk(t)

LEMMA AdditionsKeepSound ==
    ASSUME BackupShape, InStep, IsSound(disk), Additions
    PROVE  /\ IsSound(disk)' /\ InStep'
           /\ disk.workspaces \subseteq disk'.workspaces
           /\ Within(disk.projects, disk'.projects)
<1>1. ASSUME NEW w \in Spaces, AddSpace(w)
      PROVE  /\ IsSound(disk)' /\ InStep' /\ disk.workspaces \subseteq disk'.workspaces
             /\ Within(disk.projects, disk'.projects)
  <2>1. /\ disk'.workspaces = kept.workspaces \cup {w} /\ disk'.projects = disk.projects
        /\ disk'.sessions = disk.sessions
        /\ kept' = [workspaces |-> kept.workspaces \cup {w}, projects |-> kept.projects]
    BY <1>1 DEF AddSpace, SaveSpaces, BackupShape
  <2> QED
    BY <2>1 DEF InStep, IsSound, Within
<1>2. ASSUME NEW p \in Folders, NEW w \in Spaces, AddFolder(p, w)
      PROVE  /\ IsSound(disk)' /\ InStep' /\ disk.workspaces \subseteq disk'.workspaces
             /\ Within(disk.projects, disk'.projects)
  <2>1. /\ disk'.projects = Including(kept.projects, p, w) /\ disk'.workspaces = disk.workspaces
        /\ disk'.sessions = disk.sessions
        /\ kept' = [workspaces |-> kept.workspaces, projects |-> Including(kept.projects, p, w)]
        /\ p \notin DOMAIN kept.projects /\ w \in kept.workspaces
    BY <1>2 DEF AddFolder, SaveFolders, BackupShape
  <2> QED
    BY <2>1 DEF InStep, IsSound, Within, Including
<1>3. ASSUME NEW t \in Talks, NEW w \in Spaces, NEW p \in Folders \cup {None}, AddTalk(t, w, p)
      PROVE  /\ IsSound(disk)' /\ InStep' /\ disk.workspaces \subseteq disk'.workspaces
             /\ Within(disk.projects, disk'.projects)
  <2>1. /\ disk'.projects = disk.projects /\ disk'.workspaces = disk.workspaces
        /\ disk'.sessions = Including(disk.sessions, t, <<w, p>>)
        /\ kept' = kept /\ w \in kept.workspaces
        /\ p # None => p \in DOMAIN kept.projects /\ kept.projects[p] = w
    BY <1>3 DEF AddTalk, BackupShape
  <2> QED
    BY <2>1 DEF InStep, IsSound, Within, Including
<1> QED
  BY <1>1, <1>2, <1>3 DEF Additions

LEMMA RemovalsKeepSound ==
    ASSUME BackupShape, InStep, IsSound(disk), Removals
    PROVE  IsSound(disk)' /\ InStep'
<1>1. ASSUME NEW w \in Spaces, RemoveSpace(w) PROVE IsSound(disk)' /\ InStep'
  <2>1. /\ disk'.workspaces = kept.workspaces \ {w} /\ disk'.projects = disk.projects
        /\ disk'.sessions = disk.sessions
        /\ kept' = [workspaces |-> kept.workspaces \ {w}, projects |-> kept.projects]
        /\ \A t \in DOMAIN disk.sessions : disk.sessions[t][1] # w
        /\ \A p \in DOMAIN kept.projects : kept.projects[p] # w
    BY <1>1 DEF RemoveSpace, SaveSpaces, BackupShape
  <2> QED
    BY <2>1 DEF InStep, IsSound
<1>2. ASSUME NEW p \in Folders, RemoveFolder(p) PROVE IsSound(disk)' /\ InStep'
  <2>1. /\ disk'.projects = Excluding(kept.projects, p) /\ disk'.workspaces = disk.workspaces
        /\ disk'.sessions = disk.sessions
        /\ kept' = [workspaces |-> kept.workspaces, projects |-> Excluding(kept.projects, p)]
        /\ \A t \in DOMAIN disk.sessions : disk.sessions[t][2] # p
    BY <1>2 DEF RemoveFolder, SaveFolders, BackupShape
  <2> QED
    BY <2>1 DEF InStep, IsSound, Excluding
<1>3. ASSUME NEW t \in Talks, RemoveTalk(t) PROVE IsSound(disk)' /\ InStep'
  <2>1. /\ disk'.projects = disk.projects /\ disk'.workspaces = disk.workspaces
        /\ disk'.sessions = Excluding(disk.sessions, t) /\ kept' = kept
    BY <1>3 DEF RemoveTalk, BackupShape
  <2> QED
    BY <2>1 DEF InStep, IsSound, Excluding
<1> QED
  BY <1>1, <1>2, <1>3 DEF Removals

LEMMA ChangesKeepShape ==
    ASSUME BackupShape, Additions \/ Removals
    PROVE  /\ BackupShape' /\ service = "up" /\ changed'
           /\ UNCHANGED <<archive, walk, unpack, halted, service, restores>>
           /\ Additions => inPieces' = (inPieces \/ (walk # <<>> /\ ~InStep))
           /\ Removals => inPieces' = (inPieces \/ walk # <<>>)
<1>1. \E removes \in BOOLEAN : Changes(removes) /\ (Additions => Changes(FALSE))
         /\ (Removals => Changes(TRUE))
  BY DEF Additions, Removals, AddSpace, AddFolder, AddTalk, RemoveSpace, RemoveFolder, RemoveTalk
<1>2. /\ service = "up" /\ changed' = TRUE /\ inPieces' \in BOOLEAN
      /\ UNCHANGED <<archive, walk, unpack, halted, service, restores>>
  BY <1>1 DEF Changes, BackupShape
<1>3. /\ disk' = [workspaces |-> disk'.workspaces, projects |-> disk'.projects,
            sessions |-> disk'.sessions]
      /\ kept' = [workspaces |-> kept'.workspaces, projects |-> kept'.projects]
  BY DEF Additions, Removals, AddSpace, AddFolder, AddTalk, RemoveSpace, RemoveFolder,
      RemoveTalk, SaveSpaces, SaveFolders, BackupShape
<1>4. BackupShape'
  BY <1>2, <1>3 DEF BackupShape
<1>5. Additions => inPieces' = (inPieces \/ (walk # <<>> /\ ~InStep))
  BY <1>1 DEF Changes
<1>6. Removals => inPieces' = (inPieces \/ walk # <<>>)
  BY <1>1 DEF Changes
<1> QED
  BY <1>2, <1>4, <1>5, <1>6

LEMMA ChangesKeep == ASSUME BackupInv, Additions \/ Removals PROVE BackupInv'
<1>1. /\ BackupShape' /\ service = "up" /\ changed'
      /\ UNCHANGED <<archive, walk, unpack, halted, service, restores>>
      /\ Additions => inPieces' = (inPieces \/ (walk # <<>> /\ ~InStep))
      /\ Removals => inPieces' = (inPieces \/ walk # <<>>)
  BY ChangesKeepShape DEF BackupInv
<1>2. UntilRestored'
  BY <1>1, AdditionsKeepSound, RemovalsKeepSound DEF BackupInv, UntilRestored
<1>3. WalkIsOfOnePiece'
  <2>1. CASE walk = <<>>
    <3>1. ~inPieces' => ~inPieces
      BY <1>1
    <3> QED
      BY <1>1, <2>1, <3>1, TurnsGoOn DEF BackupInv, WalkIsOfOnePiece, IsSound
  <2>2. CASE walk # <<>> /\ ~inPieces'
    <3>1. ~inPieces /\ InStep /\ Additions /\ IsSound(disk)
      BY <1>1, <2>2 DEF BackupInv, WalkIsOfOnePiece
    <3>2. /\ IsSound(disk)' /\ disk.workspaces \subseteq disk'.workspaces
          /\ Within(disk.projects, disk'.projects)
      BY <3>1, AdditionsKeepSound DEF BackupInv
    <3>3. ASSUME walk = Rest1
          PROVE  OwnedBy(archive.sessions, disk'.projects, disk'.workspaces)
      BY <3>1, <3>2, <3>3 DEF BackupInv, WalkIsOfOnePiece, OwnedBy, Within
    <3>4. ASSUME walk = Rest2
          PROVE  /\ OwnedBy(archive.sessions, archive.projects, disk'.workspaces)
                 /\ PlacedIn(archive.projects, disk'.workspaces)
      BY <3>1, <3>2, <3>4 DEF BackupInv, WalkIsOfOnePiece, OwnedBy, PlacedIn
    <3> QED
      BY <1>1, <2>2, <3>2, <3>3, <3>4 DEF WalkIsOfOnePiece, OwnedBy, PlacedIn
  <2> QED
    BY <2>1, <2>2 DEF WalkIsOfOnePiece
<1>4. RestoredSoFar'
  BY <1>1 DEF RestoredSoFar
<1> QED
  BY <1>1, <1>2, <1>3, <1>4 DEF BackupInv

LEMMA BeginBackupKeeps == ASSUME BackupInv, BeginBackup PROVE BackupInv'
<1>1. /\ service = "up" /\ walk = <<>> /\ unpack = <<>> /\ walk' = Directories
            /\ archive' = NoData
      /\ inPieces' = (restores > 0 /\ (inPieces \/ changed \/ halted))
      /\ changed' = (changed /\ restores > 0)
      /\ UNCHANGED <<disk, kept, unpack, halted, service, writes, restores>>
  BY DEF BeginBackup
<1>2. BackupShape'
  <2>1. archive' = [workspaces |-> archive'.workspaces, projects |-> archive'.projects,
                    sessions |-> archive'.sessions]
    BY <1>1 DEF NoData
  <2>2. /\ disk' = [workspaces |-> disk'.workspaces, projects |-> disk'.projects,
              sessions |-> disk'.sessions]
        /\ kept' = [workspaces |-> kept'.workspaces, projects |-> kept'.projects]
        /\ walk' \in Turns /\ unpack' \in Turns /\ unpack' = <<>>
        /\ {halted', inPieces', changed'} \subseteq BOOLEAN
        /\ restores' \in Nat /\ service' = "up"
    BY <1>1 DEF BackupInv, BackupShape, Turns
  <2> QED
    BY <2>1, <2>2 DEF BackupShape
<1>3. UntilRestored'
  BY <1>1 DEF BackupInv, UntilRestored, InStep, IsSound
<1>4. ~inPieces' => IsSound(disk)
  <2>1. CASE restores = 0
    BY <2>1 DEF BackupInv, UntilRestored
  <2>2. CASE restores > 0
    BY <1>1, <2>2 DEF BackupInv, RestoredSoFar
  <2> QED
    BY <2>1, <2>2 DEF BackupInv, BackupShape
<1>5. Directories # Rest1 /\ Directories # Rest2 /\ Directories # <<>>
  BY DEF Directories, Rest1, Rest2
<1>6. WalkIsOfOnePiece'
  BY <1>1, <1>4, <1>5 DEF WalkIsOfOnePiece, IsSound
<1>7. RestoredSoFar'
  BY <1>1, <1>4, <1>5 DEF RestoredSoFar, IsSound, TurnsGoOn, Rest1, Rest2
<1> QED
  BY <1>1, <1>2, <1>3, <1>6, <1>7 DEF BackupInv

LEMMA CopyKeeps == ASSUME BackupInv, Copy PROVE BackupInv'
<1>0. Directories # Rest1 /\ Directories # Rest2 /\ Directories # <<>> /\ Rest1 # Rest2
         /\ Rest1 # <<>> /\ Rest2 # <<>>
  BY DEF Directories, Rest1, Rest2
<1>1. /\ service = "up" /\ walk # <<>> /\ walk' = Tail(walk) /\ unpack = <<>>
      /\ UNCHANGED <<disk, kept, unpack, halted, inPieces, changed, service, writes, restores>>
  BY DEF Copy, BackupInv, BackupShape
<1>2. /\ archive = [workspaces |-> archive.workspaces, projects |-> archive.projects,
            sessions |-> archive.sessions]
      /\ disk = [workspaces |-> disk.workspaces, projects |-> disk.projects,
            sessions |-> disk.sessions]
      /\ archive' = [archive EXCEPT ![Head(walk)] = disk[Head(walk)]]
  BY DEF Copy, BackupInv, BackupShape
<1>3. \/ /\ walk = Directories /\ walk' = Rest1 /\ archive'.sessions = disk.sessions
         /\ archive'.projects = archive.projects /\ archive'.workspaces = archive.workspaces
      \/ /\ walk = Rest1 /\ walk' = Rest2 /\ archive'.projects = disk.projects
         /\ archive'.sessions = archive.sessions /\ archive'.workspaces = archive.workspaces
      \/ /\ walk = Rest2 /\ walk' = <<>> /\ archive'.workspaces = disk.workspaces
         /\ archive'.sessions = archive.sessions /\ archive'.projects = archive.projects
  <2>1. walk \in {Rest2, Rest1, Directories}
    BY <1>1 DEF BackupInv, BackupShape, Turns
  <2>2. CASE walk = Directories
    BY <2>2, <1>1, <1>2, TurnsGoOn
  <2>3. CASE walk = Rest1
    BY <2>3, <1>1, <1>2, TurnsGoOn
  <2>4. CASE walk = Rest2
    BY <2>4, <1>1, <1>2, TurnsGoOn
  <2> QED
    BY <2>1, <2>2, <2>3, <2>4
<1>4. archive' = [workspaces |-> archive'.workspaces, projects |-> archive'.projects,
         sessions |-> archive'.sessions]
  <2>1. Head(walk) \in {"workspaces", "projects", "sessions"}
    BY <1>3, TurnsGoOn
  <2> QED
    BY <1>2, <2>1
<1>5. BackupShape'
  BY <1>1, <1>3, <1>4 DEF BackupInv, BackupShape, Turns
<1>6. UntilRestored'
  BY <1>1 DEF BackupInv, UntilRestored, InStep, IsSound
<1>7. WalkIsOfOnePiece'
  <2> SUFFICES ASSUME ~inPieces PROVE WalkIsOfOnePiece'
    BY <1>1 DEF WalkIsOfOnePiece
  <2>1. IsSound(disk) /\ IsSound(disk)'
    BY <1>1 DEF BackupInv, WalkIsOfOnePiece, IsSound
  <2>2. CASE walk = Directories
    <3>1. OwnedBy(archive'.sessions, disk.projects, disk.workspaces)
      BY <1>3, <2>2, <1>0, <2>1, SoundIsOwned
    <3> QED
      BY <3>1, <1>0, <1>1, <1>3, <2>1, <2>2 DEF WalkIsOfOnePiece, OwnedBy
  <2>3. CASE walk = Rest1
    <3>1. /\ OwnedBy(archive'.sessions, archive'.projects, disk.workspaces)
          /\ PlacedIn(archive'.projects, disk.workspaces)
      BY <1>3, <2>3, <1>0, <2>1, SoundIsOwned DEF BackupInv, WalkIsOfOnePiece
    <3> QED
      BY <3>1, <1>0, <1>1, <1>3, <2>1, <2>3 DEF WalkIsOfOnePiece, OwnedBy, PlacedIn
  <2>4. CASE walk = Rest2
    <3>1. /\ OwnedBy(archive'.sessions, archive'.projects, archive'.workspaces)
          /\ PlacedIn(archive'.projects, archive'.workspaces)
      BY <1>3, <2>4, <1>0, <2>1 DEF BackupInv, WalkIsOfOnePiece
    <3>2. IsSound(archive)'
      BY <3>1 DEF IsSound, OwnedBy, PlacedIn
    <3> QED
      BY <3>2, <1>0, <1>1, <1>3, <2>1, <2>4 DEF WalkIsOfOnePiece
  <2> QED
    BY <1>3, <2>2, <2>3, <2>4
<1>8. RestoredSoFar'
  <2> SUFFICES ASSUME ~inPieces, ~changed, ~halted PROVE RestoredSoFar'
    BY <1>1 DEF RestoredSoFar
  <2>1. IsSound(disk)'
    BY <1>1 DEF BackupInv, WalkIsOfOnePiece, IsSound
  <2>2. Within(disk.sessions, archive'.sessions)
    BY <1>0, <1>3 DEF BackupInv, RestoredSoFar, Within
  <2>3. Within(disk.sessions, archive.sessions)'
    BY <1>1, <2>2 DEF Within
  <2> QED
    BY <1>0, <1>1, <2>1, <2>3 DEF RestoredSoFar
<1> QED
  BY <1>1, <1>5, <1>6, <1>7, <1>8 DEF BackupInv

LEMMA BeginRestoreKeeps == ASSUME BackupInv, BeginRestore PROVE BackupInv'
<1>0. Directories # Rest1 /\ Directories # Rest2 /\ Directories # <<>> /\ Rest1 # <<>>
         /\ Rest2 # <<>>
  BY DEF Directories, Rest1, Rest2
<1>1. /\ service = "up" /\ walk = <<>> /\ unpack = <<>> /\ archive # NoData
      /\ restores' = restores + 1 /\ unpack' = Directories
      /\ UNCHANGED <<disk, kept, archive, walk, halted, inPieces, changed, service, writes>>
  BY DEF BeginRestore
<1>2. BackupShape'
  BY <1>1 DEF BackupInv, BackupShape, Turns
<1>3. UntilRestored'
  BY <1>1 DEF BackupInv, BackupShape, UntilRestored
<1>4. WalkIsOfOnePiece'
  BY <1>1, <1>0 DEF BackupInv, WalkIsOfOnePiece, IsSound
<1>5. RestoredSoFar'
  BY <1>1, <1>0 DEF BackupInv, RestoredSoFar, Within
<1> QED
  BY <1>1, <1>2, <1>3, <1>4, <1>5 DEF BackupInv

LEMMA UnpackKeeps == ASSUME BackupInv, Unpack PROVE BackupInv'
<1>0. Directories # Rest1 /\ Directories # Rest2 /\ Directories # <<>> /\ Rest1 # Rest2
         /\ Rest1 # <<>> /\ Rest2 # <<>>
  BY DEF Directories, Rest1, Rest2
<1>1. /\ service = "up" /\ unpack # <<>> /\ unpack' = Tail(unpack) /\ walk = <<>>
      /\ UNCHANGED <<kept, archive, walk, halted, inPieces, changed, service, writes, restores>>
  BY DEF Unpack, BackupInv, BackupShape
<1>2. /\ disk = [workspaces |-> disk.workspaces, projects |-> disk.projects,
            sessions |-> disk.sessions]
      /\ disk' = [disk EXCEPT ![Head(unpack)] = Unpacked(Head(unpack))]
  BY DEF Unpack, BackupInv, BackupShape
<1>3. \/ /\ unpack = Directories /\ unpack' = Rest1 /\ disk'.sessions = Unpacked("sessions")
         /\ disk'.projects = disk.projects /\ disk'.workspaces = disk.workspaces
      \/ /\ unpack = Rest1 /\ unpack' = Rest2 /\ disk'.projects = archive.projects
         /\ disk'.sessions = disk.sessions /\ disk'.workspaces = disk.workspaces
      \/ /\ unpack = Rest2 /\ unpack' = <<>> /\ disk'.workspaces = archive.workspaces
         /\ disk'.sessions = disk.sessions /\ disk'.projects = disk.projects
  <2>1. unpack \in {Rest2, Rest1, Directories}
    BY <1>1 DEF BackupInv, BackupShape, Turns
  <2>2. CASE unpack = Directories
    BY <2>2, <1>1, <1>2, TurnsGoOn
  <2>3. CASE unpack = Rest1
    <3>1. Unpacked("projects") = archive.projects
      BY DEF Unpacked
    <3> QED
      BY <2>3, <3>1, <1>1, <1>2, TurnsGoOn
  <2>4. CASE unpack = Rest2
    <3>1. Unpacked("workspaces") = archive.workspaces
      BY DEF Unpacked
    <3> QED
      BY <2>4, <3>1, <1>1, <1>2, TurnsGoOn
  <2> QED
    BY <2>1, <2>2, <2>3, <2>4
<1>4. disk' = [workspaces |-> disk'.workspaces, projects |-> disk'.projects,
         sessions |-> disk'.sessions]
  <2>1. Head(unpack) \in {"workspaces", "projects", "sessions"}
    BY <1>3, TurnsGoOn
  <2> QED
    BY <1>2, <2>1
<1>5. BackupShape'
  BY <1>1, <1>3, <1>4 DEF BackupInv, BackupShape, Turns
<1>6. UntilRestored'
  BY <1>1 DEF BackupInv, UntilRestored
<1>7. WalkIsOfOnePiece'
  BY <1>1, <1>0 DEF BackupInv, WalkIsOfOnePiece, IsSound
<1>8. RestoredSoFar'
  <2> SUFFICES ASSUME ~inPieces, ~changed, ~halted PROVE RestoredSoFar'
    BY <1>1 DEF RestoredSoFar
  <2>1. IsSound(archive)
    BY <1>1 DEF BackupInv, WalkIsOfOnePiece
  <2>2. CASE unpack = Directories
    <3>1. archive # NoData /\ Within(disk.sessions, archive.sessions)
      BY <1>1, <2>2 DEF BackupInv, RestoredSoFar
    <3>2. Within(disk'.sessions, archive.sessions) /\ Within(archive.sessions, disk'.sessions)
      BY <1>0, <1>3, <2>2, <3>1 DEF Within, Unpacked
    <3>3. Within(disk.sessions, archive.sessions)' /\ Within(archive.sessions, disk.sessions)'
      BY <1>1, <3>2 DEF Within
    <3> QED
      BY <1>0, <1>1, <1>3, <2>2, <3>1, <3>3 DEF RestoredSoFar
  <2>3. CASE unpack = Rest1
    <3>1. Within(disk.sessions, archive.sessions) /\ Within(archive.sessions, disk.sessions)
      BY <1>1, <2>3 DEF BackupInv, RestoredSoFar
    <3>2. Within(disk.sessions, archive.sessions)' /\ Within(archive.sessions, disk.sessions)'
      BY <1>0, <1>1, <1>3, <2>3, <3>1 DEF Within
    <3> QED
      BY <1>0, <1>1, <1>3, <2>3, <3>2 DEF RestoredSoFar
  <2>4. CASE unpack = Rest2
    <3>1. /\ Within(disk.sessions, archive.sessions) /\ Within(archive.sessions, disk.sessions)
          /\ disk.projects = archive.projects
      BY <1>1, <2>4 DEF BackupInv, RestoredSoFar
    <3>2. Within(disk.sessions, archive.sessions)'
      BY <1>0, <1>1, <1>3, <2>4, <3>1 DEF Within
    <3>3. IsSound(disk)'
      BY <1>0, <1>3, <2>1, <2>4, <3>1 DEF IsSound, Within
    <3> QED
      BY <1>0, <1>1, <1>3, <2>4, <3>2, <3>3 DEF RestoredSoFar
  <2> QED
    BY <1>3, <2>2, <2>3, <2>4
<1> QED
  BY <1>1, <1>5, <1>6, <1>7, <1>8 DEF BackupInv

LEMMA HaltRestoreKeeps == ASSUME BackupInv, HaltRestore PROVE BackupInv'
<1>1. /\ service = "up" /\ unpack # <<>> /\ unpack' = <<>> /\ halted' = TRUE
      /\ UNCHANGED <<disk, kept, archive, walk, inPieces, changed, service, writes, restores>>
  BY DEF HaltRestore
<1>2. BackupShape'
  BY <1>1 DEF BackupInv, BackupShape, Turns
<1> QED
  BY <1>1, <1>2 DEF BackupInv, UntilRestored, WalkIsOfOnePiece, RestoredSoFar, IsSound, OwnedBy,
      PlacedIn

LEMMA StopKeeps == ASSUME BackupInv, StopService PROVE BackupInv'
<1>0. Directories # <<>> /\ Rest1 # <<>> /\ Rest2 # <<>>
  BY DEF Directories, Rest1, Rest2
<1>1. /\ service = "up" /\ service' = "down" /\ walk' = <<>> /\ unpack' = <<>>
      /\ halted' = (halted \/ unpack # <<>>)
      /\ archive' = IF walk # <<>> THEN NoData ELSE archive
      /\ UNCHANGED <<disk, kept, inPieces, changed, writes, restores>>
  BY DEF StopService
<1>2. BackupShape'
  <2>1. archive' = [workspaces |-> archive'.workspaces, projects |-> archive'.projects,
           sessions |-> archive'.sessions]
    BY <1>1 DEF BackupInv, BackupShape, NoData
  <2> QED
    BY <1>1, <2>1 DEF BackupInv, BackupShape, Turns
<1>3. UntilRestored'
  BY <1>1 DEF BackupInv, UntilRestored, IsSound
<1>4. WalkIsOfOnePiece'
  <2>1. ~inPieces' => IsSound(archive)'
    BY <1>1, NoDataIsSound DEF BackupInv, WalkIsOfOnePiece, IsSound
  <2> QED
    BY <1>0, <1>1, <2>1 DEF WalkIsOfOnePiece
<1>5. RestoredSoFar'
  <2> SUFFICES ASSUME ~inPieces, ~changed, ~halted, unpack = <<>> PROVE RestoredSoFar'
    BY <1>1 DEF RestoredSoFar
  <2>1. IsSound(disk)'
    BY <1>1 DEF BackupInv, RestoredSoFar, IsSound
  <2>2. archive' # NoData => Within(disk.sessions, archive.sessions)'
    BY <1>1 DEF BackupInv, RestoredSoFar, Within
  <2> QED
    BY <1>0, <1>1, <2>1, <2>2 DEF RestoredSoFar
<1> QED
  BY <1>1, <1>2, <1>3, <1>4, <1>5 DEF BackupInv

LEMMA EmptyDirectoryKeeps == ASSUME BackupInv, EmptyDirectory PROVE BackupInv'
<1>0. Directories # <<>> /\ Rest1 # <<>> /\ Rest2 # <<>>
  BY DEF Directories, Rest1, Rest2
<1>1. /\ service = "down" /\ walk = <<>> /\ unpack = <<>>
      /\ disk' = [NoData EXCEPT !.workspaces = {First}] /\ halted' = FALSE /\ changed' = FALSE
      /\ UNCHANGED <<kept, archive, walk, unpack, inPieces, service, writes, restores>>
  BY DEF EmptyDirectory, BackupInv, BackupShape
<1>2. IsSound(disk)' /\ disk'.sessions = <<>>
  BY <1>1, NoDataIsSound DEF IsSound
<1>3. BackupShape'
  <2>1. disk' = [workspaces |-> disk'.workspaces, projects |-> disk'.projects,
           sessions |-> disk'.sessions]
    BY <1>1 DEF NoData
  <2> QED
    BY <1>1, <2>1 DEF BackupInv, BackupShape
<1>4. UntilRestored'
  BY <1>1, <1>2 DEF BackupInv, UntilRestored
<1>5. WalkIsOfOnePiece'
  BY <1>0, <1>1 DEF BackupInv, WalkIsOfOnePiece, IsSound
<1>6. RestoredSoFar'
  <2>1. Within(disk.sessions, archive.sessions)'
    BY <1>2 DEF Within
  <2> QED
    BY <1>0, <1>1, <1>2, <2>1 DEF RestoredSoFar
<1> QED
  BY <1>1, <1>3, <1>4, <1>5, <1>6 DEF BackupInv

LEMMA StartKeeps == ASSUME BackupInv, StartBackend PROVE BackupInv'
<1>1. /\ service = "down" /\ service' = IF IsSound(disk) THEN "up" ELSE "refused"
      /\ kept' = [workspaces |-> disk.workspaces, projects |-> disk.projects]
      /\ UNCHANGED <<disk, archive, walk, unpack, halted, inPieces, changed, writes, restores>>
  BY DEF StartBackend
<1>2. BackupShape'
  BY <1>1 DEF BackupInv, BackupShape
<1>3. UntilRestored'
  BY <1>1 DEF BackupInv, UntilRestored, InStep, IsSound
<1>4. WalkIsOfOnePiece' /\ RestoredSoFar'
  BY <1>1 DEF BackupInv, WalkIsOfOnePiece, RestoredSoFar, IsSound, OwnedBy, PlacedIn, Within
<1>5. service' = "refused" => ~IsSound(disk)'
  BY <1>1 DEF IsSound
<1> QED
  BY <1>2, <1>3, <1>4, <1>5 DEF BackupInv

LEMMA BackupInvKept == BackupInv /\ [BackupNext]_backupVars => BackupInv'
<1> SUFFICES ASSUME BackupInv, [BackupNext]_backupVars PROVE BackupInv'
  OBVIOUS
<1>1. CASE UNCHANGED backupVars
  BY <1>1 DEF backupVars, BackupInv, BackupShape, UntilRestored, WalkIsOfOnePiece, RestoredSoFar,
              InStep, IsSound, OwnedBy, PlacedIn, Within
<1>2. BackupNext => \/ Additions \/ Removals \/ BeginBackup \/ Copy \/ BeginRestore \/ Unpack
                    \/ HaltRestore \/ StopService \/ EmptyDirectory \/ StartBackend
  BY DEF BackupNext, Additions, Removals
<1> QED
  BY <1>1, <1>2, ChangesKeep, BeginBackupKeeps, CopyKeeps, BeginRestoreKeeps, UnpackKeeps,
     HaltRestoreKeeps, StopKeeps, EmptyDirectoryKeeps, StartKeeps

LEMMA BackupInvHolds == BackupInv => RestoredStarts
BY DEF BackupInv, BackupShape, RestoredSoFar, RestoredStarts

-----------------------------------------------------------------------------
(* Quota: for any credits, redeemers and faults, one refresh is at work,   *)
(* and what a redeemer is told is what the provider did.                   *)

QuotaRecords == [known : BOOLEAN, resets : Nat, credits : SUBSET CreditIds]
QuotaStages == {"rest", "pick", "consume", "lock", "ask", "windows", "details"}
QuotaOutcomes == {"none", "error", "reset", "nothing_to_reset", "no_credit", "already_redeemed"}

QuotaWorks == [at : QuotaStages, asked : Nat, credit : Nat, outcome : QuotaOutcomes,
               resets : Nat, seen : QuotaRecords, fresh : BOOLEAN]

QuotaShape ==
    /\ upstream \in [credits : SUBSET CreditIds, resets : Nat, served : [Redeemers -> SUBSET Nat]]
    /\ snapshot \in QuotaRecords /\ signedIn \in BOOLEAN
    /\ quotaWork \in [Actors -> QuotaWorks]

\* One refresh at a time.
OneRefresh ==
    \A a \in Actors : quotaWork[a].at \in {"ask", "windows", "details"} => refresher = a

\* A key that is served is known as such, and what is sent again names the
\* same credit.
KeysServe ==
    \A a \in Redeemers :
        LET w == quotaWork[a]  s == upstream.served[a] IN
        /\ s = {} \/ \E c \in Nat : s = {c}
        /\ w.asked # 0 => s \subseteq {w.asked}
        /\ w.at \in {"pick", "consume"} => w.outcome = "none"
              /\ (w.asked # 0 => w.credit = w.asked)
        /\ w.at \in {"lock", "ask", "windows", "details"} => w.outcome = "reset"
        /\ w.at = "rest" /\ w.outcome = "none" => s = {}
        /\ w.outcome \in {"reset", "already_redeemed"} => s # {}
        /\ w.outcome \in {"no_credit", "nothing_to_reset"} => s = {}

\* What a reset is told of is in the upstream, and then in what is read and
\* stored after it.
ResetsAreSeen ==
    /\ \A b \in Actors : quotaWork[b].at \in {"windows", "details"} =>
          quotaWork[b].seen.resets <= upstream.resets
    /\ \A a \in Redeemers :
          LET w == quotaWork[a] IN
          /\ w.at # "rest" => ~w.fresh
          /\ w.outcome = "reset" => w.resets <= upstream.resets
          /\ w.at \in {"windows", "details"} => w.resets <= w.seen.resets
          /\ w.at = "details" /\ snapshot.known => w.resets <= snapshot.resets
          /\ w.at = "rest" /\ w.outcome = "reset" /\ w.fresh =>
                /\ snapshot.known => w.resets <= snapshot.resets
                /\ \A b \in Actors : quotaWork[b].at = "windows" =>
                      w.resets <= quotaWork[b].seen.resets

QuotaInv == QuotaShape /\ OneRefresh /\ KeysServe /\ ResetsAreSeen

LEMMA EarliestIsNat == ASSUME NEW C \in SUBSET CreditIds PROVE Earliest(C) \in Nat
<1>1. CASE C = {}
  BY <1>1 DEF Earliest
<1>2. CASE C # {}
  <2>1. CreditIds \in SUBSET Nat /\ IsFiniteSet(CreditIds)
    BY FS_Interval, QuotaAssumption DEF CreditIds
  <2>2. IsFiniteSet(C) /\ C \in SUBSET Nat
    BY <2>1, FS_Subset
  <2>3. PICK n \in C : \A m \in C : n <= m
    BY <1>2, <2>2, LeastOf
  <2>4. Earliest(C) \in C
    BY <1>2, <2>3 DEF Earliest
  <2> QED
    BY <2>2, <2>4
<1> QED
  BY <1>1, <1>2

LEMMA QuotaInvStarts == QuotaInit => QuotaInv
<1> SUFFICES ASSUME QuotaInit PROVE QuotaInv
  OBVIOUS
<1>1. QuotaShape
  BY QuotaAssumption DEF QuotaInit, QuotaShape, QuotaWorks, QuotaRecords, QuotaStages,
      QuotaOutcomes, AtRest, NoQuota, CreditIds
<1>2. \A a \in Actors : quotaWork[a] = AtRest
  BY DEF QuotaInit
<1>3. \A a \in Redeemers : a \in Actors /\ upstream.served[a] = {}
  BY DEF QuotaInit, Actors
<1>4. OneRefresh /\ ResetsAreSeen
  BY <1>2, <1>3 DEF OneRefresh, ResetsAreSeen, AtRest
<1>5. KeysServe
  BY <1>2, <1>3 DEF KeysServe, AtRest
<1> QED
  BY <1>1, <1>4, <1>5 DEF QuotaInv

\* A step of one actor, and what it may leave of the rest.
LEMMA OthersRest ==
    ASSUME QuotaInv, NEW a \in Actors, NEW w, Becomes(a, w)
    PROVE  /\ \A b \in Actors : b # a => quotaWork'[b] = quotaWork[b]
           /\ quotaWork'[a] = w
           /\ DOMAIN quotaWork' = Actors
           /\ quotaWork' = [b \in Actors |-> quotaWork'[b]]
BY DEF QuotaInv, QuotaShape, Becomes

LEMMA QuotaShapeKept ==
    ASSUME QuotaInv, NEW a \in Actors, NEW w \in QuotaWorks, Becomes(a, w),
           snapshot' \in QuotaRecords, signedIn' \in BOOLEAN,
           upstream' \in [credits : SUBSET CreditIds, resets : Nat,
               served : [Redeemers -> SUBSET Nat]]
    PROVE  QuotaShape'
BY DEF QuotaInv, QuotaShape, Becomes, QuotaWorks

LEMMA WorkIsTyped ==
    ASSUME QuotaInv, NEW a \in Actors
    PROVE  /\ quotaWork[a] \in QuotaWorks
           /\ quotaWork[a].at \in QuotaStages /\ quotaWork[a].asked \in Nat
           /\ quotaWork[a].credit \in Nat /\ quotaWork[a].outcome \in QuotaOutcomes
           /\ quotaWork[a].resets \in Nat /\ quotaWork[a].seen \in QuotaRecords
           /\ quotaWork[a].seen.resets \in Nat /\ quotaWork[a].fresh \in BOOLEAN
<1>1. quotaWork[a] \in QuotaWorks
  BY DEF QuotaInv, QuotaShape
<1> QED
  BY <1>1 DEF QuotaWorks, QuotaRecords

\* A refresh begins: the timer asks for one, or its turn has come.
LEMMA TimerTicksKeeps == ASSUME QuotaInv, TimerTicks PROVE QuotaInv'
<1> DEFINE w == [AtRest EXCEPT !.at = "lock"]
<1>1. /\ quotaWork["timer"].at = "rest" /\ Becomes("timer", w) /\ "timer" \in Actors
      /\ UNCHANGED <<upstream, signedIn, snapshot, refresher, quotaFaults>>
  BY DEF TimerTicks, Actors
<1>2. w \in QuotaWorks /\ w.at = "lock"
  BY DEF AtRest, NoQuota, QuotaWorks, QuotaRecords, QuotaStages, QuotaOutcomes, CreditIds
<1> HIDE DEF w
<1>3. /\ \A b \in Actors : b # "timer" => quotaWork'[b] = quotaWork[b]
      /\ quotaWork'["timer"] = w
  BY <1>1, OthersRest
<1>4. QuotaShape'
  BY <1>1, <1>2, QuotaShapeKept DEF QuotaInv, QuotaShape
<1>5. \A a \in Redeemers : a \in Actors /\ a # "timer"
  BY QuotaAssumption DEF Actors
<1>6. OneRefresh'
  BY <1>1, <1>2, <1>3 DEF QuotaInv, OneRefresh
<1>7. KeysServe'
  BY <1>1, <1>3, <1>5 DEF QuotaInv, KeysServe
<1>8. ResetsAreSeen'
  BY <1>1, <1>2, <1>3, <1>5 DEF QuotaInv, ResetsAreSeen
<1> QED
  BY <1>4, <1>6, <1>7, <1>8 DEF QuotaInv

LEMMA LocksRefreshKeeps ==
    ASSUME QuotaInv, NEW a \in Actors, LocksRefresh(a) PROVE QuotaInv'
<1> DEFINE w == [quotaWork[a] EXCEPT !.at = "ask"]
<1>1. /\ quotaWork[a].at = "lock" /\ refresher = "none" /\ refresher' = a /\ Becomes(a, w)
      /\ UNCHANGED <<upstream, signedIn, snapshot, quotaFaults>>
  BY DEF LocksRefresh
<1>2. /\ w \in QuotaWorks /\ w.at = "ask" /\ w.asked = quotaWork[a].asked
      /\ w.credit = quotaWork[a].credit /\ w.outcome = quotaWork[a].outcome
      /\ w.resets = quotaWork[a].resets /\ w.seen = quotaWork[a].seen
      /\ w.fresh = quotaWork[a].fresh
  BY WorkIsTyped DEF QuotaWorks, QuotaStages
<1> HIDE DEF w
<1>3. /\ \A b \in Actors : b # a => quotaWork'[b] = quotaWork[b]
      /\ quotaWork'[a] = w
  BY <1>1, OthersRest
<1>4. QuotaShape'
  BY <1>1, <1>2, QuotaShapeKept DEF QuotaInv, QuotaShape
<1>5. \A b \in Redeemers : b \in Actors
  BY DEF Actors
<1>6. OneRefresh'
  <2>1. \A b \in Actors : b # "none"
    BY QuotaAssumption DEF Actors
  <2>2. \A b \in Actors : quotaWork[b].at \notin {"ask", "windows", "details"}
    BY <1>1, <2>1 DEF QuotaInv, OneRefresh
  <2> QED
    BY <1>1, <1>2, <1>3, <2>2 DEF OneRefresh
<1>7. KeysServe'
  BY <1>1, <1>2, <1>3, <1>5 DEF QuotaInv, KeysServe
<1>8. ResetsAreSeen'
  BY <1>1, <1>2, <1>3, <1>5 DEF QuotaInv, ResetsAreSeen
<1> QED
  BY <1>4, <1>6, <1>7, <1>8 DEF QuotaInv

\* A refresh ends, with a snapshot as it was, dropped, or with other credits.
LEMMA RefreshEndsKeeps ==
    ASSUME QuotaInv, NEW a \in Actors, NEW ok \in BOOLEAN, RefreshEnds(a, ok),
           quotaWork[a].at \in {"ask", "details"}, ok => quotaWork[a].at = "details",
           refresher' = "none", UNCHANGED <<upstream, signedIn>>,
           snapshot' \in QuotaRecords,
           snapshot'.known => snapshot.known /\ snapshot'.resets = snapshot.resets
    PROVE  QuotaInv'
<1> DEFINE w == IF a = "timer" THEN AtRest ELSE [quotaWork[a] EXCEPT !.at = "rest", !.fresh = ok]
<1>1. Becomes(a, w)
  BY DEF RefreshEnds
<1>2. AtRest \in QuotaWorks /\ AtRest.at = "rest"
  BY DEF AtRest, NoQuota, QuotaWorks, QuotaRecords, QuotaStages, QuotaOutcomes, CreditIds
<1>3. /\ w \in QuotaWorks /\ w.at = "rest"
      /\ a # "timer" => /\ w.asked = quotaWork[a].asked /\ w.credit = quotaWork[a].credit
                        /\ w.outcome = quotaWork[a].outcome /\ w.resets = quotaWork[a].resets
                        /\ w.fresh = ok
  <2>1. CASE a = "timer"
    BY <1>2, <2>1
  <2>2. CASE a # "timer"
    BY <2>2, WorkIsTyped DEF QuotaWorks, QuotaStages
  <2> QED
    BY <2>1, <2>2
<1> HIDE DEF w
<1>4. /\ \A b \in Actors : b # a => quotaWork'[b] = quotaWork[b]
      /\ quotaWork'[a] = w
  BY <1>1, OthersRest
<1>5. QuotaShape'
  BY <1>1, <1>3, QuotaShapeKept DEF QuotaInv, QuotaShape
<1>6. \A b \in Redeemers : b \in Actors /\ b # "timer"
  BY QuotaAssumption DEF Actors
<1>7. \A b \in Actors : b # a => quotaWork[b].at \notin {"ask", "windows", "details"}
  BY DEF QuotaInv, OneRefresh
<1>8. OneRefresh'
  BY <1>3, <1>4, <1>7 DEF OneRefresh
<1>9. KeysServe'
  BY <1>3, <1>4, <1>6 DEF QuotaInv, KeysServe
<1>10. ResetsAreSeen'
  <2>1. \A b \in Actors : quotaWork'[b].at \notin {"windows", "details"}
    BY <1>3, <1>4, <1>7
  <2>2. ASSUME NEW b \in Redeemers
        PROVE  /\ quotaWork'[b].at # "rest" => ~quotaWork'[b].fresh
               /\ quotaWork'[b].outcome = "reset" => quotaWork'[b].resets <= upstream'.resets
               /\ quotaWork'[b].at = "rest" /\ quotaWork'[b].outcome = "reset"
                     /\ quotaWork'[b].fresh /\ snapshot'.known =>
                     quotaWork'[b].resets <= snapshot'.resets
    <3>1. CASE b = a
      BY <1>3, <1>4, <1>6, <3>1 DEF QuotaInv, ResetsAreSeen
    <3>2. CASE b # a
      BY <1>4, <1>6, <3>2 DEF QuotaInv, ResetsAreSeen
    <3> QED
      BY <3>1, <3>2
  <2> QED
    BY <1>6, <2>1, <2>2 DEF ResetsAreSeen
<1> QED
  BY <1>5, <1>8, <1>9, <1>10 DEF QuotaInv

LEMMA NoQuotaIsTyped == NoQuota \in QuotaRecords /\ ~NoQuota.known
BY DEF NoQuota, QuotaRecords, CreditIds

LEMMA ReadsUsageKeeps ==
    ASSUME QuotaInv, NEW a \in Actors, ReadsUsage(a) PROVE QuotaInv'
<1> DEFINE seen == [known |-> TRUE, resets |-> upstream.resets, credits |-> upstream.credits]
           w == [quotaWork[a] EXCEPT !.at = "windows", !.seen = seen]
<1>0. quotaWork[a].at = "ask" /\ UNCHANGED <<upstream, signedIn>>
  BY DEF ReadsUsage
<1>1. CASE Becomes(a, w) /\ UNCHANGED <<snapshot, refresher>>
  <2>1. seen \in QuotaRecords /\ seen.resets = upstream.resets /\ upstream.resets \in Nat
    BY DEF QuotaInv, QuotaShape, QuotaRecords
  <2> HIDE DEF seen
  <2>2. /\ w \in QuotaWorks /\ w.at = "windows" /\ w.asked = quotaWork[a].asked
        /\ w.credit = quotaWork[a].credit /\ w.outcome = quotaWork[a].outcome
        /\ w.resets = quotaWork[a].resets /\ w.seen = seen /\ w.fresh = quotaWork[a].fresh
    BY <2>1, WorkIsTyped DEF QuotaWorks, QuotaStages
  <2> HIDE DEF w
  <2>3. /\ \A b \in Actors : b # a => quotaWork'[b] = quotaWork[b]
        /\ quotaWork'[a] = w
    BY <1>1, OthersRest
  <2>4. QuotaShape'
    BY <1>0, <1>1, <2>2, QuotaShapeKept DEF QuotaInv, QuotaShape
  <2>5. \A b \in Redeemers : b \in Actors
    BY DEF Actors
  <2>6. OneRefresh'
    BY <1>0, <1>1, <2>2, <2>3 DEF QuotaInv, OneRefresh
  <2>7. KeysServe'
    BY <1>0, <1>1, <2>2, <2>3, <2>5 DEF QuotaInv, KeysServe
  <2>8. ResetsAreSeen'
    BY <1>0, <1>1, <2>1, <2>2, <2>3, <2>5 DEF QuotaInv, KeysServe, ResetsAreSeen
  <2> QED
    BY <2>4, <2>6, <2>7, <2>8 DEF QuotaInv
<1>2. CASE Unread /\ refresher' = "none" /\ RefreshEnds(a, FALSE)
  <2>1. snapshot' \in QuotaRecords
           /\ (snapshot'.known => snapshot.known /\ snapshot'.resets = snapshot.resets)
    BY <1>2, NoQuotaIsTyped DEF Unread, QuotaInv, QuotaShape
  <2> QED
    BY <1>0, <1>2, <2>1, RefreshEndsKeeps
<1> QED
  BY <1>1, <1>2 DEF ReadsUsage

LEMMA StoresWindowsKeeps ==
    ASSUME QuotaInv, NEW a \in Actors, StoresWindows(a) PROVE QuotaInv'
<1> DEFINE w == [quotaWork[a] EXCEPT !.at = "details"]
<1>1. /\ quotaWork[a].at = "windows" /\ Becomes(a, w)
      /\ snapshot' = [snapshot EXCEPT !.known = TRUE, !.resets = quotaWork[a].seen.resets]
      /\ UNCHANGED <<upstream, signedIn, refresher, quotaFaults>>
  BY DEF StoresWindows
<1>2. /\ w \in QuotaWorks /\ w.at = "details" /\ w.asked = quotaWork[a].asked
      /\ w.credit = quotaWork[a].credit /\ w.outcome = quotaWork[a].outcome
      /\ w.resets = quotaWork[a].resets /\ w.seen = quotaWork[a].seen
      /\ w.fresh = quotaWork[a].fresh
  BY WorkIsTyped DEF QuotaWorks, QuotaStages
<1>3. snapshot' \in QuotaRecords /\ snapshot'.resets = quotaWork[a].seen.resets
  BY <1>1, WorkIsTyped DEF QuotaInv, QuotaShape, QuotaRecords
<1> HIDE DEF w
<1>4. /\ \A b \in Actors : b # a => quotaWork'[b] = quotaWork[b]
      /\ quotaWork'[a] = w
  BY <1>1, OthersRest
<1>5. QuotaShape'
  BY <1>1, <1>2, <1>3, QuotaShapeKept DEF QuotaInv, QuotaShape
<1>6. \A b \in Redeemers : b \in Actors
  BY DEF Actors
<1>7. \A b \in Actors : b # a => quotaWork[b].at \notin {"ask", "windows", "details"}
  BY <1>1 DEF QuotaInv, OneRefresh
<1>8. OneRefresh'
  BY <1>1, <1>2, <1>4 DEF QuotaInv, OneRefresh
<1>9. KeysServe'
  BY <1>1, <1>2, <1>4, <1>6 DEF QuotaInv, KeysServe
<1>10. ResetsAreSeen'
  BY <1>1, <1>2, <1>3, <1>4, <1>6, <1>7 DEF QuotaInv, ResetsAreSeen
<1> QED
  BY <1>5, <1>8, <1>9, <1>10 DEF QuotaInv

LEMMA StoresCreditsKeeps ==
    ASSUME QuotaInv, NEW a \in Actors, StoresCredits(a) PROVE QuotaInv'
<1>1. /\ quotaWork[a].at = "details" /\ refresher' = "none" /\ RefreshEnds(a, TRUE)
      /\ UNCHANGED <<upstream, signedIn>>
  BY DEF StoresCredits
<1>2. \E before \in {snapshot, NoQuota}, C \in {{}, upstream.credits, quotaWork[a].seen.credits} :
          snapshot' = [before EXCEPT !.credits = C]
  BY DEF StoresCredits
<1>3. PICK before \in {snapshot, NoQuota},
         C \in {{}, upstream.credits, quotaWork[a].seen.credits} :
          snapshot' = [before EXCEPT !.credits = C]
  BY <1>2
<1>4. before \in QuotaRecords /\ C \in SUBSET CreditIds
  BY NoQuotaIsTyped, WorkIsTyped DEF QuotaInv, QuotaShape, QuotaRecords
<1>5. snapshot' \in QuotaRecords /\ snapshot'.known = before.known
         /\ snapshot'.resets = before.resets
  BY <1>3, <1>4 DEF QuotaRecords
<1>6. snapshot'.known => snapshot.known /\ snapshot'.resets = snapshot.resets
  BY <1>5, NoQuotaIsTyped
<1> QED
  BY <1>1, <1>5, <1>6, RefreshEndsKeeps

LEMMA RedeemsKeeps ==
    ASSUME QuotaInv, NEW a \in Redeemers, Redeems(a) PROVE QuotaInv'
<1>0. a \in Actors /\ \A b \in Redeemers : b \in Actors
  BY DEF Actors
<1>1. /\ quotaWork[a].at = "rest" /\ quotaWork[a].outcome \in {"none", "error"}
      /\ UNCHANGED <<upstream, signedIn, snapshot, refresher, quotaFaults>>
  BY DEF Redeems
<1>2. PICK c \in IF quotaWork[a].outcome = "none" THEN snapshot.credits \union {0}
                 ELSE {quotaWork[a].asked} :
             Becomes(a, [AtRest EXCEPT !.at = "pick", !.asked = c, !.credit = c])
  BY DEF Redeems
<1>3. c \in Nat
  <2>1. snapshot.credits \subseteq CreditIds
    BY DEF QuotaInv, QuotaShape, QuotaRecords
  <2> QED
    BY <1>0, <2>1, WorkIsTyped, QuotaAssumption DEF CreditIds
<1> DEFINE w == [AtRest EXCEPT !.at = "pick", !.asked = c, !.credit = c]
<1>4. /\ w \in QuotaWorks /\ w.at = "pick" /\ w.asked = c /\ w.credit = c /\ w.outcome = "none"
      /\ w.fresh = FALSE
  BY <1>3 DEF AtRest, NoQuota, QuotaWorks, QuotaRecords, QuotaStages, QuotaOutcomes, CreditIds
<1> HIDE DEF w
<1>5. /\ \A b \in Actors : b # a => quotaWork'[b] = quotaWork[b]
      /\ quotaWork'[a] = w
  BY <1>0, <1>2, OthersRest DEF w
<1>6. QuotaShape'
  BY <1>0, <1>1, <1>2, <1>4, QuotaShapeKept DEF QuotaInv, QuotaShape, w
<1>7. OneRefresh'
  BY <1>1, <1>4, <1>5 DEF QuotaInv, OneRefresh
<1>8. upstream.served[a] \subseteq {c} \/ c = 0
  <2>1. CASE quotaWork[a].outcome = "none"
    BY <1>1, <2>1 DEF QuotaInv, KeysServe
  <2>2. CASE quotaWork[a].outcome = "error"
    BY <1>2, <2>2 DEF QuotaInv, KeysServe
  <2> QED
    BY <1>1, <2>1, <2>2
<1>9. KeysServe'
  BY <1>0, <1>1, <1>4, <1>5, <1>8 DEF QuotaInv, KeysServe
<1>10. ResetsAreSeen'
  BY <1>0, <1>1, <1>4, <1>5 DEF QuotaInv, ResetsAreSeen
<1> QED
  BY <1>6, <1>7, <1>9, <1>10 DEF QuotaInv

\* What Unread leaves of the snapshot.
LEMMA UnreadLeaves ==
    ASSUME QuotaInv, Unread \/ UNCHANGED snapshot
    PROVE  snapshot' \in QuotaRecords /\ (snapshot'.known => snapshot' = snapshot)
BY NoQuotaIsTyped DEF Unread, QuotaInv, QuotaShape

LEMMA PicksKeeps ==
    ASSUME QuotaInv, NEW a \in Redeemers, Picks(a) PROVE QuotaInv'
<1>0. a \in Actors /\ \A b \in Redeemers : b \in Actors
  BY DEF Actors
<1> DEFINE pick == IF quotaWork[a].credit = 0 THEN Earliest(upstream.credits)
                   ELSE quotaWork[a].credit
<1>1. /\ quotaWork[a].at = "pick" /\ UNCHANGED <<upstream, signedIn, refresher>>
      /\ Unread \/ UNCHANGED snapshot
  BY DEF Picks
<1>2. PICK c \in Nat : /\ Becomes(a, [quotaWork[a] EXCEPT !.at = "consume", !.credit = c])
                       /\ quotaWork[a].asked # 0 => c = quotaWork[a].credit
  <2>1. CASE Becomes(a, [quotaWork[a] EXCEPT !.at = "consume",
                           !.credit = IF @ = 0 THEN Earliest(upstream.credits) ELSE @])
    <3>1. pick \in Nat
      BY <1>0, EarliestIsNat, WorkIsTyped DEF QuotaInv, QuotaShape
    <3>2. quotaWork[a].asked # 0 => quotaWork[a].credit = quotaWork[a].asked
      BY <1>1 DEF QuotaInv, KeysServe
    <3>3. quotaWork[a].asked # 0 => pick = quotaWork[a].credit
      BY <3>2
    <3>4. [quotaWork[a] EXCEPT !.at = "consume",
             !.credit = IF @ = 0 THEN Earliest(upstream.credits) ELSE @]
             = [quotaWork[a] EXCEPT !.at = "consume", !.credit = pick]
      BY <1>0, WorkIsTyped DEF QuotaWorks
    <3> HIDE DEF pick
    <3> QED
      BY <2>1, <3>1, <3>3, <3>4
  <2>2. CASE Becomes(a, [quotaWork[a] EXCEPT !.at = "consume"])
    <3>1. [quotaWork[a] EXCEPT !.at = "consume"]
             = [quotaWork[a] EXCEPT !.at = "consume", !.credit = quotaWork[a].credit]
      BY <1>0, WorkIsTyped DEF QuotaWorks
    <3>2. quotaWork[a].credit \in Nat
      BY <1>0, WorkIsTyped
    <3> QED
      BY <2>2, <3>1, <3>2
  <2> QED
    BY <2>1, <2>2 DEF Picks
<1> DEFINE w == [quotaWork[a] EXCEPT !.at = "consume", !.credit = c]
<1>3. /\ w \in QuotaWorks /\ w.at = "consume" /\ w.asked = quotaWork[a].asked
      /\ w.credit = c /\ w.outcome = quotaWork[a].outcome
      /\ w.resets = quotaWork[a].resets /\ w.seen = quotaWork[a].seen
      /\ w.fresh = quotaWork[a].fresh
  BY <1>0, WorkIsTyped DEF QuotaWorks, QuotaStages
<1>4. Becomes(a, w) /\ (quotaWork[a].asked # 0 => c = quotaWork[a].credit)
  BY <1>2
<1> HIDE DEF w
<1>5. /\ \A b \in Actors : b # a => quotaWork'[b] = quotaWork[b]
      /\ quotaWork'[a] = w
  BY <1>0, <1>4, OthersRest
<1>6. snapshot' \in QuotaRecords /\ (snapshot'.known => snapshot' = snapshot)
  BY <1>1, UnreadLeaves
<1>7. QuotaShape'
  BY <1>0, <1>1, <1>3, <1>4, <1>6, QuotaShapeKept DEF QuotaInv, QuotaShape
<1>8. OneRefresh'
  BY <1>1, <1>3, <1>5 DEF QuotaInv, OneRefresh
<1>9. KeysServe'
  BY <1>0, <1>1, <1>3, <1>4, <1>5 DEF QuotaInv, KeysServe
<1>10. ResetsAreSeen'
  BY <1>0, <1>1, <1>3, <1>5, <1>6 DEF QuotaInv, ResetsAreSeen
<1> QED
  BY <1>7, <1>8, <1>9, <1>10 DEF QuotaInv

\* The account has heard of the redemption or not; its answer, or none, comes.
LEMMA ConsumesKeeps ==
    ASSUME QuotaInv, NEW a \in Redeemers, Consumes(a) PROVE QuotaInv'
<1>0. a \in Actors /\ a # "timer" /\ \A b \in Redeemers : b \in Actors
  BY QuotaAssumption DEF Actors
<1>1. /\ quotaWork[a].at = "consume" /\ UNCHANGED <<signedIn, refresher>>
      /\ Unread \/ UNCHANGED snapshot
  BY DEF Consumes
<1> DEFINE c == IF quotaWork[a].credit = 0 THEN Earliest(upstream.credits)
                ELSE quotaWork[a].credit
           s == upstream.served[a]
           served(said) == IF said[1] # "reset" THEN upstream
                           ELSE [upstream EXCEPT !.credits = @ \ {said[2]}, !.resets = @ + 1,
                                                !.served[a] = @ \union {said[2]}]
<1>2. /\ quotaWork[a].outcome = "none" /\ (s = {} \/ \E d \in Nat : s = {d})
      /\ quotaWork[a].asked # 0 => s \subseteq {quotaWork[a].asked}
            /\ quotaWork[a].credit = quotaWork[a].asked
      /\ ~quotaWork[a].fresh
  BY <1>0, <1>1 DEF QuotaInv, KeysServe, ResetsAreSeen
<1>3. c \in Nat /\ (quotaWork[a].asked # 0 => c = quotaWork[a].asked)
  BY <1>0, <1>2, EarliestIsNat, WorkIsTyped DEF QuotaInv, QuotaShape
<1> HIDE DEF c
<1>4. /\ upstream.served[a]' \in SUBSET Nat /\ upstream'.resets \in Nat
            /\ upstream'.resets >= upstream.resets
      /\ upstream' \in [credits : SUBSET CreditIds, resets : Nat,
            served : [Redeemers -> SUBSET Nat]]
      /\ \A b \in Redeemers : b # a => upstream'.served[b] = upstream.served[b]
      /\ \/ upstream' = upstream
         \/ s = {} /\ upstream'.served[a] = {c}
  <2>1. CASE UNCHANGED upstream
    BY <2>1 DEF QuotaInv, QuotaShape
  <2>2. ASSUME NEW said \in AccountSays(a), upstream' = served(said), said[1] = "reset"
        PROVE  /\ upstream.served[a]' \in SUBSET Nat /\ upstream'.resets \in Nat
               /\ upstream'.resets >= upstream.resets
               /\ upstream' \in [credits : SUBSET CreditIds, resets : Nat,
                     served : [Redeemers -> SUBSET Nat]]
               /\ \A b \in Redeemers : b # a => upstream'.served[b] = upstream.served[b]
               /\ s = {} /\ upstream'.served[a] = {c}
    <3>1. said = <<"reset", c>> /\ s = {}
      BY <2>2 DEF AccountSays, AlreadyServed, c
    <3>2. upstream' = [upstream EXCEPT !.credits = @ \ {c}, !.resets = @ + 1,
             !.served[a] = @ \union {c}]
      BY <2>2, <3>1
    <3>3. upstream \in [credits : SUBSET CreditIds, resets : Nat,
             served : [Redeemers -> SUBSET Nat]]
      BY DEF QuotaInv, QuotaShape
    <3>4. upstream'.served = [upstream.served EXCEPT ![a] = @ \union {c}]
      BY <3>2, <3>3
    <3>5. /\ upstream'.credits = upstream.credits \ {c} /\ upstream'.resets = upstream.resets + 1
          /\ upstream' = [credits |-> upstream'.credits, resets |-> upstream'.resets,
                          served |-> upstream'.served]
      BY <3>2, <3>3
    <3>6. upstream'.served \in [Redeemers -> SUBSET Nat] /\ upstream'.served[a] = {c}
      BY <1>3, <3>1, <3>3, <3>4
    <3>7. \A b \in Redeemers : b # a => upstream'.served[b] = upstream.served[b]
      BY <3>3, <3>4
    <3>8. upstream' \in [credits : SUBSET CreditIds, resets : Nat,
             served : [Redeemers -> SUBSET Nat]]
      BY <3>3, <3>5, <3>6
    <3> QED
      BY <1>3, <3>1, <3>3, <3>5, <3>6, <3>7, <3>8
  <2>3. UNCHANGED upstream \/ \E said \in AccountSays(a) : upstream' = served(said)
           /\ said[1] = "reset"
    BY DEF Consumes
  <2> QED
    BY <2>1, <2>2, <2>3
<1>5. PICK w \in QuotaWorks :
          /\ Becomes(a, w) /\ w.asked = quotaWork[a].asked /\ w.fresh = quotaWork[a].fresh
          /\ w.credit = quotaWork[a].credit
          /\ \/ w.at = "rest" /\ w.outcome = "error"
             \/ w.at = "rest" /\ w.outcome = "already_redeemed" /\ s # {} /\ upstream' = upstream
             \/ w.at = "rest" /\ w.outcome \in {"no_credit", "nothing_to_reset"} /\ s = {}
                   /\ upstream' = upstream
             \/ /\ w.at = "lock" /\ w.outcome = "reset" /\ w.resets = upstream'.resets
                /\ upstream'.served[a] = {c}
  <2>1. CASE Becomes(a, [quotaWork[a] EXCEPT !.outcome = "error", !.at = "rest"])
    <3> DEFINE w == [quotaWork[a] EXCEPT !.outcome = "error", !.at = "rest"]
    <3>1. /\ w \in QuotaWorks /\ w.asked = quotaWork[a].asked /\ w.fresh = quotaWork[a].fresh
          /\ w.credit = quotaWork[a].credit /\ w.at = "rest" /\ w.outcome = "error"
      BY <1>0, WorkIsTyped DEF QuotaWorks, QuotaStages, QuotaOutcomes
    <3> QED
      BY <2>1, <3>1
  <2>2. ASSUME NEW said \in AccountSays(a), upstream' = served(said),
               Becomes(a, [quotaWork[a] EXCEPT !.outcome = said[1], !.resets = upstream'.resets,
                                    !.at = IF said[1] = "reset" THEN "lock" ELSE "rest"])
        PROVE  \E w \in QuotaWorks :
          /\ Becomes(a, w) /\ w.asked = quotaWork[a].asked /\ w.fresh = quotaWork[a].fresh
          /\ w.credit = quotaWork[a].credit
          /\ \/ w.at = "rest" /\ w.outcome = "error"
             \/ w.at = "rest" /\ w.outcome = "already_redeemed" /\ s # {} /\ upstream' = upstream
             \/ w.at = "rest" /\ w.outcome \in {"no_credit", "nothing_to_reset"} /\ s = {}
                   /\ upstream' = upstream
             \/ /\ w.at = "lock" /\ w.outcome = "reset" /\ w.resets = upstream'.resets
                /\ upstream'.served[a] = {c}
    <3> DEFINE w == [quotaWork[a] EXCEPT !.outcome = said[1], !.resets = upstream'.resets,
                                    !.at = IF said[1] = "reset" THEN "lock" ELSE "rest"]
    <3>1. /\ said[1] \in {"already_redeemed", "no_credit", "reset", "nothing_to_reset"}
          /\ said[1] = "already_redeemed" => s # {}
          /\ said[1] # "already_redeemed" => s = {}
          /\ said[1] = "reset" => said[2] = c
      BY <2>2 DEF AccountSays, AlreadyServed, c
    <3>2. said[1] \in QuotaOutcomes
             /\ (IF said[1] = "reset" THEN "lock" ELSE "rest") \in QuotaStages
      BY <3>1 DEF QuotaOutcomes, QuotaStages
    <3>3. /\ w \in QuotaWorks /\ w.asked = quotaWork[a].asked /\ w.fresh = quotaWork[a].fresh
          /\ w.credit = quotaWork[a].credit /\ w.outcome = said[1] /\ w.resets = upstream'.resets
          /\ w.at = IF said[1] = "reset" THEN "lock" ELSE "rest"
      BY <1>0, <1>4, <3>2, WorkIsTyped DEF QuotaWorks
    <3>4. said[1] # "reset" => upstream' = upstream
      BY <2>2
    <3>5. said[1] = "reset" => upstream'.served[a] = {c}
      <4> SUFFICES ASSUME said[1] = "reset" PROVE upstream'.served[a] = {c}
        OBVIOUS
      <4>1. upstream' = [upstream EXCEPT !.credits = @ \ {c}, !.resets = @ + 1,
               !.served[a] = @ \union {c}]
        BY <2>2, <3>1
      <4> QED
        BY <3>1, <4>1 DEF QuotaInv, QuotaShape
    <3> HIDE DEF w
    <3> QED
      BY <2>2, <3>1, <3>3, <3>4, <3>5 DEF w
  <2> QED
    BY <2>1, <2>2 DEF Consumes
<1>6. /\ \A b \in Actors : b # a => quotaWork'[b] = quotaWork[b]
      /\ quotaWork'[a] = w
  BY <1>0, <1>5, OthersRest
<1>7. snapshot' \in QuotaRecords /\ (snapshot'.known => snapshot' = snapshot)
  BY <1>1, UnreadLeaves
<1>8. QuotaShape'
  <2>1. signedIn' \in BOOLEAN
    BY <1>1 DEF QuotaInv, QuotaShape
  <2> QED
    BY <1>0, <1>4, <1>5, <1>7, <2>1, QuotaShapeKept
<1>9. OneRefresh'
  BY <1>1, <1>5, <1>6 DEF QuotaInv, OneRefresh
<1>10. KeysServe'
  <2> SUFFICES ASSUME NEW b \in Redeemers
               PROVE  LET v == quotaWork'[b]  r == upstream'.served[b] IN
                      /\ r = {} \/ \E d \in Nat : r = {d}
                      /\ v.asked # 0 => r \subseteq {v.asked}
                      /\ v.at \in {"pick", "consume"} => v.outcome = "none"
                            /\ (v.asked # 0 => v.credit = v.asked)
                      /\ v.at \in {"lock", "ask", "windows", "details"} => v.outcome = "reset"
                      /\ v.at = "rest" /\ v.outcome = "none" => r = {}
                      /\ v.outcome \in {"reset", "already_redeemed"} => r # {}
                      /\ v.outcome \in {"no_credit", "nothing_to_reset"} => r = {}
    BY DEF KeysServe
  <2>1. CASE b = a
    BY <1>2, <1>3, <1>4, <1>5, <1>6, <1>0, <2>1
  <2>2. CASE b # a
    BY <1>0, <1>4, <1>6, <2>2 DEF QuotaInv, KeysServe
  <2> QED
    BY <2>1, <2>2
<1>11. ResetsAreSeen'
  <2>1. upstream.resets \in Nat
    BY DEF QuotaInv, QuotaShape
  <2>2. \A b \in Actors : quotaWork[b].resets \in Nat /\ quotaWork[b].seen.resets \in Nat
    BY WorkIsTyped
  <2> QED
    BY <1>0, <1>2, <1>4, <1>5, <1>6, <1>7, <2>1, <2>2 DEF QuotaInv, ResetsAreSeen
<1> QED
  BY <1>8, <1>9, <1>10, <1>11 DEF QuotaInv

LEMMA QuotaInvKept == QuotaInv /\ [QuotaNext]_quotaVars => QuotaInv'
<1> SUFFICES ASSUME QuotaInv, [QuotaNext]_quotaVars PROVE QuotaInv'
  OBVIOUS
<1>1. CASE UNCHANGED quotaVars
  BY <1>1 DEF quotaVars, QuotaInv, QuotaShape, OneRefresh, KeysServe, ResetsAreSeen
<1>2. CASE SignsOut
  <2>1. QuotaShape'
    BY <1>2 DEF SignsOut, QuotaInv, QuotaShape
  <2>2. OneRefresh' /\ KeysServe' /\ ResetsAreSeen'
    BY <1>2 DEF SignsOut, QuotaInv, OneRefresh, KeysServe, ResetsAreSeen
  <2> QED
    BY <2>1, <2>2 DEF QuotaInv
<1> QED
  BY <1>1, <1>2, TimerTicksKeeps, LocksRefreshKeeps, ReadsUsageKeeps, StoresWindowsKeeps,
     StoresCreditsKeeps, RedeemsKeeps, PicksKeeps, ConsumesKeeps DEF QuotaNext

LEMMA QuotaInvHolds == QuotaInv => QuotaHolds
<1> SUFFICES ASSUME QuotaInv, NEW a \in Redeemers
             PROVE  LET w == quotaWork[a] IN
                    /\ Cardinality(upstream.served[a]) <= 1
                    /\ w.asked # 0 => upstream.served[a] \subseteq {w.asked}
                    /\ w.outcome \in {"reset", "already_redeemed"} => upstream.served[a] # {}
                    /\ w.outcome \in {"no_credit", "nothing_to_reset"} => upstream.served[a] = {}
                    /\ w.at = "rest" /\ w.outcome = "reset" /\ w.fresh /\ snapshot.known =>
                          snapshot.resets >= w.resets
  BY DEF QuotaHolds
<1>1. a \in Actors
  BY DEF Actors
<1>2. Cardinality(upstream.served[a]) <= 1
  <2>1. CASE upstream.served[a] = {}
    BY <2>1, FS_EmptySet
  <2>2. ASSUME NEW d \in Nat, upstream.served[a] = {d} PROVE Cardinality(upstream.served[a]) <= 1
    <3>1. Cardinality({d}) = 1
      BY FS_Singleton
    <3> QED
      BY <2>2, <3>1
  <2> QED
    BY <2>1, <2>2 DEF QuotaInv, KeysServe
<1>3. quotaWork[a].resets \in Nat /\ snapshot.resets \in Nat
  BY <1>1, WorkIsTyped DEF QuotaInv, QuotaShape, QuotaRecords
<1> QED
  BY <1>2, <1>3 DEF QuotaInv, KeysServe, ResetsAreSeen

-----------------------------------------------------------------------------
(* SessionStore: the numbers of the entries ascend.                          *)

\* Of finitely many things there is one with the largest number.
LEMMA GreatestOf ==
    ASSUME NEW S, IsFiniteSet(S), S # {}, NEW f \in [S -> Nat]
    PROVE  \E g \in S : \A m \in S : f[m] <= f[g]
<1> DEFINE Above(n) == {m \in S : f[n] <= f[m]}
           Family  == {Above(n) : n \in S}
<1>1. Family # {} /\ Family \subseteq FiniteSubsetsOf(S)
  <2>1. \A n \in S : IsFiniteSet(Above(n)) /\ Above(n) \subseteq S
    BY FS_Subset
  <2>2. \A n \in S : Above(n) \in FiniteSubsetsOf(S)
    BY <2>1 DEF FiniteSubsetsOf
  <2>3. PICK n \in S : TRUE
    OBVIOUS
  <2>4. Above(n) \in Family
    OBVIOUS
  <2> QED
    BY <2>2, <2>4
<1>2. IsWellFoundedOn(StrictSubsetOrdering(S), FiniteSubsetsOf(S))
  BY FS_StrictSubsetOrderingWellFounded
<1>3. PICK U \in Family : \A V \in Family : ~(<<V, U>> \in StrictSubsetOrdering(S))
  <2> HIDE DEF Family
  <2> QED
    BY <1>1, <1>2, WFMin
<1>4. PICK g \in S : U = Above(g)
  OBVIOUS
<1>5. ASSUME NEW m \in S, f[g] < f[m] PROVE FALSE
  <2>1. Above(m) \subseteq Above(g) /\ Above(m) # Above(g)
    <3>1. g \in Above(g) /\ g \notin Above(m)
      BY <1>5
    <3>2. \A k \in Above(m) : k \in Above(g)
      BY <1>5
    <3> QED
      BY <3>1, <3>2
  <2>2. <<Above(m), U>> \in StrictSubsetOrdering(S)
    BY <2>1, <1>4 DEF StrictSubsetOrdering
  <2> QED
    BY <2>2, <1>3
<1> QED
  BY <1>5

\* What ascends step by step has its greatest at its end.
LEMMA LastIsGreatest ==
    ASSUME NEW k \in Nat, NEW f, \A i \in 1..k : f[i] \in Nat,
           \A i \in 1..(k - 1) : f[i] < f[i + 1], NEW i \in 1..k
    PROVE  f[i] <= f[k]
<1> SUFFICES ASSUME ~(f[i] <= f[k]) PROVE FALSE
  OBVIOUS
<1> DEFINE Over == {j \in 1..k : f[k] < f[j]}
<1>1. Over \subseteq 1..k /\ i \in Over
  OBVIOUS
<1>2. PICK g \in Over : \A m \in Over : m <= g
  <2> DEFINE place == [j \in Over |-> j]
  <2>1. IsFiniteSet(1..k)
    <3>1. 1 \in Int /\ k \in Int
      OBVIOUS
    <3> QED
      BY <3>1, FS_Interval
  <2>2. IsFiniteSet(Over) /\ Over # {} /\ place \in [Over -> Nat]
    BY <1>1, <2>1, FS_Subset
  <2>3. \A j \in Over : place[j] = j
    OBVIOUS
  <2> HIDE DEF Over, place
  <2> QED
    BY <2>2, <2>3, GreatestOf
<1>3. g \in 1..(k - 1) /\ g + 1 \in 1..k
  OBVIOUS
<1>4. f[k] < f[g + 1]
  BY <1>3
<1>5. g + 1 \in Over
  BY <1>3, <1>4
<1> QED
  BY <1>2, <1>5

IndexRecords == [records : Seq(Nat), size : Nat, built : BOOLEAN]
AppendRecords == {Idle} \cup [at : {"write"}, next : Nat \ {0}]
                   \cup [at : {"sync"}, next : Nat \ {0}, offset : Nat]
ScanRecords == {Idle} \cup [at : {"scanned"}, records : Seq(Nat)]
                 \cup [at : {"sized"}, records : Seq(Nat), size : Nat]

StoreShape ==
    /\ lines \in Seq(Nat) /\ torn \in {0, 1} /\ number \in Nat
    /\ index \in IndexRecords /\ append \in AppendRecords
    /\ scan \in [Readers -> ScanRecords]
    /\ acked \subseteq 1..Len(lines)

\* All lines up to some place, which can be read and ascend, and with them all
\* whose append was acknowledged.
Covers(indexed, file, known) ==
    \E k \in 0..Len(file) :
        /\ indexed = [i \in 1..k |-> i]
        /\ \A i \in 1..k : file[i] # Damaged
        /\ \A i \in 1..(k - 1) : file[i] < file[i + 1]
        /\ known \subseteq 1..k

\* The number of the last append is no smaller than any that was acknowledged;
\* while it is not known no append was acknowledged since the readers looked.
NumberIsLast ==
    /\ number # 0 => \A i \in acked : lines[i] <= number
    /\ number = 0 =>
          /\ index.built => Covers(index.records, lines, acked)
          /\ \A r \in Readers : scan[r] # Idle => Covers(scan[r].records, lines, acked)

NextIsNew ==
    /\ append # Idle => \A i \in acked : lines[i] < append.next
    /\ append.at = "sync" =>
          /\ Len(lines) > 0 /\ Len(lines) \notin acked
          /\ lines[Len(lines)] \in {append.next, Damaged}

StoreInv == StoreShape /\ NumberIsLast /\ NextIsNew /\ NumbersAscend

LEMMA StoreInvStarts == StoreInit => StoreInv
<1> SUFFICES ASSUME StoreInit PROVE StoreInv
  OBVIOUS
<1>1. NoIndex \in IndexRecords /\ ~NoIndex.built /\ Idle.at = "idle"
  BY DEF NoIndex, IndexRecords, Idle
<1>2. StoreShape
  BY <1>1 DEF StoreInit, StoreShape, AppendRecords, ScanRecords
<1>3. NumberIsLast /\ NextIsNew /\ NumbersAscend
  BY <1>1 DEF StoreInit, NumberIsLast, NextIsNew, NumbersAscend
<1> QED
  BY <1>2, <1>3 DEF StoreInv

\* The last line an index knows has the largest number that was acknowledged.
LEMMA CoverEnds ==
    ASSUME StoreShape, NEW indexed, Covers(indexed, lines, acked)
    PROVE  LastIn(indexed) \in Nat /\ \A i \in acked : lines[i] <= LastIn(indexed)
<1>1. PICK k \in 0..Len(lines) :
        /\ indexed = [i \in 1..k |-> i]
        /\ \A i \in 1..(k - 1) : lines[i] < lines[i + 1]
        /\ acked \subseteq 1..k
  BY DEF Covers
<1>2. /\ lines \in Seq(Nat) /\ Len(lines) \in Nat /\ k \in Nat
      /\ \A i \in 1..k : lines[i] \in Nat
  BY DEF StoreShape
<1>3. indexed \in Seq(Nat) /\ Len(indexed) = k
  <2>1. indexed \in [1..k -> Nat]
    BY <1>1
  <2> QED
    BY <1>2, <2>1
<1>4. CASE k = 0
  BY <1>1, <1>3, <1>4 DEF LastIn
<1>5. CASE k # 0
  <2>1. indexed # <<>> /\ indexed[Len(indexed)] = k
    BY <1>1, <1>2, <1>3, <1>5
  <2>2. LastIn(indexed) = lines[k] /\ k \in 1..k
    BY <1>2, <1>5, <2>1 DEF LastIn
  <2>3. \A i \in 1..k : lines[i] <= lines[k]
    BY <1>1, <1>2, LastIsGreatest
  <2> QED
    BY <1>1, <1>2, <2>2, <2>3
<1> QED
  BY <1>4, <1>5

LEMMA AllAreCovered ==
    ASSUME StoreShape, Indexable
    PROVE  Covers(AllLines, lines, acked) /\ AllLines \in Seq(Nat)
<1>1. lines \in Seq(Nat) /\ Len(lines) \in 0..Len(lines) /\ acked \subseteq 1..Len(lines)
  BY DEF StoreShape
<1>2. AllLines \in [1..Len(lines) -> Nat]
  BY DEF AllLines
<1>3. Covers(AllLines, lines, acked)
  BY <1>1 DEF Covers, AllLines, Indexable, Ascending
<1> QED
  BY <1>1, <1>2, <1>3

LEMMA LargestIsLast ==
    ASSUME StoreShape
    PROVE  LargestNumber \in Nat /\ \A i \in acked : lines[i] <= LargestNumber
<1> DEFINE numbers == {0} \cup {lines[i] : i \in 1..Len(lines)}
<1>1. /\ lines \in Seq(Nat) /\ Len(lines) \in Nat /\ \A i \in 1..Len(lines) : lines[i] \in Nat
      /\ acked \subseteq 1..Len(lines) /\ numbers \subseteq Nat
  BY DEF StoreShape
<1>2. \E n \in numbers : \A i \in 1..Len(lines) : lines[i] <= n
  <2>1. CASE Len(lines) = 0
    BY <2>1
  <2>2. CASE Len(lines) # 0
    <3> DEFINE places == 1..Len(lines)
               f == [i \in places |-> lines[i]]
    <3>1. IsFiniteSet(places)
      <4>1. 1 \in Int /\ Len(lines) \in Int
        BY <1>1
      <4> QED
        BY <4>1, FS_Interval
    <3>2. places # {} /\ f \in [places -> Nat] /\ \A i \in places : f[i] = lines[i]
      BY <1>1, <2>2
    <3>3. \A i \in places : lines[i] \in numbers
      OBVIOUS
    <3> HIDE DEF places, f, numbers
    <3>4. PICK g \in places : \A i \in places : f[i] <= f[g]
      BY <3>1, <3>2, GreatestOf
    <3> QED
      BY <3>2, <3>3, <3>4 DEF places
  <2> QED
    BY <2>1, <2>2
<1>3. LargestNumber \in numbers /\ \A i \in 1..Len(lines) : lines[i] <= LargestNumber
  BY <1>2 DEF LargestNumber
<1> QED
  BY <1>1, <1>3

\* What an index covers it still covers when the file has grown.
LEMMA CoverStays ==
    ASSUME StoreShape, NEW indexed, Covers(indexed, lines, acked), NEW line
    PROVE  Covers(indexed, Append(lines, line), acked)
<1>1. /\ lines \in Seq(Nat) /\ Len(Append(lines, line)) = Len(lines) + 1 /\ Len(lines) \in Nat
      /\ \A i \in 1..Len(lines) : Append(lines, line)[i] = lines[i]
  BY AppendProperties DEF StoreShape
<1>2. PICK k \in 0..Len(lines) :
        /\ indexed = [i \in 1..k |-> i]
        /\ \A i \in 1..k : lines[i] # Damaged
        /\ \A i \in 1..(k - 1) : lines[i] < lines[i + 1]
        /\ acked \subseteq 1..k
  BY DEF Covers
<1> DEFINE file == Append(lines, line)
<1> HIDE DEF file
<1>3. /\ k \in 0..Len(file) /\ \A i \in 1..k : file[i] = lines[i]
      /\ \A i \in 1..(k - 1) : file[i] = lines[i] /\ file[i + 1] = lines[i + 1]
  BY <1>1 DEF file
<1>4. Covers(indexed, file, acked)
  BY <1>2, <1>3 DEF Covers
<1> QED
  BY <1>4 DEF file

\* An append gets a number above all that were acknowledged.
LEMMA BeginKeeps ==
    ASSUME StoreInv, BeginAppend
    PROVE  StoreInv'
<1>1. StoreShape /\ NumberIsLast /\ NextIsNew /\ NumbersAscend
  BY DEF StoreInv
<1>2. PICK next \in 1..MaxLines + 1 :
        TakesNumber(next) /\ append' = [at |-> "write", next |-> next]
  BY DEF BeginAppend
<1>3. /\ UNCHANGED <<lines, torn, number, scan, acked, breaks>>
      /\ next \in Nat \ {0}
  BY SessionBounds DEF BeginAppend, SessionBounds
<1>4. /\ \A i \in acked : lines[i] < next
      /\ index' \in IndexRecords
      /\ number = 0 /\ index'.built => Covers(index'.records, lines, acked)
  <2>1. /\ index \in IndexRecords /\ number \in Nat /\ acked \subseteq 1..Len(lines)
        /\ \A i \in acked : lines[i] \in Nat
    BY <1>1 DEF StoreShape
  <2>2. CASE number # 0 /\ next = number + 1 /\ UNCHANGED index
    <3>1. \A i \in acked : lines[i] <= number
      BY <1>1, <2>2 DEF NumberIsLast
    <3>2. \A i \in acked : lines[i] < next
      BY <2>1, <2>2, <3>1
    <3> QED
      BY <2>1, <2>2, <3>2
  <2>3. CASE number = 0 /\ Valid /\ next = LastIn(index.records) + 1 /\ UNCHANGED index
    <3>1. Covers(index.records, lines, acked)
      BY <1>1, <2>3 DEF NumberIsLast, Valid
    <3>2. LastIn(index.records) \in Nat /\ \A i \in acked : lines[i] <= LastIn(index.records)
      BY <1>1, <3>1, CoverEnds
    <3>3. \A i \in acked : lines[i] < next
      BY <2>1, <2>3, <3>2
    <3> QED
      BY <2>1, <2>3, <3>1, <3>3
  <2>4. CASE /\ number = 0 /\ Indexable /\ next = LastIn(AllLines) + 1
             /\ index' = [records |-> AllLines, size |-> Size, built |-> TRUE]
    <3>1. Covers(AllLines, lines, acked) /\ AllLines \in Seq(Nat)
      BY <1>1, <2>4, AllAreCovered
    <3>2. LastIn(AllLines) \in Nat /\ \A i \in acked : lines[i] <= LastIn(AllLines)
      BY <1>1, <3>1, CoverEnds
    <3>3. \A i \in acked : lines[i] < next
      BY <2>1, <2>4, <3>2
    <3>4. Size \in Nat
      BY <1>1 DEF Size, StoreShape
    <3>5. index' \in IndexRecords /\ index'.records = AllLines
      BY <2>4, <3>1, <3>4 DEF IndexRecords
    <3> QED
      BY <3>1, <3>3, <3>5
  <2>5. CASE number = 0 /\ ~Valid /\ next = LargestNumber + 1 /\ UNCHANGED index
    <3>1. LargestNumber \in Nat /\ \A i \in acked : lines[i] <= LargestNumber
      BY <1>1, LargestIsLast
    <3>2. \A i \in acked : lines[i] < next
      BY <2>1, <2>5, <3>1
    <3>3. number = 0 /\ index'.built => Covers(index'.records, lines, acked)
      BY <1>1, <2>5 DEF NumberIsLast
    <3> QED
      BY <2>1, <2>5, <3>2, <3>3
  <2> QED
    BY <1>2, <2>2, <2>3, <2>4, <2>5 DEF TakesNumber
<1>5. StoreShape'
  <2>1. append' \in AppendRecords
    BY <1>2, <1>3 DEF AppendRecords
  <2> QED
    BY <1>1, <1>3, <1>4, <2>1 DEF StoreShape
<1>6. NumberIsLast'
  BY <1>1, <1>3, <1>4 DEF NumberIsLast
<1>7. NextIsNew'
  <2>1. append'.at = "write" /\ append'.next = next
    BY <1>2
  <2> QED
    BY <1>3, <1>4, <2>1 DEF NextIsNew
<1>8. NumbersAscend'
  BY <1>1, <1>3 DEF NumbersAscend
<1> QED
  BY <1>5, <1>6, <1>7, <1>8 DEF StoreInv

\* What an append that is under way looks like.
LEMMA AppendsApart ==
    ASSUME StoreShape
    PROVE  /\ append.at = "write" => append.next \in Nat \ {0}
           /\ append.at = "sync" => append.next \in Nat \ {0} /\ append.offset \in Nat
           /\ append.at \in {"write", "sync"} => append # Idle
           /\ Idle \in AppendRecords /\ Idle \in ScanRecords /\ Idle.at = "idle"
           /\ Size \in Nat
<1>1. append \in AppendRecords /\ Len(lines) \in Nat /\ torn \in Nat
  BY DEF StoreShape
<1>2. Idle.at = "idle"
  BY DEF Idle
<1>3. Size \in Nat
  BY <1>1 DEF Size
<1> QED
  BY <1>1, <1>2, <1>3 DEF AppendRecords, ScanRecords

\* A line is written behind all that were acknowledged.
LEMMA WriteLineKeeps ==
    ASSUME StoreInv, WriteLine
    PROVE  StoreInv'
<1> DEFINE line == LineWith(append.next)
<1>1. StoreShape /\ NumberIsLast /\ NextIsNew /\ NumbersAscend
  BY DEF StoreInv
<1>2. /\ append.at = "write" /\ lines' = Append(lines, line) /\ torn' = 0
      /\ append' = [at |-> "sync", next |-> append.next, offset |-> Size]
      /\ UNCHANGED <<index, number, scan, acked, breaks>>
  BY DEF WriteLine
<1>3. append.next \in Nat \ {0} /\ append # Idle /\ Size \in Nat
  BY <1>1, <1>2, AppendsApart
<1>4. line \in {append.next, Damaged} /\ line \in Nat
  BY <1>3 DEF LineWith, Damaged
<1>5. lines \in Seq(Nat) /\ Len(lines) \in Nat /\ acked \subseteq 1..Len(lines)
  BY <1>1 DEF StoreShape
<1> HIDE DEF line
<1>6. /\ lines' \in Seq(Nat) /\ Len(lines') = Len(lines) + 1 /\ lines'[Len(lines')] = line
      /\ \A i \in 1..Len(lines) : lines'[i] = lines[i]
  BY <1>2, <1>4, <1>5, AppendProperties
<1>7. \A i \in acked : lines'[i] = lines[i]
  BY <1>5, <1>6
<1>8. StoreShape'
  <2>1. append' \in AppendRecords
    BY <1>2, <1>3 DEF AppendRecords
  <2>2. acked \subseteq 1..Len(lines')
    BY <1>5, <1>6
  <2> QED
    BY <1>1, <1>2, <1>6, <2>1, <2>2 DEF StoreShape
<1>9. NumberIsLast'
  <2>1. CASE number # 0
    BY <1>1, <1>2, <1>7, <2>1 DEF NumberIsLast
  <2>2. CASE number = 0
    <3>1. index.built => Covers(index.records, lines', acked)
      BY <1>1, <1>2, <2>2, CoverStays DEF NumberIsLast
    <3>2. ASSUME NEW r \in Readers, scan[r] # Idle PROVE Covers(scan[r].records, lines', acked)
      BY <1>1, <1>2, <2>2, <3>2, CoverStays DEF NumberIsLast
    <3> QED
      BY <1>2, <2>2, <3>1, <3>2 DEF NumberIsLast
  <2> QED
    BY <2>1, <2>2
<1>10. NextIsNew'
  <2>1. append'.at = "sync" /\ append'.next = append.next
    BY <1>2
  <2>2. \A i \in acked : lines'[i] < append.next
    BY <1>1, <1>3, <1>7 DEF NextIsNew
  <2>3. Len(lines') > 0 /\ Len(lines') \notin acked
    BY <1>5, <1>6
  <2> QED
    BY <1>2, <1>4, <1>6, <2>1, <2>2, <2>3 DEF NextIsNew
<1>11. NumbersAscend'
  BY <1>1, <1>2, <1>7 DEF NumbersAscend
<1> QED
  BY <1>8, <1>9, <1>10, <1>11 DEF StoreInv

\* A write or a sync that fails leaves what was acknowledged.
LEMMA FailsKeeps ==
    ASSUME StoreInv, WriteFails \/ SyncFails
    PROVE  StoreInv'
<1>1. StoreShape /\ NumberIsLast /\ NextIsNew /\ NumbersAscend
  BY DEF StoreInv
<1>2. append' = Idle /\ torn' \in {torn, 1} /\ UNCHANGED <<lines, index, number, scan, acked>>
  BY DEF WriteFails, SyncFails
<1>3. append' \in AppendRecords /\ append'.at = "idle"
  BY <1>1, <1>2, AppendsApart
<1>4. StoreShape'
  BY <1>1, <1>2, <1>3 DEF StoreShape
<1>5. NumberIsLast'
  BY <1>1, <1>2 DEF NumberIsLast
<1>6. NextIsNew'
  BY <1>2, <1>3 DEF NextIsNew
<1>7. NumbersAscend'
  BY <1>1, <1>2 DEF NumbersAscend
<1> QED
  BY <1>4, <1>5, <1>6, <1>7 DEF StoreInv

\* What is acknowledged next has, when it can be read, the largest number.
LEMMA NoteKeeps ==
    ASSUME StoreInv, NoteAppended
    PROVE  StoreInv'
<1>1. StoreShape /\ NumberIsLast /\ NextIsNew /\ NumbersAscend
  BY DEF StoreInv
<1>2. /\ append.at = "sync" /\ number' = append.next
      /\ index' = IF ~index.built THEN index
                  ELSE IF index.size # append.offset THEN NoIndex
                  ELSE [records |-> Append(index.records, Len(lines)),
                        size |-> Size, built |-> TRUE]
      /\ acked' = acked \cup {Len(lines)} /\ append' = Idle
      /\ UNCHANGED <<lines, torn, scan, breaks>>
  BY DEF NoteAppended
<1>3. append.next \in Nat \ {0} /\ append # Idle /\ Size \in Nat /\ Idle \in AppendRecords
      /\ Idle.at = "idle"
  BY <1>1, <1>2, AppendsApart
<1>4. /\ lines \in Seq(Nat) /\ Len(lines) \in Nat /\ acked \subseteq 1..Len(lines)
      /\ index \in IndexRecords /\ \A i \in 1..Len(lines) : lines[i] \in Nat
  BY <1>1 DEF StoreShape
<1>5. /\ \A i \in acked : lines[i] < append.next
      /\ Len(lines) > 0 /\ Len(lines) \notin acked
      /\ lines[Len(lines)] \in {append.next, Damaged}
  BY <1>1, <1>2, <1>3 DEF NextIsNew
<1>6. StoreShape'
  <2>1. index' \in IndexRecords
    <3>1. index.records \in Seq(Nat)
      BY <1>4 DEF IndexRecords
    <3>2. Append(index.records, Len(lines)) \in Seq(Nat)
      BY <1>4, <3>1
    <3>3. NoIndex \in IndexRecords
      BY DEF NoIndex, IndexRecords
    <3>4. [records |-> Append(index.records, Len(lines)), size |-> Size, built |-> TRUE]
             \in IndexRecords
      BY <1>3, <3>2 DEF IndexRecords
    <3> QED
      BY <1>2, <1>4, <3>3, <3>4
  <2>2. acked' \subseteq 1..Len(lines)
    <3>1. Len(lines) \in 1..Len(lines)
      BY <1>4, <1>5
    <3>2. acked \cup {Len(lines)} \subseteq 1..Len(lines)
      BY <1>4, <3>1
    <3> QED
      BY <1>2, <3>2
  <2> QED
    BY <1>1, <1>2, <1>3, <2>1, <2>2 DEF StoreShape
<1>7. NumberIsLast'
  <2>1. \A i \in acked' : lines[i] <= append.next
    BY <1>2, <1>3, <1>4, <1>5 DEF Damaged
  <2> QED
    BY <1>2, <1>3, <2>1 DEF NumberIsLast
<1>8. NextIsNew'
  BY <1>2, <1>3 DEF NextIsNew
<1>9. NumbersAscend'
  <2> SUFFICES ASSUME NEW i \in acked', NEW j \in acked', i < j, lines[j] # Damaged
               PROVE  lines[i] < lines[j]
    BY <1>2 DEF NumbersAscend
  <2>1. i \in acked
    BY <1>2, <1>4, <1>5
  <2>2. CASE j \in acked
    BY <1>1, <2>1, <2>2 DEF NumbersAscend
  <2>3. CASE j = Len(lines)
    BY <1>5, <2>1, <2>3
  <2> QED
    BY <1>2, <2>2, <2>3
<1> QED
  BY <1>6, <1>7, <1>8, <1>9 DEF StoreInv

\* Whatever a reader finds, the numbers stay what they are.
LEMMA ReaderKeeps ==
    ASSUME StoreInv, NEW r \in Readers, ScanLines(r) \/ StatSize(r) \/ InstallIndex(r)
    PROVE  StoreInv'
<1>1. StoreShape /\ NumberIsLast /\ NextIsNew /\ NumbersAscend
  BY DEF StoreInv
<1>2. UNCHANGED <<lines, torn, number, append, acked>>
  BY DEF ScanLines, StatSize, InstallIndex
<1>3. /\ scan \in [Readers -> ScanRecords] /\ scan[r] \in ScanRecords /\ index \in IndexRecords
      /\ scan[r].at # "idle" => scan[r] # Idle /\ scan[r].records \in Seq(Nat)
      /\ scan[r].at = "sized" => scan[r].size \in Nat
  BY <1>1 DEF StoreShape, ScanRecords, Idle
<1>4. Idle \in ScanRecords /\ Size \in Nat /\ Idle.at = "idle"
  BY <1>1, AppendsApart
<1>5. NextIsNew' /\ NumbersAscend'
  BY <1>1, <1>2 DEF NextIsNew, NumbersAscend
<1>6. CASE ScanLines(r)
  <2> DEFINE found == [at |-> "scanned", records |-> AllLines]
  <2>1. scan' = [scan EXCEPT ![r] = found] /\ index' = index
    BY <1>6 DEF ScanLines
  <2>2. Covers(AllLines, lines, acked) /\ AllLines \in Seq(Nat)
    BY <1>1, <1>6, AllAreCovered DEF ScanLines
  <2>3. found \in ScanRecords /\ found.records = AllLines
    BY <2>2 DEF ScanRecords
  <2> HIDE DEF found
  <2>4. StoreShape'
    BY <1>1, <1>2, <1>3, <2>1, <2>3 DEF StoreShape
  <2>5. NumberIsLast'
    <3>1. ASSUME number = 0, NEW q \in Readers, scan'[q] # Idle
          PROVE  Covers(scan'[q].records, lines, acked)
      <4>1. CASE q = r
        BY <1>3, <2>1, <2>2, <2>3, <4>1
      <4>2. CASE q # r
        BY <1>1, <1>3, <2>1, <3>1, <4>2 DEF NumberIsLast
      <4> QED
        BY <4>1, <4>2
    <3> QED
      BY <1>1, <1>2, <2>1, <3>1 DEF NumberIsLast
  <2> QED
    BY <1>5, <2>4, <2>5 DEF StoreInv
<1>7. CASE StatSize(r)
  <2> DEFINE sized == [at |-> "sized", records |-> scan[r].records, size |-> Size]
  <2>1. scan' = [scan EXCEPT ![r] = sized] /\ index' = index /\ scan[r].at = "scanned"
    BY <1>7 DEF StatSize
  <2>2. sized \in ScanRecords /\ sized.records = scan[r].records /\ scan[r] # Idle
    BY <1>3, <1>4, <2>1 DEF ScanRecords
  <2> HIDE DEF sized
  <2>4. StoreShape'
    BY <1>1, <1>2, <1>3, <2>1, <2>2 DEF StoreShape
  <2>5. NumberIsLast'
    <3>1. ASSUME number = 0, NEW q \in Readers, scan'[q] # Idle
          PROVE  Covers(scan'[q].records, lines, acked)
      <4>1. CASE q = r
        <5>1. scan'[q].records = scan[r].records
          BY <1>3, <2>1, <2>2, <4>1
        <5> QED
          BY <1>1, <2>2, <3>1, <5>1 DEF NumberIsLast
      <4>2. CASE q # r
        BY <1>1, <1>3, <2>1, <3>1, <4>2 DEF NumberIsLast
      <4> QED
        BY <4>1, <4>2
    <3> QED
      BY <1>1, <1>2, <2>1, <3>1 DEF NumberIsLast
  <2> QED
    BY <1>5, <2>4, <2>5 DEF StoreInv
<1>8. CASE InstallIndex(r)
  <2> DEFINE built == [records |-> scan[r].records, size |-> scan[r].size, built |-> TRUE]
  <2>1. /\ scan' = [scan EXCEPT ![r] = Idle] /\ scan[r].at = "sized"
        /\ index' = index \/ index' = built
    BY <1>8 DEF InstallIndex
  <2>2. built \in IndexRecords /\ built.records = scan[r].records /\ scan[r] # Idle
    BY <1>3, <2>1 DEF IndexRecords
  <2> HIDE DEF built
  <2>4. StoreShape'
    BY <1>1, <1>2, <1>3, <1>4, <2>1, <2>2 DEF StoreShape
  <2>5. NumberIsLast'
    <3>1. ASSUME number = 0, NEW q \in Readers, scan'[q] # Idle
          PROVE  Covers(scan'[q].records, lines, acked)
      BY <1>1, <1>3, <2>1, <3>1 DEF NumberIsLast
    <3>2. ASSUME number = 0, index'.built PROVE Covers(index'.records, lines, acked)
      <4>1. CASE index' = index
        BY <1>1, <3>2, <4>1 DEF NumberIsLast
      <4>2. CASE index' = built
        BY <1>1, <2>2, <3>2, <4>2 DEF NumberIsLast
      <4> QED
        BY <2>1, <4>1, <4>2
    <3> QED
      BY <1>1, <1>2, <3>1, <3>2 DEF NumberIsLast
  <2> QED
    BY <1>5, <2>4, <2>5 DEF StoreInv
<1> QED
  BY <1>6, <1>7, <1>8

\* After a restart nothing but the file is known.
LEMMA RestartStoreKeeps ==
    ASSUME StoreInv, RestartStore
    PROVE  StoreInv'
<1>1. StoreShape /\ NumberIsLast /\ NextIsNew /\ NumbersAscend
  BY DEF StoreInv
<1>2. /\ index' = NoIndex /\ number' = 0 /\ append' = Idle
      /\ scan' = [r \in Readers |-> Idle] /\ UNCHANGED <<lines, torn, acked>>
  BY DEF RestartStore
<1>3. Idle \in AppendRecords /\ Idle \in ScanRecords /\ Idle.at = "idle"
  BY <1>1, AppendsApart
<1>4. NoIndex \in IndexRecords /\ ~NoIndex.built
  BY DEF NoIndex, IndexRecords
<1>5. StoreShape'
  BY <1>1, <1>2, <1>3, <1>4 DEF StoreShape
<1>6. NumberIsLast' /\ NextIsNew' /\ NumbersAscend'
  BY <1>1, <1>2, <1>3, <1>4 DEF NumberIsLast, NextIsNew, NumbersAscend
<1> QED
  BY <1>5, <1>6 DEF StoreInv

LEMMA StoreInvKept == StoreInv /\ [StoreNext]_storeVars => StoreInv'
<1> SUFFICES ASSUME StoreInv, [StoreNext]_storeVars PROVE StoreInv'
  OBVIOUS
<1>1. CASE UNCHANGED storeVars
  BY <1>1 DEF storeVars, StoreInv, StoreShape, NumberIsLast, NextIsNew, NumbersAscend
<1> QED
  BY <1>1, BeginKeeps, WriteLineKeeps, FailsKeeps, NoteKeeps, ReaderKeeps, RestartStoreKeeps
     DEF StoreNext

-----------------------------------------------------------------------------
(* PlanSteps: a step that is done was earned.                                *)

PlanRecords == [id : PlanNames, status : PlanStatus, steps : Seq(StepRecords)]

\* A step that is completed was looked at in time.
IsEarned(step) ==
    step.status = "completed" =>
        /\ step.proofs # {} /\ step.proofs \subseteq step.since..step.at
        /\ step.since > 0 /\ step.at <= Len(toolLog)
        /\ \A k \in step.proofs : toolLog[k] \in Succeeded
        /\ \A m \in step.since..step.at :
             toolLog[m] \in Mutating => \E k \in step.proofs : k >= m

HasEarned(p) ==
    /\ Len(p.steps) > 0
    /\ \A s \in DOMAIN p.steps : IsEarned(p.steps[s])
    /\ \A s \in DOMAIN p.steps : p.steps[s].status # "pending" =>
         \A r \in 1..(s - 1) : p.steps[r].status \in Done
    /\ PlanIsTerminal(p) <=> \A s \in DOMAIN p.steps : p.steps[s].status \in Done
    /\ p.status = "completed" <=> \A s \in DOMAIN p.steps : p.steps[s].status = "completed"

Sound == {p \in PlanRecords : HasEarned(p)}

PlansInv ==
    /\ plans \in Seq(Sound) /\ toolLog \in Seq(ToolResults)
    /\ lockPlans \in BOOLEAN /\ (planOp = "user" => ~atWork)
    /\ OnePlanAtATime

LEMMA PlansInvStarts == PlanStepsInit => PlansInv
BY DEF PlanStepsInit, PlansInv, OnePlanAtATime

LEMMA PlansInvHolds == PlansInv => StepsAreEarned
<1> SUFFICES ASSUME PlansInv PROVE EvidenceHolds /\ StepsInOrder
  BY DEF PlansInv, StepsAreEarned
<1>1. \A i \in DOMAIN plans : HasEarned(plans[i])
  BY DEF PlansInv, Sound
<1>2. EvidenceHolds
  BY <1>1 DEF HasEarned, IsEarned, EvidenceHolds
<1>3. StepsInOrder
  BY <1>1 DEF HasEarned, StepsInOrder
<1> QED
  BY <1>2, <1>3

\* The status of a plan that has not ended is no part of what it says.
LEMMA OtherStatus ==
    ASSUME NEW p \in Sound, ~PlanIsTerminal(p), NEW status \in {"active", "queued"}
    PROVE  /\ [p EXCEPT !.status = status] \in Sound
           /\ ~PlanIsTerminal([p EXCEPT !.status = status])
           /\ [p EXCEPT !.status = status].status = status
<1> DEFINE q == [p EXCEPT !.status = status]
<1>1. p \in PlanRecords /\ HasEarned(p)
  BY DEF Sound
<1>2. q \in PlanRecords /\ q.steps = p.steps /\ q.status = status
  BY <1>1 DEF PlanRecords, PlanStatus
<1>3. ~PlanIsTerminal(q)
  BY <1>2 DEF PlanIsTerminal
<1> HIDE DEF q
<1>4. ~\A s \in DOMAIN p.steps : p.steps[s].status \in Done
  BY <1>1 DEF HasEarned
<1>5. HasEarned(q)
  BY <1>1, <1>2, <1>3, <1>4 DEF HasEarned, Done
<1>6. q \in Sound
  BY <1>2, <1>5 DEF Sound
<1> QED
  BY <1>2, <1>3, <1>6 DEF q

LEMMA QueueForm ==
    ASSUME NEW ps \in Seq(Sound)
    PROVE  /\ InQueue(ps) \in Seq(Sound)
           /\ \A i \in DOMAIN InQueue(ps) :
                 InQueue(ps)[i].status = "active" <=> FirstUnfinished(InQueue(ps), i)
<1> DEFINE q == InQueue(ps)
           first(i) == \A j \in 1..(i - 1) : PlanIsTerminal(ps[j])
<1>1. DOMAIN ps = 1..Len(ps) /\ \A i \in DOMAIN ps : ps[i] \in Sound
  OBVIOUS
<1>2. DOMAIN q = DOMAIN ps /\ q = [i \in DOMAIN ps |-> q[i]]
  BY DEF InQueue
<1>3. ASSUME NEW i \in DOMAIN ps, PlanIsTerminal(ps[i])
      PROVE  q[i] = ps[i] /\ q[i].status # "active"
  BY <1>3 DEF InQueue, PlanIsTerminal
<1>4. ASSUME NEW i \in DOMAIN ps, ~PlanIsTerminal(ps[i])
      PROVE  /\ q[i] \in Sound /\ ~PlanIsTerminal(q[i])
             /\ q[i].status = IF first(i) THEN "active" ELSE "queued"
  <2>1. q[i] = [ps[i] EXCEPT !.status = IF first(i) THEN "active" ELSE "queued"]
    BY <1>4 DEF InQueue
  <2> QED
    BY <1>1, <1>4, <2>1, OtherStatus
<1> HIDE DEF q, first
<1>5. \A i \in DOMAIN ps : q[i] \in Sound /\ (PlanIsTerminal(q[i]) <=> PlanIsTerminal(ps[i]))
  BY <1>1, <1>3, <1>4
<1>6. q \in Seq(Sound)
  <2>1. q \in [1..Len(ps) -> Sound]
    BY <1>1, <1>2, <1>5
  <2> QED
    BY <2>1
<1>7. ASSUME NEW i \in DOMAIN ps PROVE q[i].status = "active" <=> FirstUnfinished(q, i)
  <2>1. \A j \in 1..(i - 1) : j \in DOMAIN ps
    BY <1>1
  <2>2. (\A j \in 1..(i - 1) : PlanIsTerminal(q[j])) <=> first(i)
    BY <1>5, <2>1 DEF first
  <2> QED
    BY <1>3, <1>4, <1>5, <2>2 DEF FirstUnfinished
<1> QED
  BY <1>2, <1>6, <1>7 DEF q

LEMMA ParallelForm == ASSUME NEW ps \in Seq(Sound) PROVE InParallel(ps) \in Seq(Sound)
<1> DEFINE q == InParallel(ps)
<1>1. DOMAIN ps = 1..Len(ps) /\ \A i \in DOMAIN ps : ps[i] \in Sound
  OBVIOUS
<1>2. DOMAIN q = DOMAIN ps /\ q = [i \in DOMAIN ps |-> q[i]]
  BY DEF InParallel
<1>3. ASSUME NEW i \in DOMAIN ps PROVE q[i] \in Sound
  <2>1. CASE PlanIsTerminal(ps[i])
    BY <1>1, <2>1 DEF InParallel
  <2>2. CASE ~PlanIsTerminal(ps[i])
    <3>1. q[i] = [ps[i] EXCEPT !.status = "active"]
      BY <2>2 DEF InParallel
    <3> QED
      BY <1>1, <2>2, <3>1, OtherStatus
  <2> QED
    BY <2>1, <2>2
<1> HIDE DEF q
<1>4. q \in [1..Len(ps) -> Sound]
  BY <1>1, <1>2, <1>3
<1> QED
  BY <1>4 DEF q

\* In both forms the file holds what it held; the queue is what a locked
\* session asks for.
LEMMA ReconcileKeeps ==
    ASSUME plans \in Seq(Sound), lockPlans \in BOOLEAN,
           UNCHANGED <<lockPlans, toolLog>>, NEW lock \in BOOLEAN, Reconcile(lock)
    PROVE  plans' \in Seq(Sound) /\ OnePlanAtATime'
<1>1. plans' \in Seq(Sound)
  BY QueueForm, ParallelForm DEF Reconcile
<1>2. CASE lock
  BY <1>2, QueueForm DEF Reconcile, OnePlanAtATime
<1>3. CASE ~lock
  <2>1. CASE lockPlans
    <3>1. lock = FALSE /\ lockPlans = TRUE /\ stale' = (lock # lockPlans)
      BY <1>3, <2>1 DEF Reconcile
    <3>2. stale' = TRUE
      BY <3>1
    <3> QED
      BY <1>1, <3>2 DEF OnePlanAtATime
  <2>2. CASE ~lockPlans
    BY <1>1, <2>2 DEF OnePlanAtATime
  <2> QED
    BY <2>1, <2>2
<1> QED
  BY <1>1, <1>2, <1>3

\* The log grows at its end: what was earned before stays earned.
LEMMA EarnedStays ==
    ASSUME toolLog \in Seq(ToolResults), NEW result \in ToolResults,
           toolLog' = Append(toolLog, result)
    PROVE  Sound \subseteq Sound'
<1> SUFFICES ASSUME NEW p \in Sound PROVE p \in Sound'
  OBVIOUS
<1>1. p \in PlanRecords /\ HasEarned(p)
  BY DEF Sound
<1>2. /\ Len(toolLog) \in Nat /\ Len(toolLog') = Len(toolLog) + 1
      /\ \A k \in 1..Len(toolLog) : toolLog'[k] = toolLog[k]
  OBVIOUS
<1>3. ASSUME NEW s \in DOMAIN p.steps PROVE IsEarned(p.steps[s])'
  <2> DEFINE step == p.steps[s]
  <2>1. step \in StepRecords
    BY <1>1 DEF PlanRecords
  <2>2. step.since \in Nat /\ step.at \in Nat
    BY <2>1 DEF StepRecords
  <2>3. IsEarned(step)
    BY <1>1 DEF HasEarned
  <2> HIDE DEF step
  <2>4. CASE step.status = "completed"
    <3>1. /\ step.proofs # {} /\ step.proofs \subseteq step.since..step.at
          /\ step.since > 0 /\ step.at <= Len(toolLog)
          /\ \A k \in step.proofs : toolLog[k] \in Succeeded
          /\ \A m \in step.since..step.at :
               toolLog[m] \in Mutating => \E k \in step.proofs : k >= m
      BY <2>3, <2>4 DEF IsEarned
    <3>2. \A m \in step.since..step.at : m \in 1..Len(toolLog)
      BY <1>2, <2>2, <3>1
    <3>3. IsEarned(step)'
      BY <1>2, <2>2, <3>1, <3>2 DEF IsEarned
    <3> QED
      BY <3>3 DEF step
  <2>5. CASE step.status # "completed"
    BY <2>5 DEF IsEarned, step
  <2> QED
    BY <2>4, <2>5
<1>4. HasEarned(p)'
  BY <1>1, <1>3 DEF HasEarned
<1> QED
  BY <1>1, <1>4 DEF Sound

LEMMA NewIsSound ==
    ASSUME NEW id \in PlanNames, NEW n \in 1..MaxPlanSteps PROVE NewPlan(id, n) \in Sound
<1> DEFINE p == NewPlan(id, n)
<1>1. n \in Nat /\ n > 0
  BY PlanStepBounds
<1>2. NewStep \in StepRecords /\ NewStep.status = "pending"
  BY DEF NewStep, StepRecords, StepStatus
<1>3. /\ p.steps = [s \in 1..n |-> NewStep] /\ p.status = "active" /\ p.id = id
      /\ p = [id |-> p.id, status |-> p.status, steps |-> p.steps]
  BY DEF NewPlan
<1>4. /\ p.steps \in Seq(StepRecords) /\ Len(p.steps) = n /\ DOMAIN p.steps = 1..n
      /\ \A s \in 1..n : p.steps[s] = NewStep
  <2>1. p.steps \in [1..n -> StepRecords]
    BY <1>2, <1>3
  <2> QED
    BY <1>1, <1>3, <2>1
<1>5. p \in PlanRecords
  BY <1>3, <1>4 DEF PlanRecords, PlanStatus
<1> HIDE DEF p
<1>6. 1 \in DOMAIN p.steps /\ p.steps[1].status = "pending"
  BY <1>1, <1>2, <1>4
<1>7. HasEarned(p)
  BY <1>1, <1>2, <1>3, <1>4, <1>6 DEF HasEarned, IsEarned, PlanIsTerminal, Done
<1> QED
  BY <1>5, <1>7 DEF Sound, p

\* A step moves when those before it are done, and is called done on evidence.
LEMMA MovedIsSound ==
    ASSUME toolLog \in Seq(ToolResults), NEW p \in Sound, NEW s \in DOMAIN p.steps,
           NEW to \in StepStatus, NEW ids \in SUBSET DOMAIN toolLog,
           MayMove(p, s), CanMove(p.steps[s], to, ids)
    PROVE  Judged(p, [p.steps EXCEPT ![s] = Moved(p.steps[s], to, ids)]) \in Sound
<1> DEFINE step  == p.steps[s]
           moved == Moved(step, to, ids)
           steps == [p.steps EXCEPT ![s] = moved]
           q == Judged(p, steps)
<1>1. /\ p \in PlanRecords /\ HasEarned(p) /\ p.steps \in Seq(StepRecords)
      /\ step \in StepRecords /\ DOMAIN p.steps = 1..Len(p.steps) /\ Len(p.steps) \in Nat
      /\ s \in 1..Len(p.steps)
  BY DEF Sound, PlanRecords
<1>2. Len(toolLog) \in Nat /\ DOMAIN toolLog = 1..Len(toolLog) /\ ids \in SUBSET Nat
  OBVIOUS
<1>3. /\ step.status \in StepStatus \ Done /\ step.since \in Nat /\ step.at \in Nat
      /\ step.proofs \in SUBSET Nat
      /\ to = "completed" => Verified(step, ids)
  BY <1>1 DEF CanMove, StepRecords, StepStatus, Done
<1>4. /\ moved.status = to
      /\ moved.since = (CASE to = "in_progress" -> 0 [] to = "verifying" -> Now
                          [] OTHER -> step.since)
      /\ moved.proofs = (CASE to = "in_progress" -> {} [] to = "completed" -> ids
                           [] OTHER -> step.proofs)
      /\ moved.at = IF to = "completed" THEN Len(toolLog) ELSE step.at
      /\ moved = [status |-> moved.status, since |-> moved.since, proofs |-> moved.proofs,
                  at |-> moved.at]
  BY DEF Moved
<1>5. moved \in StepRecords
  <2>1. moved.since \in Nat
    BY <1>2, <1>3, <1>4 DEF Now
  <2>2. moved.proofs \in SUBSET Nat /\ moved.at \in Nat
    BY <1>2, <1>3, <1>4
  <2> QED
    BY <1>4, <2>1, <2>2 DEF StepRecords
<1>6. IsEarned(moved)
  <2> SUFFICES ASSUME to = "completed" PROVE IsEarned(moved)
    BY <1>4 DEF IsEarned
  <2>1. /\ step.since # 0 /\ ids # {}
        /\ \A i \in ids : i >= step.since /\ toolLog[i] \in Succeeded
        /\ \A m \in step.since..Len(toolLog) :
             toolLog[m] \in Mutating => \E i \in ids : i >= m
    BY <1>3 DEF Verified
  <2>2. moved.since = step.since /\ moved.proofs = ids /\ moved.at = Len(toolLog)
    BY <1>4
  <2>3. ids \subseteq step.since..Len(toolLog)
    BY <1>2, <1>3, <2>1
  <2> QED
    BY <1>2, <1>3, <2>1, <2>2, <2>3 DEF IsEarned
<1> HIDE DEF moved
<1>7. /\ steps \in Seq(StepRecords) /\ Len(steps) = Len(p.steps)
      /\ DOMAIN steps = 1..Len(p.steps) /\ steps[s] = moved
      /\ \A r \in 1..Len(p.steps) : r # s => steps[r] = p.steps[r]
  BY <1>1, <1>5
<1> HIDE DEF steps
<1> DEFINE allDone == \A r \in DOMAIN steps : steps[r].status \in Done
           allComplete == \A r \in DOMAIN steps : steps[r].status = "completed"
<1> DEFINE ended == IF ~allDone THEN p.status ELSE IF allComplete THEN "completed" ELSE "partial"
<1>8. q = [p EXCEPT !.steps = steps, !.status = ended]
  BY DEF Judged
<1>11. allComplete => allDone
  BY DEF Done
<1> HIDE DEF allDone, allComplete
<1>9. /\ q.steps = steps /\ q.status = ended /\ q \in PlanRecords
  <2>1. ended \in PlanStatus
    BY <1>1 DEF PlanRecords, PlanStatus
  <2> QED
    BY <1>1, <1>7, <1>8, <2>1 DEF PlanRecords
<1>10. p.status = "active" /\ \A r \in 1..(s - 1) : p.steps[r].status \in Done
  BY DEF MayMove
<1> HIDE DEF q, step
<1>12. \A r \in DOMAIN steps : IsEarned(steps[r])
  BY <1>1, <1>6, <1>7 DEF HasEarned
<1>13. ASSUME NEW r \in DOMAIN steps, steps[r].status # "pending", NEW k \in 1..(r - 1)
       PROVE  steps[k].status \in Done
  <2>1. CASE r <= s
    <3>1. k # s /\ k \in 1..(s - 1) /\ k \in 1..Len(p.steps)
      BY <1>1, <1>7, <2>1
    <3> QED
      BY <1>7, <1>10, <3>1
  <2>2. CASE r > s
    <3>1. p.steps[r].status # "pending" /\ s \in 1..(r - 1) /\ r \in DOMAIN p.steps
      BY <1>1, <1>7, <1>13, <2>2
    <3>2. p.steps[s].status \in Done
      BY <1>1, <3>1 DEF HasEarned
    <3> QED
      BY <1>3, <3>2 DEF step
  <2> QED
    BY <1>1, <1>7, <2>1, <2>2
<1>14. PlanIsTerminal(q) <=> allDone
  BY <1>9, <1>10 DEF PlanIsTerminal
<1>15. q.status = "completed" <=> allComplete
  BY <1>9, <1>10, <1>11
<1>16. Len(q.steps) > 0
  BY <1>1, <1>7, <1>9
<1>17. HasEarned(q)
  BY <1>7, <1>9, <1>12, <1>13, <1>14, <1>15, <1>16 DEF HasEarned, allDone, allComplete
<1> QED
  BY <1>9, <1>17 DEF Sound, q, steps, moved, step

\* A write in the form of a queue holds one plan that is active.
LEMMA PlanWriteKeeps ==
    ASSUME NEW ps \in Seq(Sound), toolLog' = toolLog, WriteQueue(ps)
    PROVE  plans' \in Seq(Sound) /\ OnePlanAtATime'
BY QueueForm DEF WriteQueue, OnePlanAtATime

LEMMA MutateKeeps ==
    ASSUME plans \in Seq(Sound), toolLog' = toolLog, NEW i \in DOMAIN plans, NEW p \in Sound,
           Mutate(i, p)
    PROVE  plans' \in Seq(Sound) /\ OnePlanAtATime'
<1>1. [plans EXCEPT ![i] = p] \in Seq(Sound)
  BY ExceptSeq
<1> QED
  BY <1>1, PlanWriteKeeps DEF Mutate

LEMMA SameSound == toolLog' = toolLog => Sound' = Sound
<1>1. ASSUME toolLog' = toolLog, NEW step \in StepRecords PROVE IsEarned(step)' <=> IsEarned(step)
  BY <1>1 DEF IsEarned
<1>2. ASSUME toolLog' = toolLog, NEW p \in PlanRecords PROVE HasEarned(p)' <=> HasEarned(p)
  BY <1>2 DEF HasEarned, IsEarned
<1> QED
  BY <1>2 DEF Sound

LEMMA CreateKeeps ==
    ASSUME PlansInv, NEW id \in PlanNames, NEW n \in 1..MaxPlanSteps, Create(id, n)
    PROVE  PlansInv'
<1>1. /\ WriteQueue(Append(plans, NewPlan(id, n))) /\ planOp' = "finish"
      /\ UNCHANGED <<lockPlans, toolLog, atWork>>
  BY DEF Create, AddPlan, Changing
<1>2. Append(plans, NewPlan(id, n)) \in Seq(Sound)
  BY NewIsSound DEF PlansInv
<1>3. plans' \in Seq(Sound) /\ OnePlanAtATime'
  BY <1>1, <1>2, PlanWriteKeeps
<1> QED
  BY <1>1, <1>3, SameSound DEF PlansInv

LEMMA RebuildKeeps ==
    ASSUME PlansInv, NEW i \in DOMAIN plans, NEW n \in 1..MaxPlanSteps, Rebuild(i, n)
    PROVE  PlansInv'
<1>1. /\ Mutate(i, NewPlan(plans[i].id, n)) /\ planOp' = "finish"
      /\ UNCHANGED <<lockPlans, toolLog, atWork>>
  BY DEF Rebuild, Changing
<1>2. NewPlan(plans[i].id, n) \in Sound
  BY NewIsSound DEF PlansInv, Sound, PlanRecords
<1>3. plans' \in Seq(Sound) /\ OnePlanAtATime'
  BY <1>1, <1>2, MutateKeeps DEF PlansInv
<1> QED
  BY <1>1, <1>3, SameSound DEF PlansInv

LEMMA RemoveKeeps == ASSUME PlansInv, NEW i \in DOMAIN plans, RemovePlan(i) PROVE PlansInv'
<1>1. /\ WriteQueue(RemoveAt(plans, i)) /\ planOp' = "finish"
      /\ UNCHANGED <<lockPlans, toolLog, atWork>>
  BY DEF RemovePlan, Changing
<1>2. RemoveAt(plans, i) \in Seq(Sound)
  <2>1. plans \in Seq(Sound) /\ i \in 1..Len(plans) /\ Len(plans) \in Nat
    BY DEF PlansInv
  <2>2. SubSeq(plans, 1, i - 1) \in Seq(Sound)
    BY <2>1, SubSeqProperties
  <2>3. SubSeq(plans, i + 1, Len(plans)) \in Seq(Sound)
    BY <2>1, SubSeqProperties
  <2> QED
    BY <2>2, <2>3, ConcatProperties DEF RemoveAt
<1>3. plans' \in Seq(Sound) /\ OnePlanAtATime'
  BY <1>1, <1>2, PlanWriteKeeps
<1> QED
  BY <1>1, <1>3, SameSound DEF PlansInv

\* The plan of the older API is one of the session's.
LEMMA CompatibleIsOne ==
    ASSUME PlansInv, plans # <<>> PROVE Compatible \in DOMAIN plans
<1> DEFINE open == {i \in DOMAIN plans : plans[i].status = "active"}
<1>1. plans \in Seq(Sound) /\ Len(plans) \in Nat \ {0} /\ DOMAIN plans = 1..Len(plans)
  BY EmptySeq DEF PlansInv
<1>2. CASE open = {}
  BY <1>1, <1>2 DEF Compatible
<1>3. CASE open # {}
  <2>1. open \in SUBSET Nat /\ IsFiniteSet(open)
    <3>1. open \subseteq 1..Len(plans)
      BY <1>1
    <3>2. IsFiniteSet(1..Len(plans))
      <4>1. 1 \in Int /\ Len(plans) \in Int
        BY <1>1
      <4> QED
        BY <4>1, FS_Interval
    <3> QED
      BY <1>1, <3>1, <3>2, FS_Subset
  <2>2. \E i \in open : \A j \in open : i <= j
    BY <1>3, <2>1, LeastOf
  <2>3. Compatible \in open
    BY <1>3, <2>2 DEF Compatible
  <2> QED
    BY <2>3
<1> QED
  BY <1>2, <1>3

LEMMA PutKeeps ==
    ASSUME PlansInv, NEW n \in 1..MaxPlanSteps, PutPlan(n) PROVE PlansInv'
<1>1. CASE plans = <<>>
  BY <1>1, CreateKeeps DEF PutPlan
<1>2. CASE plans # <<>>
  BY <1>2, CompatibleIsOne, RebuildKeeps DEF PutPlan
<1> QED
  BY <1>1, <1>2

LEMMA ReorderKeeps == ASSUME PlansInv, NEW o \in Orders, Reorder(o) PROVE PlansInv'
<1> DEFINE before  == IF lockPlans THEN plans ELSE InParallel(plans)
           ordered == [i \in DOMAIN plans |-> before[o[i]]]
<1>1. /\ planOp = "user" /\ planOp' = "finish"
      /\ plans' = IF lockPlans THEN InQueue(ordered) ELSE InParallel(ordered)
      /\ UNCHANGED <<lockPlans, toolLog, atWork>>
  BY DEF Reorder, Changing
<1>2. /\ plans \in Seq(Sound) /\ before \in Seq(Sound)
      /\ DOMAIN before = DOMAIN plans /\ DOMAIN plans = 1..Len(plans)
      /\ Len(plans) \in Nat
  BY ParallelForm DEF PlansInv, InParallel
<1>3. ordered \in Seq(Sound)
  <2> HIDE DEF before
  <2>1. \A i \in 1..Len(plans) : o[i] \in 1..Len(plans)
    BY <1>2 DEF Orders
  <2>2. \A i \in 1..Len(plans) : before[o[i]] \in Sound
    BY <1>2, <2>1
  <2>3. ordered \in [1..Len(plans) -> Sound]
    BY <1>2, <2>2
  <2> QED
    BY <1>2, <2>3
<1> HIDE DEF ordered
<1>4. plans' \in Seq(Sound)
  BY <1>1, <1>3, QueueForm, ParallelForm
<1>5. OnePlanAtATime'
  BY <1>1 DEF PlansInv, OnePlanAtATime
<1> QED
  BY <1>1, <1>4, <1>5, SameSound DEF PlansInv

LEMMA UpdateStepKeeps ==
    ASSUME PlansInv, NEW i \in DOMAIN plans, NEW s \in DOMAIN plans[i].steps,
           NEW to \in StepStatus, NEW ids \in SUBSET DOMAIN toolLog,
           UpdateStep(i, s, to, ids)
    PROVE  PlansInv'
<1> DEFINE p == plans[i]
           q == Judged(p, [p.steps EXCEPT ![s] = Moved(p.steps[s], to, ids)])
<1>1. /\ MayMove(p, s) /\ CanMove(p.steps[s], to, ids) /\ Mutate(i, q)
      /\ planOp' = "finish" /\ UNCHANGED <<lockPlans, toolLog, atWork>>
  BY DEF UpdateStep
<1>2. p \in Sound
  BY DEF PlansInv
<1>3. q \in Sound
  BY <1>1, <1>2, MovedIsSound DEF PlansInv
<1> HIDE DEF q
<1>4. plans' \in Seq(Sound) /\ OnePlanAtATime'
  BY <1>1, <1>3, MutateKeeps DEF PlansInv
<1> QED
  BY <1>1, <1>4, SameSound DEF PlansInv

LEMMA PlansInvKept == PlansInv /\ [PlanStepsNext]_planStepVars => PlansInv'
<1> SUFFICES ASSUME PlansInv, [PlanStepsNext]_planStepVars PROVE PlansInv'
  OBVIOUS
\* Steps that leave the file alone.
<1>1. ASSUME UNCHANGED <<plans, lockPlans, toolLog, stale>>, planOp' = "user" => ~atWork',
             \/ ~atWork'
             \/ planOp' = "begin"
             \/ atWork /\ planOp # "begin"
      PROVE  PlansInv'
  <2>1. OnePlanAtATime'
    BY <1>1 DEF PlansInv, OnePlanAtATime, FirstUnfinished
  <2> QED
    BY <1>1, <2>1, SameSound DEF PlansInv
<1>2. CASE UNCHANGED planStepVars
  <2>1. OnePlanAtATime'
    BY <1>2 DEF planStepVars, PlansInv, OnePlanAtATime, FirstUnfinished
  <2> QED
    BY <1>2, <2>1, SameSound DEF planStepVars, PlansInv
<1>3. CASE \/ GiveUpPlans \/ ListPlans \/ StartPlanRun \/ EndPlanRun \/ StopPlans
  <2>1. CASE GiveUpPlans
    BY <1>1, <2>1 DEF GiveUpPlans
  <2>2. CASE ListPlans
    <3>1. UNCHANGED <<plans, lockPlans, toolLog, stale, planOp, atWork>>
      BY <2>2 DEF ListPlans
    <3>2. OnePlanAtATime'
      BY <3>1 DEF PlansInv, OnePlanAtATime, FirstUnfinished
    <3> QED
      BY <3>1, <3>2, SameSound DEF PlansInv
  <2>3. CASE StartPlanRun \/ EndPlanRun \/ StopPlans
    BY <1>1, <2>3 DEF StartPlanRun, EndPlanRun, StopPlans
  <2> QED
    BY <1>3, <2>1, <2>2, <2>3
<1>4. ASSUME NEW lock \in BOOLEAN, Reconcile(lock), UNCHANGED <<lockPlans, toolLog>>,
             planOp' = "user" => ~atWork'
      PROVE  PlansInv'
  BY <1>4, ReconcileKeeps, SameSound DEF PlansInv
<1>5. CASE \/ PreparePlans \/ Finish \/ ListReconciles \/ BeginPlanRun \/ RunReconciles
  <2>1. lockPlans \in BOOLEAN /\ (listing = "locked") \in BOOLEAN
    BY DEF PlansInv
  <2>2. CASE PreparePlans
    BY <1>4, <2>1, <2>2 DEF PreparePlans
  <2>3. CASE Finish \/ BeginPlanRun \/ RunReconciles
    BY <1>4, <2>1, <2>3 DEF Finish, BeginPlanRun, RunReconciles
  <2>4. CASE ListReconciles
    BY <1>4, <2>1, <2>4 DEF ListReconciles, PlansInv
  <2> QED
    BY <1>5, <2>2, <2>3, <2>4
<1>6. ASSUME NEW lock \in BOOLEAN, SetLock(lock) PROVE PlansInv'
  <2>1. /\ lockPlans' \in BOOLEAN /\ ~atWork' /\ planOp' = "finish"
        /\ UNCHANGED <<plans, toolLog>>
    BY <1>6 DEF SetLock
  <2> QED
    BY <2>1, SameSound DEF PlansInv, OnePlanAtATime
<1>7. ASSUME NEW result \in ToolResults, ToolEnds(result) PROVE PlansInv'
  <2>1. /\ toolLog' = Append(toolLog, result) /\ toolLog \in Seq(ToolResults)
        /\ UNCHANGED <<plans, lockPlans, atWork, planOp, stale>>
    BY <1>7 DEF ToolEnds, PlansInv
  <2>2. plans \in Seq(Sound')
    <3>1. Sound \subseteq Sound'
      BY <2>1, EarnedStays
    <3> QED
      BY <3>1 DEF PlansInv
  <2>3. OnePlanAtATime'
    BY <2>1 DEF PlansInv, OnePlanAtATime, FirstUnfinished
  <2> QED
    BY <2>1, <2>2, <2>3 DEF PlansInv
<1>8. CASE UserOperation
  <2>1. ASSUME NEW n \in 1..MaxPlanSteps,
               \/ \E id \in PlanNames : Create(id, n)
               \/ \E i \in DOMAIN plans : Rebuild(i, n)
               \/ PutPlan(n)
        PROVE  PlansInv'
    BY <2>1, CreateKeeps, RebuildKeeps, PutKeeps
  <2>2. CASE DeletePlan
    BY <2>2, CompatibleIsOne, RemoveKeeps DEF DeletePlan
  <2> QED
    BY <1>8, <2>1, <2>2, RemoveKeeps, ReorderKeeps DEF UserOperation
<1>9. CASE \E i \in DOMAIN plans : \E s \in DOMAIN plans[i].steps, to \in StepStatus,
              ids \in SUBSET DOMAIN toolLog : UpdateStep(i, s, to, ids)
  BY <1>9, UpdateStepKeeps
<1> QED
  BY <1>2, <1>3, <1>5, <1>6, <1>7, <1>8, <1>9 DEF PlanStepsNext

-----------------------------------------------------------------------------
(* ContextWindow: what the user sees reaches the model.                    *)

MessageRecords ==
    [type : {"message"}, role : {"user", "assistant", "tool"}, calls : SUBSET (1..CallsPerReply),
     answers : 0..CallsPerReply]
CompactionRecords == [type : {"compaction"}, covers : SUBSET Nat, through : Nat, blank : BOOLEAN]
RetractionRecords == [type : {"retraction"}, from : Nat]
EntryRecords == MessageRecords \cup CompactionRecords \cup RetractionRecords

ItemRecords ==
    [seq : Nat, role : {"user", "assistant", "tool"}, calls : SUBSET (1..CallsPerReply),
     answers : 0..CallsPerReply]
RestRecords == [step : {"none", "look", "model"}]
SummaryRecords == [step : {"summary"}, before : SUBSET Nat, items : Seq(ItemRecords), older : Nat]

ContextShape ==
    /\ entries \in Seq(EntryRecords) /\ Len(entries) <= MaxEntries
    /\ working \in BOOLEAN /\ asked \subseteq 1..CallsPerReply
    /\ reading \in [{"turn", "user"} -> RestRecords \cup SummaryRecords]

Is(i, type) == i \in DOMAIN entries /\ entries[i].type = type
IsTool(i) == Is(i, "message") /\ entries[i].role = "tool"

\* A message first or later is cut by a retraction that finds the message it names.
CutBy(j, m, first) == entries[j].type = "retraction" /\ first <= entries[j].from /\ entries[j].from <= m

Seen(first, i) ==
    {m \in first..i : Is(m, "message") /\ \A j \in m + 1..i : ~CutBy(j, m, first)}

\* What is shown, but for results.
Said == {m \in Seen(1, Len(entries)) : entries[m].role # "tool"}

\* A retraction names a message that is there when it is written.
RetractionsFit ==
    \A j \in DOMAIN entries : Is(j, "retraction") =>
        /\ Is(entries[j].from, "message") /\ entries[j].from < j
        /\ \A h \in entries[j].from + 1..j - 1 : ~CutBy(h, entries[j].from, 1)

\* A summary has all that is shown of what came up to its place.
CompactionsFit ==
    \A c \in DOMAIN entries : Is(c, "compaction") =>
        /\ entries[c].through < c /\ \A m \in entries[c].covers : Is(m, "message")
        /\ ~entries[c].blank => \A m \in Said : m <= entries[c].through => m \in entries[c].covers

\* And so has the one that is about to be written, wherever it will end.
SummaryFits(r) ==
    /\ r.older \in 1..Len(r.items)
    /\ \A m \in r.before : Is(m, "message")
    /\ \A p \in 1..Len(r.items) : Is(r.items[p].seq, "message")
    /\ \A m \in Said, gone \in 1..Len(r.items) :
         m <= r.items[gone].seq => m \in r.before \/ \E q \in 1..gone : r.items[q].seq = m

ReadingFits == \A who \in {"turn", "user"} : reading[who].step = "summary" => SummaryFits(reading[who])

\* Nothing comes between a reply and its results but compactions, and no call
\* has two.
Between(r, i, call) ==
    \A k \in r + 1..i : Is(k, "compaction") \/ (IsTool(k) /\ entries[k].answers # call)
RepliedBy(r, call) == Is(r, "message") /\ ~IsTool(r) /\ call \in entries[r].calls

ResultsFit ==
    \A i \in DOMAIN entries : IsTool(i) =>
        \E r \in 1..i - 1 :
            RepliedBy(r, entries[i].answers) /\ Between(r, i - 1, entries[i].answers)

TurnFits ==
    /\ asked # {} => /\ working /\ reading["turn"].step = "none"
                     /\ \E r \in DOMAIN entries : \A call \in asked :
                          RepliedBy(r, call) /\ Between(r, Len(entries), call)
    /\ reading["turn"].step # "none" => working

ContextInv ==
    /\ ContextShape /\ RetractionsFit /\ CompactionsFit /\ ReadingFits /\ ResultsFit /\ TurnFits

\* What is in order is all of it, and nothing twice.
LEMMA InOrderIs ==
    ASSUME NEW b \in Nat, NEW S \in SUBSET (0..b)
    PROVE  /\ IsFiniteSet(S) /\ Cardinality(S) \in Nat
           /\ InOrder(S) \in [1..Cardinality(S) -> S]
           /\ \A x \in S : \E i \in 1..Cardinality(S) : InOrder(S)[i] = x
<1>1. S \in SUBSET Nat /\ \A s \in S : s <= b
  OBVIOUS
<1>2. IsFiniteSet(S)
  BY <1>1, FS_BoundedSetOfNaturals
<1>3. Cardinality(S) \in Nat
  BY <1>2, FS_CardinalityType
<1> DEFINE n == Cardinality(S)
<1>4. PICK f : Upwards(f, n, S)
  BY SomeUpwards
<1>5. f \in [1..n -> S] /\ \A i, j \in DOMAIN f : i < j => f[i] < f[j]
  BY <1>4 DEF Upwards
<1>6. PICK g : g = InOrder(S)
  OBVIOUS
<1>7. g \in [1..n -> S] /\ \A i, j \in DOMAIN g : i < j => g[i] < g[j]
  BY <1>5, <1>6 DEF InOrder
<1>8. g \in Injection(1..n, S)
  <2>1. ASSUME NEW i \in 1..n, NEW j \in 1..n, g[i] = g[j] PROVE i = j
    <3>1. g[i] \in Nat /\ g[j] \in Nat /\ DOMAIN g = 1..n
      <4> HIDE DEF n
      <4>1. g[i] \in S /\ g[j] \in S /\ DOMAIN g = 1..n
        BY <1>7
      <4> QED
        BY <1>1, <4>1
    <3>2. ~(i < j) /\ ~(j < i)
      BY <1>7, <2>1, <3>1
    <3> QED
      BY <1>3, <3>2
  <2> QED
    BY <1>7, <2>1 DEF Injection, IsInjective
<1>9. g \in Surjection(1..n, S)
  <2>1. IsFiniteSet(1..n) /\ Cardinality(1..n) = n
    BY <1>3, FS_Interval
  <2> HIDE DEF n
  <2>2. Cardinality(S) = n
    BY DEF n
  <2> QED
    BY <1>2, <1>8, <2>1, <2>2, FS_Injection
<1>10. \A x \in S : \E i \in 1..n : g[i] = x
  BY <1>9 DEF Surjection
<1> QED
  BY <1>2, <1>3, <1>6, <1>7, <1>10

-----------------------------------------------------------------------------
(* What is read of the transcript, from a place on.                        *)

Ascends(seen, first, i) ==
    /\ seen \in Seq(1..i)
    /\ \A k, l \in 1..Len(seen) : k < l => seen[k] < seen[l]
    /\ \A k \in 1..Len(seen) : seen[k] \in Seen(first, i)
    /\ \A m \in Seen(first, i) : \E k \in 1..Len(seen) : seen[k] = m

LEMMA NextReadTypes ==
    ASSUME NEW n \in Nat, NEW i \in 1..n, NEW seen \in Seq(1..n)
    PROVE  NextRead(seen, i) \in Seq(1..n)
<1>1. Append(seen, i) \in Seq(1..n)
  BY AppendProperties
<1>2. ASSUME NEW named PROVE CutBack(seen, named) \in Seq(1..n)
  <2>1. CASE named \in Range(seen)
    <3>1. PICK k : k = CHOOSE h \in DOMAIN seen : seen[h] = named
      OBVIOUS
    <3>2. k \in DOMAIN seen
      BY <2>1, <3>1 DEF Range
    <3>3. DOMAIN seen = 1..Len(seen) /\ Len(seen) \in Nat
      BY LenProperties
    <3>4. k - 1 \in 0..Len(seen)
      BY <3>2, <3>3
    <3>5. SubSeq(seen, 1, k - 1) \in Seq(1..n)
      <4>1. 1 \in 1..Len(seen) + 1 /\ k - 1 \in 1 - 1..Len(seen)
        BY <3>3, <3>4
      <4> QED
        BY <4>1, SubSeqProperties
    <3> QED
      BY <2>1, <3>1, <3>5 DEF CutBack
  <2>2. CASE named \notin Range(seen)
    BY <2>2 DEF CutBack
  <2> QED
    BY <2>1, <2>2
<1> QED
  BY <1>1, <1>2 DEF NextRead

LEMMA SeenGrows ==
    ASSUME ContextShape, NEW first \in Nat \ {0}, NEW i \in 1..Len(entries), first <= i
    PROVE  \A m : m \in Seen(first, i) <=> \/ m = i /\ Is(i, "message")
                                           \/ m \in Seen(first, i - 1) /\ ~CutBy(i, m, first)
<1>1. entries \in Seq(EntryRecords) /\ DOMAIN entries = 1..Len(entries) /\ Len(entries) \in Nat
  BY LenProperties DEF ContextShape
<1>2. ASSUME NEW m, m \in Seen(first, i), m # i
      PROVE  m \in Seen(first, i - 1) /\ ~CutBy(i, m, first)
  <2>1. m \in first..i - 1 /\ Is(m, "message") /\ \A j \in m + 1..i : ~CutBy(j, m, first)
    BY <1>1, <1>2 DEF Seen
  <2>2. i \in m + 1..i /\ \A j \in m + 1..i - 1 : j \in m + 1..i
    BY <1>1, <2>1
  <2> QED
    BY <2>1, <2>2 DEF Seen
<1>3. ASSUME NEW m, m = i, m \in Seen(first, i) PROVE Is(i, "message")
  BY <1>3 DEF Seen
<1>4. ASSUME Is(i, "message") PROVE i \in Seen(first, i)
  <2>1. i \in first..i /\ \A j \in i + 1..i : FALSE
    BY <1>1
  <2> QED
    BY <1>4, <2>1 DEF Seen
<1>5. ASSUME NEW m, m \in Seen(first, i - 1), ~CutBy(i, m, first) PROVE m \in Seen(first, i)
  <2>1. m \in first..i - 1 /\ Is(m, "message") /\ \A j \in m + 1..i - 1 : ~CutBy(j, m, first)
    BY <1>5 DEF Seen
  <2>2. \A j \in m + 1..i : j = i \/ j \in m + 1..i - 1
    BY <1>1, <2>1
  <2>3. m \in first..i
    BY <1>1, <2>1
  <2> QED
    BY <1>5, <2>1, <2>2, <2>3 DEF Seen
<1> QED
  BY <1>2, <1>3, <1>4, <1>5

\* A retraction cuts what is read from a place on exactly when the message it
\* names was read.
LEMMA RetractionFinds ==
    ASSUME ContextShape, RetractionsFit, NEW first \in Nat \ {0}, NEW i \in 1..Len(entries),
           first <= i, Is(i, "retraction")
    PROVE  entries[i].from \in Seen(first, i - 1) <=> first <= entries[i].from
<1>1. entries \in Seq(EntryRecords) /\ DOMAIN entries = 1..Len(entries) /\ Len(entries) \in Nat
  BY LenProperties DEF ContextShape
<1> DEFINE f == entries[i].from
<1>2. Is(f, "message") /\ f < i /\ \A h \in f + 1..i - 1 : ~CutBy(h, f, 1)
  BY <1>1 DEF RetractionsFit
<1>3. f \in Nat /\ f >= 1
  BY <1>1, <1>2 DEF Is
<1> HIDE DEF f
<1>4. ASSUME f \in Seen(first, i - 1) PROVE first <= f
  BY <1>4 DEF Seen
<1>5. ASSUME first <= f PROVE f \in Seen(first, i - 1)
  <2>1. f \in first..i - 1
    BY <1>2, <1>3, <1>5
  <2>2. ASSUME NEW h \in f + 1..i - 1 PROVE ~CutBy(h, f, first)
    <3>1. SUFFICES ASSUME CutBy(h, f, first) PROVE FALSE
      OBVIOUS
    <3>2. h \in 1..Len(entries)
      BY <1>1, <1>3
    <3>3. Is(h, "retraction")
      BY <1>1, <3>1, <3>2 DEF CutBy, Is
    <3>4. entries[h].from \in Nat /\ entries[h].from >= 1
      <4>1. Is(entries[h].from, "message")
        BY <1>1, <3>2, <3>3 DEF RetractionsFit
      <4> QED
        BY <1>1, <4>1 DEF Is
    <3>5. CutBy(h, f, 1)
      BY <3>1, <3>4 DEF CutBy
    <3> QED
      BY <1>2, <3>5
  <2> QED
    BY <1>2, <2>1, <2>2 DEF Seen
<1> QED
  BY <1>4, <1>5 DEF f

LEMMA NextReadAscends ==
    ASSUME ContextShape, RetractionsFit, NEW first \in Nat \ {0}, NEW i \in 1..Len(entries),
           first <= i, NEW seen, Ascends(seen, first, i - 1)
    PROVE  Ascends(NextRead(seen, i), first, i)
<1>1. entries \in Seq(EntryRecords) /\ DOMAIN entries = 1..Len(entries) /\ Len(entries) \in Nat
  BY LenProperties DEF ContextShape
<1>2. /\ seen \in Seq(1..i - 1) /\ Len(seen) \in Nat /\ DOMAIN seen = 1..Len(seen)
      /\ \A k \in 1..Len(seen) : seen[k] \in 1..i - 1
  <2>1. seen \in Seq(1..i - 1)
    BY DEF Ascends
  <2>2. Len(seen) \in Nat /\ DOMAIN seen = 1..Len(seen)
    BY <2>1, LenProperties
  <2>3. \A k \in 1..Len(seen) : seen[k] \in 1..i - 1
    BY <2>1, <2>2, ElementOfSeq
  <2> QED
    BY <2>1, <2>2, <2>3
<1>3. seen \in Seq(1..i) /\ i \in Nat
  <2>1. \A k \in 1..Len(seen) : seen[k] \in 1..i
    BY <1>2
  <2>2. seen = [k \in 1..Len(seen) |-> seen[k]]
    BY <1>2
  <2>3. seen \in [1..Len(seen) -> 1..i]
    BY <2>1, <2>2
  <2> QED
    BY <1>2, <2>3, FunctionIsSeq
<1>4. PICK next : next = NextRead(seen, i)
  OBVIOUS
<1>5. \A m : m \in Seen(first, i) <=> \/ m = i /\ Is(i, "message")
                                      \/ m \in Seen(first, i - 1) /\ ~CutBy(i, m, first)
  BY SeenGrows
<1>6. CASE entries[i].type = "message"
  <2>1. next = Append(seen, i)
    BY <1>4, <1>6 DEF NextRead
  <2>2. /\ next \in Seq(1..i) /\ Len(next) = Len(seen) + 1
        /\ \A k \in 1..Len(seen) : next[k] = seen[k]
        /\ next[Len(seen) + 1] = i
    BY <1>3, <2>1, AppendProperties
  <2>3. \A m : m \in Seen(first, i) <=> m = i \/ m \in Seen(first, i - 1)
    BY <1>1, <1>5, <1>6 DEF CutBy, Is
  <2>4. \A k \in 1..Len(next) : k \in 1..Len(seen) \/ k = Len(seen) + 1
    BY <1>2, <2>2
  <2>5. ASSUME NEW k \in 1..Len(next), NEW l \in 1..Len(next), k < l PROVE next[k] < next[l]
    <3>1. k \in 1..Len(seen) /\ next[k] = seen[k]
      BY <1>2, <2>2, <2>5, SMTT(30)
    <3>2. CASE l \in 1..Len(seen)
      BY <2>2, <2>5, <3>1, <3>2 DEF Ascends
    <3>3. CASE l = Len(seen) + 1
      BY <1>2, <2>2, <3>1, <3>3
    <3> QED
      BY <2>4, <3>2, <3>3
  <2>6. \A k \in 1..Len(next) : next[k] \in Seen(first, i)
    BY <2>2, <2>3, <2>4 DEF Ascends
  <2>7. ASSUME NEW m \in Seen(first, i) PROVE \E k \in 1..Len(next) : next[k] = m
    <3>1. CASE m = i
      <4>1. Len(seen) + 1 \in 1..Len(next)
        BY <1>2, <2>2
      <4> QED
        BY <2>2, <3>1, <4>1
    <3>2. CASE m \in Seen(first, i - 1)
      <4>1. PICK k \in 1..Len(seen) : seen[k] = m
        BY <3>2 DEF Ascends
      <4>2. k \in 1..Len(next)
        BY <1>2, <2>2
      <4> QED
        BY <2>2, <4>1, <4>2
    <3> QED
      BY <2>3, <3>1, <3>2
  <2> QED
    BY <1>4, <2>2, <2>5, <2>6, <2>7 DEF Ascends
<1>7. CASE entries[i].type = "retraction"
  <2> DEFINE f == entries[i].from
  <2>1. next = CutBack(seen, f)
    BY <1>4, <1>7 DEF NextRead
  <2>2. Is(i, "retraction")
    BY <1>1, <1>7 DEF Is
  <2>3. f \in Seen(first, i - 1) <=> first <= f
    BY <2>2, RetractionFinds
  <2>4. \A m : m \in Seen(first, i) <=> m \in Seen(first, i - 1) /\ ~(first <= f /\ f <= m)
    BY <1>5, <1>7 DEF CutBy, Is
  <2>5. f \in Range(seen) <=> f \in Seen(first, i - 1)
    BY <1>2 DEF Ascends, Range
  <2> HIDE DEF f
  <2>6. CASE f \in Range(seen)
    <3>1. PICK k : k = CHOOSE h \in DOMAIN seen : seen[h] = f
      OBVIOUS
    <3>2. k \in DOMAIN seen /\ seen[k] = f
      BY <2>6, <3>1 DEF Range
    <3>3. k \in 1..Len(seen)
      BY <1>2, <3>2
    <3>4. next = SubSeq(seen, 1, k - 1)
      BY <2>1, <2>6, <3>1 DEF CutBack
    <3>5. next \in Seq(1..i) /\ Len(next) = k - 1 /\ \A l \in 1..k - 1 : next[l] = seen[l]
      <4>1. 1 \in 1..Len(seen) + 1 /\ k - 1 \in 1 - 1..Len(seen)
        BY <1>2, <3>3
      <4>2. /\ SubSeq(seen, 1, k - 1) \in Seq(1..i)
            /\ Len(SubSeq(seen, 1, k - 1)) = IF 1 <= k - 1 THEN k - 1 - 1 + 1 ELSE 0
            /\ \A l \in 1..k - 1 - 1 + 1 : SubSeq(seen, 1, k - 1)[l] = seen[1 + l - 1]
        BY <1>3, <4>1, SubSeqProperties, SMTT(30)
      <4>3. \A l \in 1..k - 1 : l \in 1..k - 1 - 1 + 1 /\ 1 + l - 1 = l
        BY <3>3
      <4> QED
        BY <3>3, <3>4, <4>2, <4>3
    <3>6. ASSUME NEW l \in 1..Len(seen) PROVE l < k <=> seen[l] < f
      <4>1. l < k => seen[l] < f
        BY <3>2, <3>3 DEF Ascends
      <4>2. k < l => f < seen[l]
        BY <3>2, <3>3 DEF Ascends
      <4>3. seen[l] \in Nat /\ f \in Nat /\ l \in Nat /\ k \in Nat
        BY <1>2, <3>2, <3>3
      <4>4. l = k => seen[l] = f
        BY <3>2
      <4> QED
        BY <4>1, <4>2, <4>3, <4>4
    <3>7. \A m : m \in Seen(first, i) <=> m \in Seen(first, i - 1) /\ m < f
      <4>1. first <= f
        BY <2>3, <2>5, <2>6
      <4>2. \A m \in Seen(first, i - 1) : m \in Nat /\ f \in Nat
        BY <1>2, <3>2, <3>3 DEF Seen
      <4>3. \A m \in Seen(first, i - 1) : m < f <=> ~(f <= m)
        BY <4>2
      <4> QED
        BY <2>4, <4>1, <4>3
    <3>8. \A l \in 1..Len(next) : l \in 1..Len(seen) /\ l < k /\ next[l] = seen[l]
      BY <1>2, <3>3, <3>5, SMTT(30)
    <3>9. \A l, h \in 1..Len(next) : l < h => next[l] < next[h]
      BY <3>8 DEF Ascends
    <3>10. \A l \in 1..Len(next) : next[l] \in Seen(first, i)
      BY <3>6, <3>7, <3>8 DEF Ascends
    <3>11. ASSUME NEW m \in Seen(first, i) PROVE \E l \in 1..Len(next) : next[l] = m
      <4>1. PICK l \in 1..Len(seen) : seen[l] = m
        BY <3>7 DEF Ascends
      <4>2. l < k
        BY <3>6, <3>7, <4>1
      <4>3. l \in 1..k - 1
        BY <3>3, <4>2
      <4> QED
        BY <3>5, <4>1, <4>3
    <3> QED
      BY <1>4, <3>5, <3>9, <3>10, <3>11 DEF Ascends
  <2>7. CASE f \notin Range(seen)
    <3>1. next = seen
      BY <2>1, <2>7 DEF CutBack
    <3>2. \A m : m \in Seen(first, i) <=> m \in Seen(first, i - 1)
      BY <2>3, <2>4, <2>5, <2>7
    <3> QED
      BY <1>3, <1>4, <3>1, <3>2 DEF Ascends
  <2> QED
    BY <2>6, <2>7
<1>8. CASE ~(entries[i].type = "message") /\ ~(entries[i].type = "retraction")
  <2>1. next = seen
    BY <1>4, <1>8 DEF NextRead
  <2>2. \A m : m \in Seen(first, i) <=> m \in Seen(first, i - 1)
    BY <1>5, <1>8 DEF CutBy, Is
  <2> QED
    BY <1>3, <1>4, <2>1, <2>2 DEF Ascends
<1> QED
  BY <1>6, <1>7, <1>8

LEMMA ReadFromIs ==
    ASSUME ContextShape, RetractionsFit, NEW first \in Nat \ {0}
    PROVE  Ascends(ReadFrom(first), first, Len(entries))
<1>1. entries \in Seq(EntryRecords) /\ DOMAIN entries = 1..Len(entries) /\ Len(entries) \in Nat
  BY LenProperties DEF ContextShape
<1> DEFINE n == Len(entries)
           T == Seq(1..n)
           g == [x \in ((0 + 1)..n) \X T |-> IF x[1] < first THEN <<>> ELSE NextRead(x[2], x[1])]
           IsRead(f) == f = [i \in 0..n |-> IF i < first THEN <<>> ELSE NextRead(f[i - 1], i)]
<1>2. StepsOn(g, T, 0, n) /\ <<>> \in T
  <2>1. ASSUME NEW x \in ((0 + 1)..n) \X T
        PROVE  (IF x[1] < first THEN <<>> ELSE NextRead(x[2], x[1])) \in T
    <3>1. x[1] \in 1..n /\ x[2] \in Seq(1..n) /\ n \in Nat
      BY <1>1
    <3>2. NextRead(x[2], x[1]) \in T
      BY <3>1, NextReadTypes
    <3>3. <<>> \in T
      OBVIOUS
    <3> HIDE DEF T
    <3> QED
      BY <3>2, <3>3
  <2> QED
    BY <1>1, <2>1 DEF StepsOn
<1>3. PICK e : FollowsFrom(e, g, <<>>, T, 0, n)
  <2> HIDE DEF g, T
  <2> QED
    BY <1>2, Recursion
<1>4. IsRead(e)
  <2>1. e \in [0..n -> T] /\ e[0] = <<>>
    BY <1>3 DEF FollowsFrom
  <2>2. ASSUME NEW i \in 0..n PROVE e[i] = IF i < first THEN <<>> ELSE NextRead(e[i - 1], i)
    <3>1. CASE i = 0
      BY <2>1, <3>1
    <3>2. CASE i # 0
      <4>1. i \in (0 + 1)..n /\ i - 1 \in 0..n
        BY <1>1, <3>2
      <4>2. e[i] = g[<<i, e[i - 1]>>]
        BY <1>3, <4>1 DEF FollowsFrom
      <4>3. <<i, e[i - 1]>> \in ((0 + 1)..n) \X T
        BY <2>1, <4>1
      <4> QED
        BY <4>2, <4>3
    <3> QED
      BY <3>1, <3>2
  <2> QED
    BY <2>1, <2>2
<1>5. PICK f : f = CHOOSE h : IsRead(h)
  OBVIOUS
<1>6. IsRead(f)
  <2> HIDE DEF IsRead
  <2> QED
    BY <1>4, <1>5
<1>7. ReadFrom(first) = f[n]
  BY <1>5 DEF ReadFrom
<1>8. \A i \in 0..n : f[i] = IF i < first THEN <<>> ELSE NextRead(f[i - 1], i)
  BY <1>6
<1> HIDE DEF g, T, IsRead
<1> DEFINE N == {i \in 0..n : Ascends(f[i], first, i)}
<1>9. ASSUME NEW i \in 0..n, i < first PROVE i \in N
  <2>1. f[i] = <<>>
    BY <1>8, <1>9
  <2>2. Seen(first, i) = {}
    BY <1>1, <1>9 DEF Seen
  <2>3. PICK none : none = f[i] /\ none \in Seq(1..i) /\ Len(none) = 0 /\ 1..Len(none) = {}
    <3>1. <<>> \in Seq(1..i) /\ Len(<<>>) = 0 /\ 1..0 = {}
      OBVIOUS
    <3>2. PICK none : none = <<>>
      OBVIOUS
    <3> QED
      BY <2>1, <3>1, <3>2
  <2>4. Ascends(none, first, i)
    BY <2>2, <2>3 DEF Ascends
  <2> QED
    BY <2>3, <2>4
<1>10. ASSUME NEW i \in 0..n, i \in N, i < n PROVE i + 1 \in N
  <2>1. PICK k : k = i + 1 /\ k \in 1..n /\ k - 1 = i /\ k \in 0..n
    BY <1>1, <1>10
  <2>2. CASE k < first
    BY <1>9, <2>1, <2>2
  <2>3. CASE ~(k < first)
    <3>1. f[k] = NextRead(f[i], k)
      BY <1>8, <2>1, <2>3
    <3>2. Ascends(f[i], first, k - 1) /\ first <= k /\ k \in 1..Len(entries)
      BY <1>1, <1>10, <2>1, <2>3
    <3>3. Ascends(f[k], first, k)
      BY <3>1, <3>2, NextReadAscends
    <3> QED
      BY <2>1, <3>3
  <2> QED
    BY <2>2, <2>3
<1>11. \A i \in 0..n : i \in N
  <2>1. 0 \in N /\ n \in Nat /\ 0 \in Nat
    BY <1>1, <1>9
  <2> HIDE DEF N, n
  <2> QED
    BY <1>10, <2>1, Climbing
<1>12. n \in 0..n
  BY <1>1
<1> QED
  BY <1>7, <1>11, <1>12

-----------------------------------------------------------------------------
(* What the repair keeps: everything that is not a result, in its order,   *)
(* and the first result of each call.                                      *)

Sorted(items) == \A k, l \in 1..Len(items) : k < l => items[k].seq < items[l].seq

LEMMA FirstResultsAre ==
    ASSUME NEW items \in Seq(ItemRecords), NEW k \in 1..Len(items)
    PROVE  /\ FirstResults(items, k) \subseteq Follows(items, k)
           /\ Follows(items, k) \subseteq 1..Len(items)
           /\ \A n \in Follows(items, k) :
                /\ items[n].answers \in items[k].calls
                /\ \A l \in ResultsOf(items, k, items[n].answers) : n <= l
                => n \in FirstResults(items, k)
<1>1. Len(items) \in Nat
  BY LenProperties
<1>2. Follows(items, k) \subseteq 1..Len(items)
  BY <1>1 DEF Follows
<1>3. ASSUME NEW call, ResultsOf(items, k, call) # {}
      PROVE  /\ Min(ResultsOf(items, k, call)) \in ResultsOf(items, k, call)
             /\ \A x \in ResultsOf(items, k, call) : Min(ResultsOf(items, k, call)) <= x
  <2>1. ResultsOf(items, k, call) \subseteq Nat
    BY <1>2 DEF ResultsOf
  <2> QED
    BY <1>3, <2>1, MinIs
<1>4. FirstResults(items, k) \subseteq Follows(items, k)
  <2>1. ASSUME NEW call \in items[k].calls \ Unanswered(items, k)
        PROVE  Min(ResultsOf(items, k, call)) \in Follows(items, k)
    <3>1. ResultsOf(items, k, call) # {}
      BY <2>1 DEF Unanswered
    <3>2. Min(ResultsOf(items, k, call)) \in ResultsOf(items, k, call)
      BY <1>3, <3>1
    <3> QED
      BY <3>2 DEF ResultsOf
  <2> QED
    BY <2>1 DEF FirstResults
<1>5. ASSUME NEW n \in Follows(items, k), items[n].answers \in items[k].calls,
             \A l \in ResultsOf(items, k, items[n].answers) : n <= l
      PROVE  n \in FirstResults(items, k)
  <2>1. PICK call : call = items[n].answers
    OBVIOUS
  <2>2. n \in ResultsOf(items, k, call)
    BY <2>1 DEF ResultsOf
  <2>3. PICK least : least = Min(ResultsOf(items, k, call))
    OBVIOUS
  <2>4. least \in ResultsOf(items, k, call) /\ least <= n
    BY <1>3, <2>2, <2>3
  <2>5. n <= least /\ n \in Nat /\ least \in Nat
    BY <1>2, <1>5, <2>1, <2>4 DEF ResultsOf
  <2>6. call \in items[k].calls \ Unanswered(items, k)
    BY <1>5, <2>1, <2>2 DEF Unanswered
  <2> QED
    BY <2>3, <2>4, <2>5, <2>6 DEF FirstResults
<1> QED
  BY <1>2, <1>4, <1>5

\* A reply's group: the reply, then results of its own and made-up ones.
GroupFits(items, k, group) ==
    /\ Len(group) >= 1 /\ group[1] = items[k]
    /\ \A q \in 1..Len(group) :
         group[q].seq = items[k].seq \/ \E r \in Follows(items, k) : group[q] = items[r]
    /\ \A r \in FirstResults(items, k) : \E q \in 1..Len(group) : group[q] = items[r]

LEMMA GroupIs ==
    ASSUME ContextAssumption, NEW items \in Seq(ItemRecords), NEW k \in 1..Len(items)
    PROVE  /\ Group(items, k) \in Seq(ItemRecords)
           /\ items[k].role = "tool" => Group(items, k) = <<>>
           /\ items[k].role # "tool" => GroupFits(items, k, Group(items, k))
<1>1. CASE items[k].role = "tool"
  <2>1. Group(items, k) = <<>>
    BY <1>1 DEF Group
  <2> QED
    BY <1>1, <2>1
<1>2. CASE items[k].role # "tool"
  <2>1. Len(items) \in Nat /\ items[k] \in ItemRecords
    BY LenProperties, ElementOfSeq
  <2>2. PICK first : first = FirstResults(items, k)
    OBVIOUS
  <2>3. PICK open : open = Unanswered(items, k)
    OBVIOUS
  <2>4. first \subseteq Follows(items, k) /\ first \in SUBSET (0..Len(items))
    BY <2>2, FirstResultsAre
  <2>5. open \in SUBSET (0..CallsPerReply) /\ CallsPerReply \in Nat
    <3>1. items[k].calls \subseteq 1..CallsPerReply
      BY <2>1 DEF ItemRecords
    <3> QED
      BY <2>3, <3>1 DEF Unanswered, ContextAssumption
  <2>6. PICK f : f = InOrder(first)
    OBVIOUS
  <2>7. PICK h : h = InOrder(open)
    OBVIOUS
  <2>8. PICK a : a = Cardinality(first)
    OBVIOUS
  <2>9. PICK b : b = Cardinality(open)
    OBVIOUS
  <2>10. a \in Nat /\ f \in [1..a -> first] /\ \A x \in first : \E i \in 1..a : f[i] = x
    BY <2>1, <2>4, <2>6, <2>8, InOrderIs
  <2>11. b \in Nat /\ h \in [1..b -> open]
    BY <2>5, <2>7, <2>9, InOrderIs
  <2> DEFINE A == [n \in 1..a |-> items[f[n]]]
             B == [n \in 1..b |-> MadeUp(items[k], h[n])]
  <2>12. A \in [1..a -> ItemRecords]
    <3>1. ASSUME NEW n \in 1..a PROVE items[f[n]] \in ItemRecords
      <4>1. f[n] \in 1..Len(items)
        BY <2>4, <2>10, FirstResultsAre
      <4> QED
        BY <4>1, ElementOfSeq
    <3> QED
      BY <3>1
  <2>13. B \in [1..b -> ItemRecords]
    <3>1. ASSUME NEW n \in 1..b PROVE MadeUp(items[k], h[n]) \in ItemRecords
      <4>1. h[n] \in 0..CallsPerReply /\ items[k].seq \in Nat
        BY <2>1, <2>5, <2>11 DEF ItemRecords
      <4> QED
        BY <4>1 DEF MadeUp, ItemRecords
    <3> QED
      BY <3>1
  <2>14. A \in Seq(ItemRecords) /\ Len(A) = a /\ B \in Seq(ItemRecords) /\ Len(B) = b
    <3> HIDE DEF A, B
    <3> QED
      BY <2>10, <2>11, <2>12, <2>13, FunctionIsSeq
  <2>15. \A n \in 1..a : A[n] = items[f[n]]
    OBVIOUS
  <2>16. \A n \in 1..b : B[n].seq = items[k].seq
    BY DEF MadeUp
  <2>17. Group(items, k) = <<items[k]>> \o A \o B
    BY <1>2, <2>2, <2>3, <2>6, <2>7, <2>8, <2>9 DEF Group
  <2> HIDE DEF A, B
  <2>18. PICK o : o = <<items[k]>>
    OBVIOUS
  <2>19. o \in Seq(ItemRecords) /\ Len(o) = 1 /\ o[1] = items[k]
    BY <2>1, <2>18
  <2>20. PICK u : u = o \o A
    OBVIOUS
  <2>21. /\ u \in Seq(ItemRecords) /\ Len(u) = 1 + a
         /\ \A i \in 1..1 + a : u[i] = IF i <= 1 THEN o[i] ELSE A[i - 1]
    <3>1. /\ o \o A \in Seq(ItemRecords) /\ Len(o \o A) = Len(o) + Len(A)
          /\ \A i \in 1..Len(o) + Len(A) : (o \o A)[i] = IF i <= Len(o) THEN o[i] ELSE A[i - Len(o)]
      BY <2>14, <2>19, ConcatProperties
    <3> QED
      BY <2>14, <2>19, <2>20, <3>1
  <2>22. PICK group : group = u \o B
    OBVIOUS
  <2>23. /\ group \in Seq(ItemRecords) /\ Len(group) = 1 + a + b
         /\ \A i \in 1..1 + a + b : group[i] = IF i <= 1 + a THEN u[i] ELSE B[i - (1 + a)]
    <3>1. /\ u \o B \in Seq(ItemRecords) /\ Len(u \o B) = Len(u) + Len(B)
          /\ \A i \in 1..Len(u) + Len(B) : (u \o B)[i] = IF i <= Len(u) THEN u[i] ELSE B[i - Len(u)]
      BY <2>14, <2>21, ConcatProperties
    <3> QED
      BY <2>14, <2>21, <2>22, <3>1
  <2>24. Group(items, k) = group
    BY <2>17, <2>18, <2>20, <2>22
  <2>25. Len(group) >= 1 /\ group[1] = items[k]
    <3>1. 1 \in 1..1 + a + b /\ 1 \in 1..1 + a /\ 1 <= 1 + a /\ 1 + a + b >= 1
      BY <2>10, <2>11
    <3> QED
      BY <2>19, <2>21, <2>23, <3>1
  <2>26. ASSUME NEW n \in 1..a PROVE n + 1 \in 1..Len(group) /\ group[n + 1] = A[n]
    <3>1. PICK i : i = n + 1
      OBVIOUS
    <3>2. i \in 1..1 + a + b /\ i \in 1..1 + a /\ i <= 1 + a /\ ~(i <= 1) /\ i - 1 = n
      BY <2>10, <2>11, <3>1
    <3>3. group[i] = A[n]
      BY <2>21, <2>23, <3>2
    <3> QED
      BY <2>23, <3>1, <3>2, <3>3
  <2>27. ASSUME NEW q \in 1..Len(group)
         PROVE  group[q].seq = items[k].seq \/ \E r \in Follows(items, k) : group[q] = items[r]
    <3>1. CASE q = 1
      BY <2>25, <3>1
    <3>2. CASE q # 1 /\ q <= 1 + a
      <4>1. q - 1 \in 1..a /\ q - 1 + 1 = q
        BY <2>10, <3>2
      <4>2. PICK n \in 1..a : n + 1 = q
        BY <4>1
      <4>3. group[q] = items[f[n]] /\ f[n] \in Follows(items, k)
        BY <2>4, <2>10, <2>15, <2>26, <4>2
      <4> QED
        BY <4>3
    <3>3. CASE ~(q <= 1 + a)
      <4>1. q \in 1..1 + a + b /\ q - (1 + a) \in 1..b
        BY <2>10, <2>11, <2>23, <3>3
      <4>2. group[q] = B[q - (1 + a)]
        BY <2>23, <3>3, <4>1
      <4> QED
        BY <2>16, <4>1, <4>2
    <3> QED
      BY <3>1, <3>2, <3>3
  <2>28. ASSUME NEW r \in FirstResults(items, k) PROVE \E q \in 1..Len(group) : group[q] = items[r]
    <3>1. PICK n \in 1..a : f[n] = r
      BY <2>2, <2>10
    <3> QED
      BY <2>15, <2>26, <3>1
  <2>29. GroupFits(items, k, group)
    BY <2>25, <2>27, <2>28 DEF GroupFits
  <2> QED
    BY <1>2, <2>23, <2>24, <2>29
<1> QED
  BY <1>1, <1>2

LEMMA EndsClimb ==
    ASSUME NEW n \in Nat, NEW parts, NEW at, EndsAt(at, parts, n),
           \A k \in 1..n : Len(parts[k]) \in Nat
    PROVE  \A k \in 0..n : \A l \in k..n : at[k] <= at[l]
<1> TAKE k \in 0..n
<1> DEFINE S == {l \in k..n : at[k] <= at[l]}
<1>1. at \in [0..n -> Nat]
  BY DEF EndsAt
<1>2. k \in S
  BY <1>1
<1>3. ASSUME NEW l \in k..n, l \in S, l < n PROVE l + 1 \in S
  <2>1. PICK m : m = l + 1 /\ m \in k..n /\ m \in 1..n /\ m - 1 = l /\ l \in 0..n /\ m \in 0..n
    BY <1>3
  <2>2. at[m] = at[l] + Len(parts[m]) /\ Len(parts[m]) \in Nat
    BY <2>1 DEF EndsAt
  <2>3. at[k] \in Nat /\ at[l] \in Nat /\ at[k] <= at[l]
    BY <1>1, <1>3, <2>1
  <2>4. at[k] <= at[m]
    BY <2>2, <2>3
  <2> QED
    BY <2>1, <2>4
<1>4. k \in Nat
  OBVIOUS
<1> HIDE DEF S
<1>5. \A l \in k..n : l \in S
  BY <1>2, <1>3, <1>4, Climbing
<1> QED
  BY <1>5 DEF S

\* What the repair of items gives.
RepairFits(items, given) ==
    /\ given \in Seq(ItemRecords)
    /\ \A p \in 1..Len(given) : \E k \in 1..Len(items) : given[p].seq = items[k].seq
    /\ \A k \in 1..Len(items) : items[k].role # "tool" =>
         \E p \in 1..Len(given) :
            /\ given[p].seq = items[k].seq
            /\ \A q \in 1..Len(given) : items[k].seq <= given[q].seq => p <= q
    /\ \A k \in 1..Len(items) : items[k].role # "tool" =>
         \A r \in FirstResults(items, k) : \E p \in 1..Len(given) : given[p].seq = items[r].seq

LEMMA RepairedIs ==
    ASSUME ContextAssumption, NEW items \in Seq(ItemRecords), Sorted(items)
    PROVE  RepairFits(items, Repaired(items))
<1>1. Len(items) \in Nat /\ DOMAIN items = 1..Len(items)
  BY LenProperties
<1>2. PICK n : n = Len(items)
  OBVIOUS
<1> DEFINE parts == [k \in 1..n |-> Group(items, k)]
<1>3. parts \in [1..n -> Seq(ItemRecords)]
  BY <1>2, GroupIs
<1>4. Repaired(items) = FlattenSeq(parts)
  BY <1>1, <1>2 DEF Repaired
<1>5. \A k \in 1..n : parts[k] = Group(items, k) /\ Len(parts[k]) \in Nat
  <2>1. \A k \in 1..n : parts[k] = Group(items, k)
    OBVIOUS
  <2>2. \A k \in 1..n : parts[k] \in Seq(ItemRecords)
    BY <1>3
  <2> HIDE DEF parts
  <2>3. \A k \in 1..n : Len(parts[k]) \in Nat
    BY <2>2, LenProperties
  <2> QED
    BY <2>1, <2>3
<1> HIDE DEF parts
<1>6. PICK given : given = FlattenSeq(parts)
  OBVIOUS
<1>7. given \in Seq(ItemRecords) /\ \E at : EndsAt(at, parts, n) /\ HoldsParts(given, at, parts, n)
  BY <1>1, <1>2, <1>3, <1>6, FlattenIs
<1>8. PICK at : EndsAt(at, parts, n) /\ HoldsParts(given, at, parts, n)
  BY <1>7
<1>9. \A k \in 0..n : \A l \in k..n : at[k] <= at[l]
  BY <1>1, <1>2, <1>5, <1>8, EndsClimb
<1>10. Len(given) = at[n] /\ at \in [0..n -> Nat] /\ n \in Nat
  BY <1>1, <1>2, <1>8 DEF HoldsParts, EndsAt
\* A message that goes on stands at the start of its group.
<1>11. ASSUME NEW k \in 1..n, items[k].role # "tool"
       PROVE  /\ GroupFits(items, k, parts[k])
              /\ at[k - 1] + 1 \in 1..Len(given) /\ given[at[k - 1] + 1] = items[k]
  <2>1. GroupFits(items, k, parts[k])
    BY <1>2, <1>5, <1>11, GroupIs
  <2>2. 1 \in 1..Len(parts[k]) /\ parts[k][1] = items[k]
    BY <1>5, <2>1 DEF GroupFits
  <2>3. at[k - 1] + 1 \in 1..at[n] /\ given[at[k - 1] + 1] = parts[k][1]
    BY <1>8, <2>2 DEF HoldsParts
  <2> QED
    BY <1>10, <2>1, <2>2, <2>3
\* Each place is in the group of a message that goes on.
<1>12. ASSUME NEW p \in 1..Len(given)
       PROVE  \E k \in 1..n : \E j \in 1..Len(parts[k]) :
                /\ items[k].role # "tool" /\ p = at[k - 1] + j /\ given[p] = parts[k][j]
  <2>0. PICK k \in 1..n : \E j \in 1..Len(parts[k]) : p = at[k - 1] + j
    BY <1>8, <1>10 DEF HoldsParts
  <2>1. PICK j \in 1..Len(parts[k]) : p = at[k - 1] + j
    BY <2>0
  <2>2. j \in Nat /\ given[p] = parts[k][j]
    <3>1. j \in Nat
      OBVIOUS
    <3> QED
      BY <1>8, <2>1, <3>1 DEF HoldsParts
  <2>3. items[k].role # "tool"
    <3>1. SUFFICES ASSUME items[k].role = "tool" PROVE FALSE
      OBVIOUS
    <3>2. parts[k] = <<>>
      BY <1>2, <1>5, <3>1, GroupIs
    <3>3. Len(parts[k]) = 0
      BY <3>2
    <3> QED
      BY <3>3
  <2> QED
    BY <2>1, <2>2, <2>3
<1>13. ASSUME NEW p \in 1..Len(given)
       PROVE  \E k \in 1..Len(items) : given[p].seq = items[k].seq
  <2>0. PICK k \in 1..n : \E j \in 1..Len(parts[k]) :
          items[k].role # "tool" /\ p = at[k - 1] + j /\ given[p] = parts[k][j]
    BY <1>12
  <2>1. PICK j \in 1..Len(parts[k]) :
          items[k].role # "tool" /\ p = at[k - 1] + j /\ given[p] = parts[k][j]
    BY <2>0
  <2>2. GroupFits(items, k, parts[k])
    BY <1>11, <2>1
  <2>3. given[p].seq = items[k].seq \/ \E r \in Follows(items, k) : given[p] = items[r]
    BY <2>1, <2>2 DEF GroupFits
  <2>4. Follows(items, k) \subseteq 1..Len(items) /\ k \in 1..Len(items)
    BY <1>2, FirstResultsAre
  <2> QED
    BY <2>3, <2>4
<1>14. ASSUME NEW k \in 1..n, items[k].role # "tool",
              NEW q \in 1..Len(given), items[k].seq <= given[q].seq
       PROVE  at[k - 1] + 1 <= q
  <2>0. PICK l \in 1..n : \E j \in 1..Len(parts[l]) :
          items[l].role # "tool" /\ q = at[l - 1] + j /\ given[q] = parts[l][j]
    BY <1>12
  <2>1. PICK j \in 1..Len(parts[l]) :
          items[l].role # "tool" /\ q = at[l - 1] + j /\ given[q] = parts[l][j]
    BY <2>0
  <2>2. CASE k <= l
    <3>1. k - 1 \in 0..n /\ l - 1 \in k - 1..n /\ l - 1 \in 0..n
      BY <1>10, <2>2
    <3>2. at[k - 1] <= at[l - 1] /\ at[k - 1] \in Nat /\ at[l - 1] \in Nat
      BY <1>9, <1>10, <3>1
    <3>3. j \in Nat /\ j >= 1
      OBVIOUS
    <3> QED
      BY <2>1, <3>2, <3>3, SMTT(30)
  <2>3. CASE ~(k <= l)
    <3>1. l < k /\ k \in 1..Len(items) /\ l \in 1..Len(items)
      BY <1>2, <1>10, <2>3
    <3>2. \A i \in 1..Len(items) : items[i] \in ItemRecords /\ items[i].seq \in Nat
      <4>1. \A i \in 1..Len(items) : items[i] \in ItemRecords
        BY ElementOfSeq
      <4> QED
        BY <4>1 DEF ItemRecords
    <3>3. items[l].seq < items[k].seq
      BY <3>1 DEF Sorted
    <3>4. ASSUME NEW r \in Follows(items, l) PROVE items[r].seq < items[k].seq
      <4>1. r \in 1..Len(items) /\ \A i \in l + 1..r : items[i].role = "tool"
        BY <1>1 DEF Follows
      <4>2. ~(k <= r)
        BY <1>14, <3>1, <4>1
      <4>3. r < k
        BY <3>1, <4>1, <4>2
      <4> QED
        BY <3>1, <4>1, <4>3 DEF Sorted
    <3>5. GroupFits(items, l, parts[l])
      BY <1>11, <2>1
    <3>6. given[q].seq = items[l].seq \/ \E r \in Follows(items, l) : given[q] = items[r]
      BY <2>1, <3>5 DEF GroupFits
    <3>7. given[q].seq < items[k].seq
      BY <3>3, <3>4, <3>6
    <3>8. given[q].seq \in Nat
      <4>1. given[q] \in ItemRecords
        BY <1>7, ElementOfSeq
      <4> QED
        BY <4>1 DEF ItemRecords
    <3> QED
      BY <1>14, <3>1, <3>2, <3>7, <3>8
  <2> QED
    BY <2>2, <2>3
<1>15. ASSUME NEW k \in 1..n, items[k].role # "tool", NEW r \in FirstResults(items, k)
       PROVE  \E p \in 1..Len(given) : given[p].seq = items[r].seq
  <2>1. PICK j \in 1..Len(parts[k]) : parts[k][j] = items[r]
    BY <1>11, <1>15 DEF GroupFits
  <2>2. at[k - 1] + j \in 1..at[n] /\ given[at[k - 1] + j] = parts[k][j]
    <3>1. j \in Nat
      OBVIOUS
    <3> QED
      BY <1>8, <3>1 DEF HoldsParts
  <2>3. PICK p : p = at[k - 1] + j
    OBVIOUS
  <2>4. p \in 1..Len(given) /\ given[p] = items[r]
    BY <1>10, <2>1, <2>2, <2>3
  <2> QED
    BY <2>4
<1>16. RepairFits(items, given)
  <2>1. ASSUME NEW k \in 1..Len(items), items[k].role # "tool"
        PROVE  \E p \in 1..Len(given) :
                  /\ given[p].seq = items[k].seq
                  /\ \A q \in 1..Len(given) : items[k].seq <= given[q].seq => p <= q
    <3>1. k \in 1..n
      BY <1>2
    <3>2. PICK p : p = at[k - 1] + 1
      OBVIOUS
    <3>3. p \in 1..Len(given) /\ given[p] = items[k]
      BY <1>11, <2>1, <3>1, <3>2
    <3>4. \A q \in 1..Len(given) : items[k].seq <= given[q].seq => p <= q
      BY <1>14, <2>1, <3>1, <3>2
    <3> QED
      BY <3>3, <3>4
  <2>2. \A k \in 1..Len(items) : items[k].role # "tool" =>
          \A r \in FirstResults(items, k) : \E p \in 1..Len(given) : given[p].seq = items[r].seq
    BY <1>2, <1>15
  <2> QED
    BY <1>7, <1>13, <2>1, <2>2 DEF RepairFits
<1> QED
  BY <1>4, <1>6, <1>16

-----------------------------------------------------------------------------
(* The window of a turn, the compaction in force, and the older part.      *)

LEMMA EntriesAre ==
    ASSUME ContextShape
    PROVE  /\ entries \in Seq(EntryRecords) /\ DOMAIN entries = 1..Len(entries) /\ Len(entries) \in Nat
           /\ \A i \in 1..Len(entries) : entries[i] \in EntryRecords
           /\ \A i : Is(i, "message") => i \in 1..Len(entries) /\ entries[i] \in MessageRecords
           /\ \A i : Is(i, "compaction") => i \in 1..Len(entries) /\ entries[i] \in CompactionRecords
           /\ \A i : Is(i, "retraction") => i \in 1..Len(entries) /\ entries[i] \in RetractionRecords
<1>1. entries \in Seq(EntryRecords) /\ DOMAIN entries = 1..Len(entries) /\ Len(entries) \in Nat
  BY LenProperties DEF ContextShape
<1>2. \A i \in 1..Len(entries) : entries[i] \in EntryRecords
  BY <1>1, ElementOfSeq
<1>3. ASSUME NEW e \in EntryRecords
      PROVE  /\ e.type = "message" => e \in MessageRecords
             /\ e.type = "compaction" => e \in CompactionRecords
             /\ e.type = "retraction" => e \in RetractionRecords
  BY DEF EntryRecords, MessageRecords, CompactionRecords, RetractionRecords
<1> QED
  BY <1>1, <1>2, <1>3 DEF Is

\* The window has every message read that is no result, in its order, and the
\* first result of each call, and nothing that was not read.
WindowFits(given, first) ==
    /\ given \in Seq(ItemRecords)
    /\ \A p \in 1..Len(given) : given[p].seq \in Seen(first, Len(entries))
    /\ \A m \in Seen(first, Len(entries)) : entries[m].role # "tool" =>
         \E p \in 1..Len(given) :
            given[p].seq = m /\ \A q \in 1..Len(given) : m <= given[q].seq => p <= q
    /\ \A r, i \in Seen(first, Len(entries)) :
         r < i /\ IsTool(i) /\ RepliedBy(r, entries[i].answers) /\ Between(r, i - 1, entries[i].answers)
         => \E p \in 1..Len(given) : given[p].seq = i

LEMMA WindowIs ==
    ASSUME ContextAssumption, ContextShape, RetractionsFit, NEW first \in Nat \ {0}
    PROVE  WindowFits(Repaired(Carried(ReadFrom(first))), first)
<1>1. PICK seen : seen = ReadFrom(first)
  OBVIOUS
<1>2. Ascends(seen, first, Len(entries))
  BY <1>1, ReadFromIs
<1>3. PICK n : n = Len(seen)
  OBVIOUS
<1>4. n \in Nat /\ DOMAIN seen = 1..n
  <2>1. seen \in Seq(1..Len(entries))
    BY <1>2 DEF Ascends
  <2> QED
    BY <1>3, <2>1, LenProperties
<1>5. PICK items : items = Carried(seen)
  OBVIOUS
<1>6. items = [k \in 1..n |-> [seq |-> seen[k], role |-> entries[seen[k]].role,
                               calls |-> entries[seen[k]].calls,
                               answers |-> entries[seen[k]].answers]]
  BY <1>4, <1>5 DEF Carried
<1>7. \A k \in 1..n : /\ seen[k] \in Seen(first, Len(entries))
                      /\ seen[k] \in 1..Len(entries) /\ entries[seen[k]] \in MessageRecords
  <2>1. \A k \in 1..n : seen[k] \in Seen(first, Len(entries))
    BY <1>2, <1>3 DEF Ascends
  <2>2. \A k \in 1..n : Is(seen[k], "message")
    BY <2>1 DEF Seen
  <2> QED
    BY <2>1, <2>2, EntriesAre
<1>8. \A k \in 1..n : /\ items[k].seq = seen[k] /\ items[k].role = entries[seen[k]].role
                      /\ items[k].calls = entries[seen[k]].calls
                      /\ items[k].answers = entries[seen[k]].answers
  BY <1>6
<1>9. items \in [1..n -> ItemRecords]
  <2>1. ASSUME NEW k \in 1..n
        PROVE  [seq |-> seen[k], role |-> entries[seen[k]].role, calls |-> entries[seen[k]].calls,
                answers |-> entries[seen[k]].answers] \in ItemRecords
    <3>1. seen[k] \in Nat
      BY <1>7
    <3>2. /\ entries[seen[k]].role \in {"user", "assistant", "tool"}
          /\ entries[seen[k]].calls \in SUBSET (1..CallsPerReply)
          /\ entries[seen[k]].answers \in 0..CallsPerReply
      BY <1>7 DEF MessageRecords
    <3> QED
      BY <3>1, <3>2 DEF ItemRecords
  <2> QED
    BY <1>6, <2>1
<1>10. items \in Seq(ItemRecords) /\ Len(items) = n /\ DOMAIN items = 1..n
  BY <1>4, <1>9, FunctionIsSeq
<1>11. Sorted(items)
  <2>1. \A k, l \in 1..n : k < l => seen[k] < seen[l]
    BY <1>2, <1>3 DEF Ascends
  <2> QED
    BY <1>8, <1>10, <2>1 DEF Sorted
<1>12. PICK given : given = Repaired(items)
  OBVIOUS
<1>13. RepairFits(items, given)
  BY <1>10, <1>11, <1>12, RepairedIs
<1>14. \A p \in 1..Len(given) : given[p].seq \in Seen(first, Len(entries))
  BY <1>7, <1>8, <1>10, <1>13 DEF RepairFits
<1>15. ASSUME NEW m \in Seen(first, Len(entries)) PROVE \E k \in 1..n : seen[k] = m /\ items[k].seq = m
  BY <1>2, <1>3, <1>8, SMTT(30) DEF Ascends
<1>16. ASSUME NEW m \in Seen(first, Len(entries)), entries[m].role # "tool"
       PROVE  \E p \in 1..Len(given) :
                 given[p].seq = m /\ \A q \in 1..Len(given) : m <= given[q].seq => p <= q
  <2>1. PICK k \in 1..n : seen[k] = m /\ items[k].seq = m
    BY <1>15
  <2>2. items[k].role # "tool"
    BY <1>8, <1>16, <2>1
  <2> QED
    BY <1>10, <1>13, <2>1, <2>2 DEF RepairFits
<1>17. ASSUME NEW r \in Seen(first, Len(entries)), NEW i \in Seen(first, Len(entries)), r < i,
              IsTool(i), RepliedBy(r, entries[i].answers), Between(r, i - 1, entries[i].answers)
       PROVE  \E p \in 1..Len(given) : given[p].seq = i
  <2>1. PICK k \in 1..n : seen[k] = r /\ items[k].seq = r
    BY <1>15
  <2>2. PICK h \in 1..n : seen[h] = i /\ items[h].seq = i
    BY <1>15
  <2>3. PICK call : call = entries[i].answers
    OBVIOUS
  <2>4. items[k].role # "tool" /\ call \in items[k].calls /\ items[h].answers = call
    BY <1>7, <1>8, <1>17, <2>1, <2>2, <2>3 DEF RepliedBy, IsTool
  <2>5. \A a, b \in 1..n : a < b => seen[a] < seen[b]
    BY <1>2, <1>3 DEF Ascends
  <2>6. r \in Nat /\ i \in Nat /\ \A a \in 1..n : seen[a] \in Nat
    BY <1>7, <2>1, <2>2
  <2>7. k < h
    <3>1. ~(h < k)
      BY <1>17, <2>1, <2>2, <2>5, <2>6
    <3>2. h # k
      BY <1>17, <2>1, <2>2, <2>6
    <3> QED
      BY <1>4, <3>1, <3>2
  <2>8. ASSUME NEW l \in k + 1..h - 1
        PROVE  items[l].role = "tool" /\ items[l].answers # call
    <3>1. l \in 1..n /\ k < l /\ l < h
      BY <1>4
    <3>2. r < seen[l] /\ seen[l] < i
      BY <2>1, <2>2, <2>5, <3>1
    <3>3. seen[l] \in r + 1..i - 1
      BY <2>6, <3>1, <3>2
    <3>4. Is(seen[l], "compaction") \/ (IsTool(seen[l]) /\ entries[seen[l]].answers # call)
      BY <1>17, <2>3, <3>3 DEF Between
    <3>5. ~Is(seen[l], "compaction")
      BY <1>7, <3>1 DEF Is, MessageRecords
    <3> QED
      BY <1>8, <3>1, <3>4, <3>5 DEF IsTool
  <2>9. items[h].role = "tool"
    BY <1>8, <1>17, <2>2 DEF IsTool
  <2>10. h \in Follows(items, k)
    <3>1. h \in k + 1..Len(items)
      BY <1>10, <2>7
    <3>2. \A l \in k + 1..h : l = h \/ l \in k + 1..h - 1
      BY <1>4
    <3> QED
      BY <2>8, <2>9, <3>1, <3>2 DEF Follows
  <2>11. ASSUME NEW l \in ResultsOf(items, k, call) PROVE h <= l
    <3>1. l \in k + 1..Len(items) /\ items[l].answers = call
      BY <2>11 DEF ResultsOf, Follows
    <3>2. ~(l \in k + 1..h - 1)
      BY <2>8, <3>1
    <3> QED
      BY <1>4, <1>10, <3>1, <3>2
  <2>12. k \in 1..Len(items)
    BY <1>10
  <2>13. h \in FirstResults(items, k)
    <3>1. items[h].answers \in items[k].calls
      BY <2>4
    <3>2. \A l \in ResultsOf(items, k, items[h].answers) : h <= l
      BY <2>4, <2>11
    <3> QED
      BY <1>10, <2>10, <2>12, <3>1, <3>2, FirstResultsAre
  <2>14. \E p \in 1..Len(given) : given[p].seq = items[h].seq
    BY <1>13, <2>4, <2>12, <2>13 DEF RepairFits
  <2> QED
    BY <2>2, <2>14
<1>18. given \in Seq(ItemRecords)
  BY <1>13 DEF RepairFits
<1>19. WindowFits(given, first)
  BY <1>14, <1>16, <1>17, <1>18 DEF WindowFits
<1> QED
  BY <1>1, <1>5, <1>12, <1>19

LEMMA LatestIs ==
    ASSUME ContextShape, CompactionsFit
    PROVE  /\ LatestCompaction.covers \in SUBSET Nat /\ LatestCompaction.through \in Nat
           /\ \A m \in LatestCompaction.covers : Is(m, "message")
           /\ \A m \in Said : m <= LatestCompaction.through => m \in LatestCompaction.covers
<1>1. PICK written : written = OfType("compaction")
  OBVIOUS
<1>2. \A c \in written : Is(c, "compaction")
  BY <1>1 DEF OfType, Is
<1>3. CASE LatestCompaction = NoCompaction
  <2>1. LatestCompaction.covers = {} /\ LatestCompaction.through = 0
    BY <1>3 DEF NoCompaction, Compaction
  <2>2. ASSUME NEW m \in Said PROVE ~(m <= 0)
    BY DEF Said, Seen
  <2> QED
    BY <2>1, <2>2
<1>4. CASE written # {} /\ ~entries[Max(written)].blank /\ LatestCompaction = entries[Max(written)]
  <2>1. written \subseteq Nat /\ \A c \in written : c <= Len(entries)
    BY <1>2, EntriesAre
  <2>2. Len(entries) \in Nat
    BY EntriesAre
  <2>3. Max(written) \in written
    BY <1>4, <2>1, <2>2, MaxIs
  <2>4. PICK c : c = Max(written)
    OBVIOUS
  <2>5. Is(c, "compaction") /\ c \in DOMAIN entries /\ entries[c] \in CompactionRecords
    BY <1>2, <2>3, <2>4, EntriesAre
  <2>6. /\ \A m \in entries[c].covers : Is(m, "message")
        /\ \A m \in Said : m <= entries[c].through => m \in entries[c].covers
    BY <1>4, <2>4, <2>5 DEF CompactionsFit
  <2>7. entries[c].covers \in SUBSET Nat /\ entries[c].through \in Nat
    BY <2>5 DEF CompactionRecords
  <2> QED
    BY <1>4, <2>4, <2>6, <2>7
<1> QED
  BY <1>1, <1>3, <1>4 DEF LatestCompaction

LEMMA OlderIs ==
    ASSUME NEW S, NEW items \in Seq(S), NEW retain \in Nat \ {0}
    PROVE  Older(items, retain) \in 0..Len(items)
<1>1. Len(items) \in Nat
  BY LenProperties
<1>2. CASE Len(items) <= retain
  BY <1>1, <1>2 DEF Older
<1>3. CASE ~(Len(items) <= retain)
  <2> DEFINE K == {k \in 0..Len(items) - retain : k = 0 \/ items[k + 1].role # "tool"}
  <2>1. K \subseteq Nat /\ 0 \in K /\ \A k \in K : k <= Len(items) /\ k \in 0..Len(items)
    BY <1>1, <1>3
  <2>2. Older(items, retain) = Max(K)
    BY <1>3 DEF Older
  <2> HIDE DEF K
  <2>3. K # {} /\ \A k \in K : k <= Len(items)
    BY <2>1
  <2>4. Max(K) \in K
    BY <1>1, <2>1, <2>3, MaxIs
  <2> QED
    BY <2>1, <2>2, <2>4
<1> QED
  BY <1>2, <1>3

-----------------------------------------------------------------------------
(* The transcript only grows: what was there stays, and less is shown.     *)

LEMMA Appended ==
    ASSUME ContextShape, NEW e \in EntryRecords, entries' = Append(entries, e)
    PROVE  /\ entries' \in Seq(EntryRecords) /\ Len(entries') = Len(entries) + 1
           /\ DOMAIN entries' = 1..Len(entries) + 1 /\ DOMAIN entries = 1..Len(entries)
           /\ Len(entries) \in Nat /\ entries'[Len(entries) + 1] = e
           /\ \A i \in 1..Len(entries) : entries'[i] = entries[i]
<1>1. entries \in Seq(EntryRecords) /\ DOMAIN entries = 1..Len(entries) /\ Len(entries) \in Nat
  BY EntriesAre
<1>2. /\ Append(entries, e) \in Seq(EntryRecords) /\ Len(Append(entries, e)) = Len(entries) + 1
      /\ \A i \in 1..Len(entries) : Append(entries, e)[i] = entries[i]
      /\ Append(entries, e)[Len(entries) + 1] = e
  BY <1>1, AppendProperties
<1>3. DOMAIN Append(entries, e) = 1..Len(Append(entries, e))
  BY <1>2, LenProperties
<1> QED
  BY <1>1, <1>2, <1>3

LEMMA StillThere ==
    ASSUME ContextShape, NEW e \in EntryRecords, entries' = Append(entries, e)
    PROVE  /\ \A i, t : Is(i, t) => Is(i, t)'
           /\ \A i \in 1..Len(entries) : \A t : Is(i, t)' => Is(i, t)
           /\ \A i \in 1..Len(entries) : IsTool(i)' <=> IsTool(i)
           /\ \A j \in 1..Len(entries) : \A m, first : CutBy(j, m, first)' <=> CutBy(j, m, first)
           /\ \A i \in 1..Len(entries), r \in 1..Len(entries) : \A call :
                /\ RepliedBy(r, call) => RepliedBy(r, call)'
                /\ Between(r, i, call) => Between(r, i, call)'
<1>1. /\ DOMAIN entries' = 1..Len(entries) + 1 /\ DOMAIN entries = 1..Len(entries)
      /\ Len(entries) \in Nat /\ \A i \in 1..Len(entries) : entries'[i] = entries[i]
  BY Appended
<1>2. \A i \in 1..Len(entries) : i \in 1..Len(entries) + 1
  BY <1>1
<1>3. \A i, t : Is(i, t) => Is(i, t)'
  BY <1>1, <1>2 DEF Is
<1>4. \A i \in 1..Len(entries) : \A t : Is(i, t)' => Is(i, t)
  BY <1>1 DEF Is
<1>5. \A i \in 1..Len(entries) : IsTool(i)' <=> IsTool(i)
  BY <1>1, <1>3, <1>4 DEF IsTool
<1>6. \A j \in 1..Len(entries) : \A m, first : CutBy(j, m, first)' <=> CutBy(j, m, first)
  BY <1>1 DEF CutBy
<1>7. ASSUME NEW r \in 1..Len(entries), NEW call, RepliedBy(r, call) PROVE RepliedBy(r, call)'
  BY <1>1, <1>3, <1>5, <1>7 DEF RepliedBy
<1>8. ASSUME NEW i \in 1..Len(entries), NEW r \in 1..Len(entries), NEW call, Between(r, i, call)
      PROVE  Between(r, i, call)'
  <2>1. ASSUME NEW k \in r + 1..i
        PROVE  Is(k, "compaction")' \/ (IsTool(k)' /\ entries'[k].answers # call)
    <3>1. k \in 1..Len(entries)
      BY <1>1
    <3>2. Is(k, "compaction") \/ (IsTool(k) /\ entries[k].answers # call)
      BY <1>8 DEF Between
    <3> QED
      BY <1>1, <1>3, <1>5, <3>1, <3>2
  <2> QED
    BY <2>1 DEF Between
<1> QED
  BY <1>3, <1>4, <1>5, <1>6, <1>7, <1>8

LEMMA LessIsShown ==
    ASSUME ContextShape, NEW e \in EntryRecords, entries' = Append(entries, e)
    PROVE  \A m \in Said' : m \in 1..Len(entries) + 1 /\ (m <= Len(entries) => m \in Said)
<1>1. /\ DOMAIN entries' = 1..Len(entries) + 1 /\ DOMAIN entries = 1..Len(entries)
      /\ Len(entries') = Len(entries) + 1
      /\ Len(entries) \in Nat /\ \A i \in 1..Len(entries) : entries'[i] = entries[i]
  BY Appended
<1> TAKE m \in Said'
<1>2. /\ m \in 1..Len(entries) + 1 /\ Is(m, "message")' /\ entries'[m].role # "tool"
      /\ \A j \in m + 1..Len(entries) + 1 : ~CutBy(j, m, 1)'
  BY <1>1 DEF Said, Seen
<1>3. ASSUME m <= Len(entries) PROVE m \in Said
  <2>1. m \in 1..Len(entries)
    BY <1>1, <1>2, <1>3
  <2>2. Is(m, "message") /\ entries[m].role # "tool"
    BY <1>1, <1>2, <2>1, StillThere
  <2>3. ASSUME NEW j \in m + 1..Len(entries) PROVE ~CutBy(j, m, 1)
    <3>1. j \in m + 1..Len(entries) + 1 /\ j \in 1..Len(entries)
      BY <1>1, <2>1
    <3>2. ~CutBy(j, m, 1)'
      BY <1>2, <3>1
    <3> QED
      BY <3>1, <3>2, StillThere
  <2> QED
    BY <2>1, <2>2, <2>3 DEF Said, Seen
<1> QED
  BY <1>2, <1>3

LEMMA SummaryStays ==
    ASSUME ContextShape, NEW e \in EntryRecords, entries' = Append(entries, e),
           NEW r, SummaryFits(r)
    PROVE  SummaryFits(r)'
<1>1. Len(entries) \in Nat /\ DOMAIN entries = 1..Len(entries)
  BY EntriesAre
<1>2. /\ \A m \in r.before : Is(m, "message")'
      /\ \A p \in 1..Len(r.items) : Is(r.items[p].seq, "message")'
  BY StillThere DEF SummaryFits
<1>3. ASSUME NEW m \in Said', NEW gone \in 1..Len(r.items), m <= r.items[gone].seq
      PROVE  m \in r.before \/ \E q \in 1..gone : r.items[q].seq = m
  <2>1. r.items[gone].seq \in 1..Len(entries)
    BY <1>1 DEF SummaryFits, Is
  <2>2. m \in 1..Len(entries) + 1 /\ (m <= Len(entries) => m \in Said)
    BY LessIsShown
  <2>3. m <= Len(entries)
    BY <1>1, <1>3, <2>1, <2>2
  <2> QED
    BY <1>3, <2>2, <2>3 DEF SummaryFits
<1> QED
  BY <1>2, <1>3 DEF SummaryFits

\* What the entry that is added has to be.
AddedFits(e) ==
    /\ e \in EntryRecords
    /\ e.type = "retraction" => /\ Is(e.from, "message")
                                /\ \A h \in e.from + 1..Len(entries) : ~CutBy(h, e.from, 1)
    /\ e.type = "compaction" =>
         /\ e.through <= Len(entries) /\ \A m \in e.covers : Is(m, "message")
         /\ ~e.blank => \A m \in Said : m <= e.through => m \in e.covers
    /\ e.type = "message" /\ e.role = "tool" =>
         \E r \in 1..Len(entries) :
            RepliedBy(r, e.answers) /\ Between(r, Len(entries), e.answers)

LEMMA AddedKeeps ==
    ASSUME ContextShape, RetractionsFit, CompactionsFit, ResultsFit,
           NEW e, AddedFits(e), entries' = Append(entries, e)
    PROVE  RetractionsFit' /\ CompactionsFit' /\ ResultsFit'
<1>0. e \in EntryRecords
  BY DEF AddedFits
<1>1. /\ DOMAIN entries' = 1..Len(entries) + 1 /\ DOMAIN entries = 1..Len(entries)
      /\ Len(entries) \in Nat /\ \A i \in 1..Len(entries) : entries'[i] = entries[i]
      /\ entries'[Len(entries) + 1] = e
  BY <1>0, Appended
<1>2. PICK n : n = Len(entries) + 1
  OBVIOUS
<1>3. \A i \in 1..n : i = n \/ i \in 1..Len(entries)
  BY <1>1, <1>2
<1>4. RetractionsFit'
  <2>1. ASSUME NEW j \in 1..n, Is(j, "retraction")'
        PROVE  /\ Is(entries[j].from, "message")' /\ entries'[j].from < j
               /\ \A h \in entries'[j].from + 1..j - 1 : ~CutBy(h, entries[j].from, 1)'
    <3>1. PICK f : f = entries'[j].from
      OBVIOUS
    <3>2. Is(f, "message") /\ f < j /\ \A h \in f + 1..j - 1 : ~CutBy(h, f, 1)
      <4>1. CASE j = n
        <5>1. e.type = "retraction" /\ f = e.from
          BY <1>1, <1>2, <2>1, <3>1, <4>1 DEF Is
        <5>2. Is(f, "message") /\ \A h \in f + 1..Len(entries) : ~CutBy(h, f, 1)
          BY <5>1 DEF AddedFits
        <5>3. f \in 1..Len(entries) /\ n - 1 = Len(entries)
          BY <1>1, <1>2, <5>2 DEF Is
        <5> QED
          BY <1>1, <1>2, <4>1, <5>2, <5>3
      <4>2. CASE j # n
        <5>1. j \in 1..Len(entries) /\ entries'[j] = entries[j]
          BY <1>1, <1>3, <4>2
        <5>2. Is(j, "retraction")
          BY <1>0, <2>1, <5>1, StillThere
        <5> QED
          BY <1>1, <3>1, <5>1, <5>2 DEF RetractionsFit
      <4> QED
        BY <4>1, <4>2
    <3>3. f \in 1..Len(entries)
      BY <1>1, <3>2 DEF Is
    <3>4. ASSUME NEW h \in f + 1..j - 1 PROVE ~CutBy(h, f, 1)'
      <4>1. h \in 1..Len(entries)
        BY <1>1, <1>2, <3>3
      <4> QED
        BY <1>0, <3>2, <4>1, StillThere
    <3>5. Is(f, "message")'
      BY <1>0, <3>2, StillThere
    <3> QED
      BY <3>1, <3>2, <3>4, <3>5 DEF Is, CutBy
  <2> QED
    BY <1>1, <1>2, <2>1 DEF RetractionsFit
<1>5. CompactionsFit'
  <2>1. ASSUME NEW c \in 1..n, Is(c, "compaction")'
        PROVE  /\ entries'[c].through < c /\ \A m \in entries'[c].covers : Is(m, "message")'
               /\ ~entries'[c].blank => \A m \in Said' : m <= entries'[c].through => m \in entries'[c].covers
    <3>1. PICK d : d = entries'[c]
      OBVIOUS
    <3>2. /\ d.through < c /\ d.through <= Len(entries) /\ d.through \in Nat
          /\ \A m \in d.covers : Is(m, "message")
          /\ ~d.blank => \A m \in Said : m <= d.through => m \in d.covers
      <4>1. CASE c = n
        <5>1. d = e /\ e.type = "compaction"
          BY <1>1, <1>2, <2>1, <3>1, <4>1 DEF Is
        <5>2. e.through \in Nat
          BY <1>0, <5>1 DEF EntryRecords, MessageRecords, CompactionRecords, RetractionRecords
        <5> QED
          BY <1>1, <1>2, <4>1, <5>1, <5>2 DEF AddedFits
      <4>2. CASE c # n
        <5>1. c \in 1..Len(entries) /\ d = entries[c]
          BY <1>1, <1>3, <3>1, <4>2
        <5>2. Is(c, "compaction")
          BY <1>0, <2>1, <5>1, StillThere
        <5>3. entries[c] \in CompactionRecords
          BY <5>2, EntriesAre
        <5>4. d.through \in Nat
          BY <5>1, <5>3 DEF CompactionRecords
        <5>5. /\ d.through < c /\ \A m \in d.covers : Is(m, "message")
              /\ ~d.blank => \A m \in Said : m <= d.through => m \in d.covers
          BY <1>1, <5>1, <5>2 DEF CompactionsFit
        <5> QED
          BY <1>1, <5>1, <5>4, <5>5
      <4> QED
        BY <4>1, <4>2
    <3>3. ASSUME ~d.blank, NEW m \in Said', m <= d.through PROVE m \in d.covers
      <4>1. m \in 1..Len(entries) + 1 /\ (m <= Len(entries) => m \in Said)
        BY <1>0, LessIsShown
      <4>2. m <= Len(entries)
        BY <1>1, <3>2, <3>3, <4>1
      <4> QED
        BY <3>2, <3>3, <4>1, <4>2
    <3>4. \A m \in d.covers : Is(m, "message")'
      BY <1>0, <3>2, StillThere
    <3> QED
      BY <3>1, <3>2, <3>3, <3>4
  <2> QED
    BY <1>1, <1>2, <2>1 DEF CompactionsFit
<1>6. ResultsFit'
  <2>1. ASSUME NEW i \in 1..n, IsTool(i)'
        PROVE  \E r \in 1..i - 1 :
                  RepliedBy(r, entries[i].answers)' /\ Between(r, i - 1, entries[i].answers)'
    <3>1. PICK call : call = entries'[i].answers
      OBVIOUS
    <3>2. \E r \in 1..i - 1 : RepliedBy(r, call) /\ Between(r, i - 1, call)
      <4>1. CASE i = n
        <5>1. e.type = "message" /\ e.role = "tool" /\ call = e.answers
          BY <1>1, <1>2, <2>1, <3>1, <4>1 DEF IsTool, Is
        <5>2. n - 1 = Len(entries)
          BY <1>1, <1>2
        <5> QED
          BY <4>1, <5>1, <5>2 DEF AddedFits
      <4>2. CASE i # n
        <5>1. i \in 1..Len(entries) /\ call = entries[i].answers
          BY <1>1, <1>3, <3>1, <4>2
        <5>2. IsTool(i)
          BY <1>0, <2>1, <5>1, StillThere
        <5> QED
          BY <1>1, <5>1, <5>2 DEF ResultsFit
      <4> QED
        BY <4>1, <4>2
    <3>3. PICK r \in 1..i - 1 : RepliedBy(r, call) /\ Between(r, i - 1, call)
      BY <3>2
    <3>4. r \in 1..Len(entries) /\ i - 1 \in 1..Len(entries)
      BY <1>1, <1>2
    <3>5. PICK h : h = i - 1
      OBVIOUS
    <3>6. RepliedBy(r, call)' /\ Between(r, h, call)'
      BY <1>0, <3>3, <3>4, <3>5, StillThere
    <3>7. RepliedBy(r, call)' /\ Between(r, i - 1, call)'
      BY <3>5, <3>6 DEF Between
    <3> QED
      BY <3>1, <3>7 DEF RepliedBy, Between
  <2> QED
    BY <1>1, <1>2, <2>1 DEF ResultsFit
<1> QED
  BY <1>4, <1>5, <1>6

\* A reading that does not change, when the transcript only grows.
LEMMA ReadingsStay ==
    ASSUME ContextShape, NEW e, AddedFits(e), entries' = Append(entries, e), ReadingFits,
           \A who \in {"turn", "user"} : reading'[who] = reading[who] \/ reading'[who].step # "summary"
    PROVE  ReadingFits'
<1>1. ASSUME NEW who \in {"turn", "user"}, reading'[who].step = "summary"
      PROVE  SummaryFits(reading[who])'
  <2>1. PICK r : r = reading[who]
    OBVIOUS
  <2>2. SummaryFits(r) /\ reading'[who] = r
    BY <1>1, <2>1 DEF ReadingFits
  <2>3. e \in EntryRecords
    BY DEF AddedFits
  <2>4. SummaryFits(r)'
    BY <2>2, <2>3, SummaryStays
  <2> QED
    BY <2>2, <2>4 DEF SummaryFits
<1> QED
  BY <1>1 DEF ReadingFits

\* The rest, when the transcript does not change.
LEMMA NothingAdded ==
    ASSUME entries' = entries, RetractionsFit, CompactionsFit, ResultsFit
    PROVE  RetractionsFit' /\ CompactionsFit' /\ ResultsFit'
<1>1. \A i, t : Is(i, t)' <=> Is(i, t)
  BY DEF Is
<1>2. \A j, m, first : CutBy(j, m, first)' <=> CutBy(j, m, first)
  BY DEF CutBy
<1>3. Said' = Said
  BY <1>1, <1>2 DEF Said, Seen
<1>4. RetractionsFit'
  BY <1>1, <1>2 DEF RetractionsFit
<1>5. CompactionsFit'
  BY <1>1, <1>3 DEF CompactionsFit
<1>6. ResultsFit'
  BY <1>1 DEF ResultsFit, IsTool, RepliedBy, Between
<1> QED
  BY <1>4, <1>5, <1>6

LEMMA SameReadings ==
    ASSUME entries' = entries, ReadingFits,
           \A who \in {"turn", "user"} : \/ reading'[who] = reading[who]
                                         \/ reading'[who].step # "summary"
                                         \/ SummaryFits(reading'[who])
    PROVE  ReadingFits'
<1>1. \A i, t : Is(i, t)' <=> Is(i, t)
  BY DEF Is
<1>2. \A j, m, first : CutBy(j, m, first)' <=> CutBy(j, m, first)
  BY DEF CutBy
<1>3. Said' = Said
  BY <1>1, <1>2 DEF Said, Seen
<1>4. ASSUME NEW who \in {"turn", "user"}, reading'[who].step = "summary"
      PROVE  SummaryFits(reading[who])'
  <2>1. PICK r : r = reading'[who]
    OBVIOUS
  <2>2. SummaryFits(r)
    BY <1>4, <2>1 DEF ReadingFits
  <2> QED
    BY <1>1, <1>3, <2>1, <2>2 DEF SummaryFits
<1> QED
  BY <1>4 DEF ReadingFits

-----------------------------------------------------------------------------
(* The invariant, step by step.                                            *)

Readings == RestRecords \cup SummaryRecords

LEMMA ReadingSet ==
    ASSUME ContextShape, NEW who \in {"turn", "user"}, NEW r \in Readings,
           reading' = [reading EXCEPT ![who] = r]
    PROVE  /\ reading' \in [{"turn", "user"} -> Readings] /\ reading'[who] = r
           /\ \A other \in {"turn", "user"} : other # who => reading'[other] = reading[other]
<1>1. reading \in [{"turn", "user"} -> Readings]
  BY DEF ContextShape, Readings
<1> QED
  BY <1>1

LEMMA ShapeGrows ==
    ASSUME ContextAssumption, ContextShape, Room, NEW e \in EntryRecords, entries' = Append(entries, e),
           working' \in BOOLEAN, asked' \subseteq 1..CallsPerReply,
           reading' \in [{"turn", "user"} -> Readings]
    PROVE  ContextShape'
<1>1. entries' \in Seq(EntryRecords) /\ Len(entries') = Len(entries) + 1 /\ Len(entries) \in Nat
  BY Appended
<1>2. Len(entries') <= MaxEntries
  BY <1>1 DEF Room, ContextAssumption
<1> QED
  BY <1>1, <1>2 DEF ContextShape, Readings

LEMMA MessagesFit ==
    ASSUME ContextAssumption, NEW role \in {"user", "assistant"}, NEW n \in 0..CallsPerReply
    PROVE  AddedFits(Message(role, 1..n, 0)) /\ Message(role, 1..n, 0).type = "message"
<1>1. 1..n \in SUBSET (1..CallsPerReply) /\ 0 \in 0..CallsPerReply
  BY DEF ContextAssumption
<1>2. Message(role, 1..n, 0) \in EntryRecords
  BY <1>1 DEF Message, EntryRecords, MessageRecords
<1> QED
  BY <1>2 DEF AddedFits, Message

LEMMA ContextStarts ==
    ASSUME ContextAssumption, ContextInit PROVE ContextInv
<1>1. Len(entries) = 0 /\ entries \in Seq(EntryRecords) /\ DOMAIN entries = {}
  BY DEF ContextInit
<1>2. \A who \in {"turn", "user"} : reading[who].step = "none"
  BY DEF ContextInit
<1>3. ContextShape
  <2>1. reading \in [{"turn", "user"} -> RestRecords \cup SummaryRecords]
    BY DEF ContextInit, RestRecords
  <2>2. asked = {} /\ working = FALSE
    BY DEF ContextInit
  <2>3. Len(entries) <= MaxEntries
    BY <1>1 DEF ContextAssumption
  <2> QED
    BY <1>1, <2>1, <2>2, <2>3 DEF ContextShape
<1>4. RetractionsFit /\ CompactionsFit /\ ResultsFit
  BY <1>1 DEF RetractionsFit, CompactionsFit, ResultsFit
<1>5. ReadingFits
  BY <1>2 DEF ReadingFits
<1>6. TurnFits
  BY <1>2 DEF TurnFits, ContextInit
<1> QED
  BY <1>3, <1>4, <1>5, <1>6 DEF ContextInv

LEMMA BeginWorkKeeps ==
    ASSUME ContextAssumption, ContextInv, BeginWork PROVE ContextInv'
<1> USE DEF ContextInv
<1>1. PICK e : e = Message("user", {}, 0)
  OBVIOUS
<1>2. ~working /\ Room /\ working' = TRUE /\ entries' = Append(entries, e) /\ asked' = asked /\ reading' = reading
  BY <1>1 DEF BeginWork
<1>3. AddedFits(e)
  <2>1. 1..0 = {} /\ 0 \in 0..CallsPerReply
    BY DEF ContextAssumption
  <2> QED
    BY <1>1, <2>1, MessagesFit
<1>4. e \in EntryRecords
  BY <1>3 DEF AddedFits
<1>5. ContextShape'
  BY <1>2, <1>4, ShapeGrows DEF ContextShape, Readings
<1>6. RetractionsFit' /\ CompactionsFit' /\ ResultsFit'
  BY <1>2, <1>3, AddedKeeps
<1>7. ReadingFits'
  BY <1>2, <1>3, ReadingsStay
<1>8. TurnFits'
  BY <1>2 DEF TurnFits
<1> QED
  BY <1>5, <1>6, <1>7, <1>8

LEMMA EndWorkKeeps ==
    ASSUME ContextAssumption, ContextInv, EndWork PROVE ContextInv'
<1> USE DEF ContextInv
<1>1. PICK r : r = [step |-> "none"]
  OBVIOUS
<1>2. /\ working' = FALSE /\ asked' = {} /\ entries' = entries
      /\ reading' = [reading EXCEPT !["turn"] = r]
  BY <1>1 DEF EndWork
<1>3. r \in Readings /\ r.step = "none"
  BY <1>1 DEF Readings, RestRecords
<1>4. /\ reading' \in [{"turn", "user"} -> Readings] /\ reading'["turn"] = r
      /\ reading'["user"] = reading["user"]
  BY <1>2, <1>3, ReadingSet
<1>5. ContextShape'
  BY <1>2, <1>4 DEF ContextShape, Readings
<1>6. RetractionsFit' /\ CompactionsFit' /\ ResultsFit'
  BY <1>2, NothingAdded
<1>7. ReadingFits'
  BY <1>2, <1>3, <1>4, SameReadings
<1>8. TurnFits'
  BY <1>2, <1>3, <1>4 DEF TurnFits
<1> QED
  BY <1>5, <1>6, <1>7, <1>8

LEMMA LookForRunsKeeps ==
    ASSUME ContextAssumption, ContextInv, LookForRuns PROVE ContextInv'
<1> USE DEF ContextInv
<1>1. PICK r : r = [step |-> "look"]
  OBVIOUS
<1>2. /\ working' = working /\ asked' = asked /\ entries' = entries
      /\ reading' = [reading EXCEPT !["user"] = r]
  BY <1>1 DEF LookForRuns
<1>3. r \in Readings /\ r.step = "look"
  BY <1>1 DEF Readings, RestRecords
<1>4. /\ reading' \in [{"turn", "user"} -> Readings] /\ reading'["user"] = r
      /\ reading'["turn"] = reading["turn"]
  BY <1>2, <1>3, ReadingSet
<1>5. ContextShape'
  BY <1>2, <1>4 DEF ContextShape, Readings
<1>6. RetractionsFit' /\ CompactionsFit' /\ ResultsFit'
  BY <1>2, NothingAdded
<1>7. ReadingFits'
  BY <1>2, <1>3, <1>4, SameReadings
<1>8. TurnFits'
  BY <1>2, <1>4 DEF TurnFits, RepliedBy, Between, Is, IsTool
<1> QED
  BY <1>5, <1>6, <1>7, <1>8

\* What is shown of the part that follows a place is read from there as well.
LEMMA SaidSeen ==
    ASSUME ContextShape, RetractionsFit, NEW m \in Seen(1, Len(entries)), NEW through \in Nat, ~(m <= through)
    PROVE  m \in Seen(through + 1, Len(entries))
<1>1. m \in 1..Len(entries) /\ Is(m, "message") /\ \A j \in m + 1..Len(entries) : ~CutBy(j, m, 1)
  BY DEF Seen
<1>2. Len(entries) \in Nat /\ DOMAIN entries = 1..Len(entries)
  BY EntriesAre
<1>3. m \in through + 1..Len(entries)
  BY <1>1, <1>2
<1>4. ASSUME NEW j \in m + 1..Len(entries) PROVE ~CutBy(j, m, through + 1)
  <2>1. SUFFICES ASSUME CutBy(j, m, through + 1) PROVE FALSE
    OBVIOUS
  <2>2. j \in DOMAIN entries /\ entries[j].type = "retraction"
    BY <1>1, <1>2, <2>1 DEF CutBy
  <2>3. entries[j].from \in Nat
    <3>1. Is(j, "retraction")
      BY <2>2 DEF Is
    <3> QED
      BY <3>1, EntriesAre DEF RetractionRecords
  <2>4. CutBy(j, m, 1)
    BY <2>1, <2>3 DEF CutBy
  <2> QED
    BY <1>1, <2>4
<1> QED
  BY <1>1, <1>3, <1>4 DEF Seen

LEMMA TurnReads ==
    ASSUME CanRead("turn") PROVE working /\ asked = {}
BY DEF CanRead

\* A turn reads only between its calls, and the user's request only when it
\* has looked.
LEMMA ReadTranscriptKeeps ==
    ASSUME ContextAssumption, ContextInv, NEW who \in {"turn", "user"}, ReadTranscript(who)
    PROVE  ContextInv'
<1> USE DEF ContextInv
<1>1. PICK c : c = LatestCompaction
  OBVIOUS
<1>2. PICK items : items = Window(LatestCompaction)
  OBVIOUS
<1>3. /\ c.covers \in SUBSET Nat /\ c.through \in Nat /\ \A m \in c.covers : Is(m, "message")
      /\ \A m \in Said : m <= c.through => m \in c.covers
  BY <1>1, LatestIs
<1>4. WindowFits(items, c.through + 1)
  <2>1. c.through + 1 \in Nat \ {0}
    BY <1>3
  <2> QED
    BY <1>1, <1>2, <2>1, WindowIs DEF Window
<1>5. items \in Seq(ItemRecords) /\ Len(items) \in Nat
  BY <1>4, LenProperties DEF WindowFits
<1>6. CanRead(who) /\ entries' = entries /\ working' = working /\ asked' = asked
  BY DEF ReadTranscript
<1>7. \E r \in Readings :
         /\ reading' = [reading EXCEPT ![who] = r]
         /\ r.step = "summary" => SummaryFits(r)
  <2>1. CASE reading' = [reading EXCEPT ![who] = [step |-> IF who = "turn" THEN "model" ELSE "none"]]
    <3>1. PICK r : r = [step |-> IF who = "turn" THEN "model" ELSE "none"]
      OBVIOUS
    <3>2. r \in Readings /\ r.step # "summary"
      BY <3>1 DEF Readings, RestRecords
    <3> QED
      BY <2>1, <3>1, <3>2
  <2>2. CASE \E retain \in Nat \ {0} :
               /\ Older(items, retain) > 0
               /\ reading' = [reading EXCEPT ![who] =
                    [step |-> "summary", before |-> c.covers,
                     items |-> items, older |-> Older(items, retain)]]
    <3>1. PICK retain \in Nat \ {0} :
             /\ Older(items, retain) > 0
             /\ reading' = [reading EXCEPT ![who] =
                  [step |-> "summary", before |-> c.covers,
                   items |-> items, older |-> Older(items, retain)]]
      BY <2>2
    <3>2. Older(items, retain) \in 0..Len(items)
      BY <1>5, OlderIs
    <3>3. PICK r : r = [step |-> "summary", before |-> c.covers,
                        items |-> items, older |-> Older(items, retain)]
      OBVIOUS
    <3>4. r \in Readings /\ r.before = c.covers /\ r.items = items /\ r.older \in 1..Len(items)
      <4>1. Older(items, retain) \in Nat /\ Older(items, retain) \in 1..Len(items)
        BY <1>5, <3>1, <3>2
      <4>2. r \in SummaryRecords
        BY <1>3, <1>5, <3>3, <4>1 DEF SummaryRecords
      <4> QED
        BY <3>3, <4>1, <4>2 DEF Readings
    <3>5. \A p \in 1..Len(items) : items[p].seq \in Seen(c.through + 1, Len(entries))
      BY <1>4 DEF WindowFits
    <3>6. \A p \in 1..Len(items) : Is(items[p].seq, "message")
      BY <3>5 DEF Seen
    <3>7. ASSUME NEW m \in Said, NEW gone \in 1..Len(items), m <= items[gone].seq
          PROVE  m \in c.covers \/ \E q \in 1..gone : items[q].seq = m
      <4>1. CASE m <= c.through
        BY <1>3, <4>1
      <4>2. CASE ~(m <= c.through)
        <5>1. m \in Seen(c.through + 1, Len(entries)) /\ entries[m].role # "tool"
          BY <1>3, <4>2, SaidSeen DEF Said
        <5>2. PICK p \in 1..Len(items) :
                 items[p].seq = m /\ \A q \in 1..Len(items) : m <= items[q].seq => p <= q
          BY <1>4, <5>1 DEF WindowFits
        <5>3. p <= gone
          BY <3>7, <5>2
        <5>4. p \in 1..gone
          BY <1>5, <5>3
        <5> QED
          BY <5>2, <5>4
      <4> QED
        BY <4>1, <4>2
    <3>8. SummaryFits(r)
      BY <1>3, <3>4, <3>6, <3>7 DEF SummaryFits
    <3> QED
      BY <3>1, <3>3, <3>4, <3>8
  <2>3. 1..RetainMessages \subseteq Nat \ {0} /\ {RetainMessages} \subseteq Nat \ {0}
    BY DEF ContextAssumption
  <2> QED
    BY <1>1, <1>2, <2>1, <2>2, <2>3 DEF ReadTranscript
<1>8. PICK r \in Readings : /\ reading' = [reading EXCEPT ![who] = r]
                            /\ r.step = "summary" => SummaryFits(r)
  BY <1>7
<1>9. /\ reading' \in [{"turn", "user"} -> Readings] /\ reading'[who] = r
      /\ \A other \in {"turn", "user"} : other # who => reading'[other] = reading[other]
  BY <1>8, ReadingSet
<1>10. ContextShape'
  BY <1>6, <1>9 DEF ContextShape, Readings
<1>11. RetractionsFit' /\ CompactionsFit' /\ ResultsFit'
  BY <1>6, NothingAdded
<1>12. ReadingFits'
  <2>1. \A other \in {"turn", "user"} : \/ reading'[other] = reading[other]
                                        \/ reading'[other].step # "summary"
                                        \/ SummaryFits(reading'[other])
    BY <1>8, <1>9
  <2> QED
    BY <1>6, <2>1, SameReadings
<1>13. TurnFits'
  <2>1. CASE who = "turn"
    <3>1. working /\ asked = {}
      BY <1>6, <2>1, TurnReads
    <3> QED
      BY <1>6, <3>1 DEF TurnFits
  <2>2. CASE who # "turn"
    <3>1. reading'["turn"] = reading["turn"]
      BY <1>9, <2>2
    <3> QED
      BY <1>6, <3>1 DEF TurnFits, RepliedBy, Between, Is, IsTool
  <2> QED
    BY <2>1, <2>2
<1> QED
  BY <1>10, <1>11, <1>12, <1>13

LEMMA CompactionEndKeeps ==
    ASSUME ContextAssumption, ContextInv, NEW who \in {"turn", "user"}, GiveUpCompaction(who)
    PROVE  ContextInv'
<1> USE DEF ContextInv
<1>1. PICK r : r = [step |-> "none"]
  OBVIOUS
<1>2. /\ reading[who].step = "summary" /\ working' = (working /\ who # "turn")
      /\ asked' = asked /\ entries' = entries /\ reading' = [reading EXCEPT ![who] = r]
  BY <1>1 DEF GiveUpCompaction
<1>3. r \in Readings /\ r.step = "none"
  BY <1>1 DEF Readings, RestRecords
<1>4. /\ reading' \in [{"turn", "user"} -> Readings] /\ reading'[who] = r
      /\ \A other \in {"turn", "user"} : other # who => reading'[other] = reading[other]
  BY <1>2, <1>3, ReadingSet
<1>5. ContextShape'
  BY <1>2, <1>4 DEF ContextShape, Readings
<1>6. RetractionsFit' /\ CompactionsFit' /\ ResultsFit'
  BY <1>2, NothingAdded
<1>7. ReadingFits'
  BY <1>2, <1>3, <1>4, SameReadings
<1>8. TurnFits'
  <2>1. CASE who = "turn"
    <3>1. asked = {}
      BY <1>2, <2>1 DEF TurnFits
    <3> QED
      BY <1>2, <1>3, <1>4, <2>1, <3>1 DEF TurnFits
  <2>2. CASE who # "turn"
    <3>1. reading'["turn"] = reading["turn"]
      BY <1>4, <2>2
    <3>2. working' = working
      BY <1>2, <2>2 DEF ContextShape
    <3> QED
      BY <1>2, <3>1, <3>2 DEF TurnFits, RepliedBy, Between, Is, IsTool
  <2> QED
    BY <2>1, <2>2
<1> QED
  BY <1>5, <1>6, <1>7, <1>8

LEMMA WriteCompactionKeeps ==
    ASSUME ContextAssumption, ContextInv, NEW who \in {"turn", "user"}, WriteCompaction(who)
    PROVE  ContextInv'
<1> USE DEF ContextInv
<1>1. PICK r : r = reading[who]
  OBVIOUS
<1>2. PICK s : s = [step |-> IF who = "turn" THEN "model" ELSE "none"]
  OBVIOUS
<1>3. /\ r.step = "summary" /\ Room /\ working' = working /\ asked' = asked
      /\ reading' = [reading EXCEPT ![who] = s]
      /\ \E gone \in r.older..Len(r.items) - 1, blank \in BOOLEAN :
           entries' = Append(entries,
             Compaction(IF blank THEN {} ELSE r.before \cup Sequences(SubSeq(r.items, 1, gone)),
                        r.items[gone].seq, blank))
  BY <1>1, <1>2 DEF WriteCompaction
<1>4. r \in SummaryRecords /\ SummaryFits(r)
  <2>1. r \in RestRecords \cup SummaryRecords
    BY <1>1 DEF ContextShape
  <2>2. r \notin RestRecords
    BY <1>3 DEF RestRecords
  <2> QED
    BY <1>1, <1>3, <2>1, <2>2 DEF ReadingFits
<1>5. PICK items : items = r.items
  OBVIOUS
<1>6. items \in Seq(ItemRecords) /\ Len(items) \in Nat /\ r.older \in 1..Len(items)
  BY <1>4, <1>5, LenProperties DEF SummaryRecords, SummaryFits
<1>7. PICK gone \in r.older..Len(items) - 1, blank \in BOOLEAN :
        entries' = Append(entries,
          Compaction(IF blank THEN {} ELSE r.before \cup Sequences(SubSeq(items, 1, gone)),
                     items[gone].seq, blank))
  BY <1>3, <1>5
<1>8. gone \in 1..Len(items)
  BY <1>6
<1>9. PICK covers : covers = IF blank THEN {} ELSE r.before \cup Sequences(SubSeq(items, 1, gone))
  OBVIOUS
<1>10. PICK e : e = Compaction(covers, items[gone].seq, blank)
  OBVIOUS
<1>11. entries' = Append(entries, e)
  BY <1>7, <1>9, <1>10
<1>12. Sequences(SubSeq(items, 1, gone)) = {items[q].seq : q \in 1..gone}
  <2>1. PICK part : part = SubSeq(items, 1, gone)
    OBVIOUS
  <2>2. part \in Seq(ItemRecords) /\ Len(part) = gone /\ \A q \in 1..gone : part[q] = items[q]
    <3>1. /\ SubSeq(items, 1, gone) \in Seq(ItemRecords)
          /\ Len(SubSeq(items, 1, gone)) = IF 1 <= gone THEN gone - 1 + 1 ELSE 0
          /\ \A q \in 1..gone - 1 + 1 : SubSeq(items, 1, gone)[q] = items[1 + q - 1]
      <4>1. \A q \in 1..gone : items[q] \in ItemRecords
        BY <1>6, <1>8, ElementOfSeq
      <4> QED
        BY <1>6, <1>8, <4>1, SubSeqProperties
    <3>2. gone - 1 + 1 = gone /\ 1 <= gone /\ \A q \in 1..gone : 1 + q - 1 = q
      BY <1>6, <1>8
    <3> QED
      BY <2>1, <3>1, <3>2
  <2>3. DOMAIN part = 1..gone
    BY <2>2, LenProperties
  <2>4. Sequences(part) = {items[q].seq : q \in 1..gone}
    BY <2>2, <2>3 DEF Sequences
  <2> QED
    BY <2>1, <2>4
<1>13. \A m \in covers : Is(m, "message")
  <2>1. \A q \in 1..gone : q \in 1..Len(items)
    BY <1>6, <1>8
  <2> QED
    BY <1>4, <1>5, <1>9, <1>12, <2>1 DEF SummaryFits
<1>14. Is(items[gone].seq, "message")
  BY <1>4, <1>5, <1>8 DEF SummaryFits
<1>15. items[gone].seq \in 1..Len(entries) /\ Len(entries) \in Nat /\ \A m \in covers : m \in Nat
  BY <1>13, <1>14, EntriesAre
<1>16. ASSUME ~blank, NEW m \in Said, m <= items[gone].seq PROVE m \in covers
  <2>1. m \in r.before \/ \E q \in 1..gone : items[q].seq = m
    BY <1>4, <1>5, <1>8, <1>16 DEF SummaryFits
  <2> QED
    BY <1>9, <1>12, <1>16, <2>1
<1>17. e \in EntryRecords
  <2>1. covers \in SUBSET Nat /\ items[gone].seq \in Nat
    BY <1>15
  <2>2. e \in CompactionRecords
    BY <1>10, <2>1 DEF Compaction, CompactionRecords
  <2> QED
    BY <2>2 DEF EntryRecords
<1>18. AddedFits(e)
  <2>1. /\ e.type = "compaction" /\ e.covers = covers /\ e.through = items[gone].seq
        /\ e.blank = blank
    BY <1>10 DEF Compaction
  <2> QED
    BY <1>13, <1>15, <1>16, <1>17, <2>1 DEF AddedFits
<1>19. s \in Readings /\ s.step # "summary"
  BY <1>2 DEF Readings, RestRecords
<1>20. /\ reading' \in [{"turn", "user"} -> Readings] /\ reading'[who] = s
       /\ \A other \in {"turn", "user"} : other # who => reading'[other] = reading[other]
  BY <1>3, <1>19, ReadingSet
<1>21. ContextShape'
  BY <1>3, <1>11, <1>17, <1>20, ShapeGrows DEF ContextShape
<1>22. RetractionsFit' /\ CompactionsFit' /\ ResultsFit'
  BY <1>11, <1>18, AddedKeeps
<1>23. ReadingFits'
  <2>1. \A other \in {"turn", "user"} : reading'[other] = reading[other] \/ reading'[other].step # "summary"
    BY <1>19, <1>20
  <2> QED
    BY <1>11, <1>18, <2>1, ReadingsStay
<1>24. TurnFits'
  <2>1. CASE who = "turn"
    <3>1. asked = {} /\ working
      BY <1>1, <1>3, <2>1 DEF TurnFits
    <3> QED
      BY <1>3, <3>1 DEF TurnFits
  <2>2. CASE who # "turn"
    <3>1. reading'["turn"] = reading["turn"]
      BY <1>20, <2>2
    <3>2. ASSUME asked # {}
          PROVE  \E h \in DOMAIN entries' : \A call \in asked :
                    RepliedBy(h, call)' /\ Between(h, Len(entries), call)'
      <4>1. PICK h \in DOMAIN entries : \A call \in asked :
               RepliedBy(h, call) /\ Between(h, Len(entries), call)
        BY <3>2 DEF TurnFits
      <4>2. h \in 1..Len(entries) /\ h \in DOMAIN entries'
        BY <1>11, <1>17, <4>1, Appended
      <4>3. ASSUME NEW call \in asked
            PROVE  RepliedBy(h, call)' /\ Between(h, Len(entries), call)'
        <5>1. RepliedBy(h, call)'
          BY <1>11, <1>17, <4>1, <4>2, StillThere
        <5>2. ASSUME NEW k \in h + 1..Len(entries')
              PROVE  Is(k, "compaction")' \/ (IsTool(k)' /\ entries'[k].answers # call)
          <6>1. k \in h + 1..Len(entries) \/ k = Len(entries) + 1
            BY <1>11, <1>15, <1>17, <4>2, Appended
          <6>2. CASE k = Len(entries) + 1
            <7>1. e.type = "compaction"
              BY <1>10 DEF Compaction
            <7>2. entries'[k] = e /\ k \in DOMAIN entries'
              BY <1>11, <1>15, <1>17, <6>2, Appended
            <7> QED
              BY <7>1, <7>2 DEF Is
          <6>3. CASE k \in h + 1..Len(entries)
            <7>1. k \in 1..Len(entries)
              BY <1>15, <4>2, <6>3
            <7>2. Is(k, "compaction") \/ (IsTool(k) /\ entries[k].answers # call)
              BY <4>1, <6>3 DEF Between
            <7> QED
              BY <1>11, <1>17, <7>1, <7>2, StillThere, Appended
          <6> QED
            BY <6>1, <6>2, <6>3
        <5> QED
          BY <5>1, <5>2 DEF Between
      <4> QED
        BY <4>2, <4>3
    <3> QED
      BY <1>3, <3>1, <3>2 DEF TurnFits
  <2> QED
    BY <2>1, <2>2
<1> QED
  BY <1>21, <1>22, <1>23, <1>24

LEMMA AppendReplyKeeps ==
    ASSUME ContextAssumption, ContextInv, AppendReply PROVE ContextInv'
<1> USE DEF ContextInv
<1>1. PICK s : s = [step |-> "none"]
  OBVIOUS
<1>2. PICK n \in 0..CallsPerReply :
        entries' = Append(entries, Message("assistant", 1..n, 0)) /\ asked' = 1..n
  BY DEF AppendReply
<1>3. PICK e : e = Message("assistant", 1..n, 0)
  OBVIOUS
<1>4. /\ reading["turn"].step = "model" /\ Room /\ working' = working
      /\ entries' = Append(entries, e) /\ asked' = 1..n
      /\ reading' = [reading EXCEPT !["turn"] = s]
  BY <1>1, <1>2, <1>3 DEF AppendReply
<1>5. AddedFits(e) /\ e \in EntryRecords
  <2>1. AddedFits(e)
    BY <1>3, MessagesFit
  <2> QED
    BY <2>1 DEF AddedFits
<1>6. s \in Readings /\ s.step = "none"
  BY <1>1 DEF Readings, RestRecords
<1>7. /\ reading' \in [{"turn", "user"} -> Readings] /\ reading'["turn"] = s
      /\ reading'["user"] = reading["user"]
  BY <1>4, <1>6, ReadingSet
<1>8. ContextShape'
  <2>1. asked' \subseteq 1..CallsPerReply
    BY <1>4 DEF ContextAssumption
  <2>2. working' \in BOOLEAN
    BY <1>4 DEF ContextShape
  <2> QED
    BY <1>4, <1>5, <1>7, <2>1, <2>2, ShapeGrows
<1>9. RetractionsFit' /\ CompactionsFit' /\ ResultsFit'
  BY <1>4, <1>5, AddedKeeps
<1>10. ReadingFits'
  <2>1. \A other \in {"turn", "user"} : reading'[other] = reading[other] \/ reading'[other].step # "summary"
    BY <1>6, <1>7
  <2> QED
    BY <1>4, <1>5, <2>1, ReadingsStay
<1>11. TurnFits'
  <2>1. working'
    BY <1>4 DEF TurnFits
  <2>2. PICK h : h = Len(entries) + 1
    OBVIOUS
  <2>3. /\ h \in DOMAIN entries' /\ entries'[h] = e /\ Len(entries') = h /\ h \in Nat
    BY <1>4, <1>5, <2>2, Appended
  <2>4. ASSUME NEW call \in asked' PROVE RepliedBy(h, call)' /\ Between(h, Len(entries), call)'
    <3>1. e.type = "message" /\ e.role = "assistant" /\ e.calls = 1..n
      BY <1>3 DEF Message
    <3>2. RepliedBy(h, call)'
      BY <1>4, <2>3, <3>1 DEF RepliedBy, Is, IsTool
    <3>3. h + 1..h = {}
      BY <2>3
    <3>4. Between(h, Len(entries), call)'
      BY <2>3, <3>3 DEF Between
    <3> QED
      BY <3>2, <3>4
  <2> QED
    BY <1>6, <1>7, <2>1, <2>3, <2>4 DEF TurnFits
<1> QED
  BY <1>8, <1>9, <1>10, <1>11

LEMMA WriteResultKeeps ==
    ASSUME ContextAssumption, ContextInv, WriteResult PROVE ContextInv'
<1> USE DEF ContextInv
<1>1. PICK least : least = Min(asked)
  OBVIOUS
<1>2. PICK e : e = Message("tool", {}, least)
  OBVIOUS
<1>3. /\ asked # {} /\ Room /\ working' = working /\ reading' = reading
      /\ entries' = Append(entries, e) /\ asked' = asked \ {least}
  BY <1>1, <1>2 DEF WriteResult
<1>4. least \in asked /\ asked \subseteq 1..CallsPerReply
  <2>1. asked \subseteq Nat /\ asked \subseteq 1..CallsPerReply
    BY DEF ContextShape
  <2>2. Min(asked) \in asked
    BY <1>3, <2>1, MinIs
  <2> QED
    BY <1>1, <2>1, <2>2
<1>5. /\ working /\ reading["turn"].step = "none"
      /\ \E r \in DOMAIN entries : \A call \in asked :
           RepliedBy(r, call) /\ Between(r, Len(entries), call)
  BY <1>3 DEF TurnFits
<1>6. PICK r \in DOMAIN entries : \A call \in asked :
        RepliedBy(r, call) /\ Between(r, Len(entries), call)
  BY <1>5
<1>7. r \in 1..Len(entries) /\ Len(entries) \in Nat
  BY <1>6, EntriesAre
<1>8. /\ e.type = "message" /\ e.role = "tool" /\ e.answers = least /\ e \in EntryRecords
  <2>1. {} \in SUBSET (1..CallsPerReply) /\ least \in 0..CallsPerReply
    BY <1>4 DEF ContextAssumption
  <2>2. e \in MessageRecords
    BY <1>2, <2>1 DEF Message, MessageRecords
  <2> QED
    BY <1>2, <2>2 DEF Message, EntryRecords
<1>9. AddedFits(e)
  BY <1>4, <1>6, <1>7, <1>8 DEF AddedFits
<1>10. ContextShape'
  <2>1. asked' \subseteq 1..CallsPerReply /\ working' \in BOOLEAN
        /\ reading' \in [{"turn", "user"} -> Readings]
    BY <1>3, <1>4 DEF ContextShape, Readings
  <2> QED
    BY <1>3, <1>8, <2>1, ShapeGrows
<1>11. RetractionsFit' /\ CompactionsFit' /\ ResultsFit'
  BY <1>3, <1>9, AddedKeeps
<1>12. ReadingFits'
  BY <1>3, <1>9, ReadingsStay
<1>13. TurnFits'
  <2>1. r \in DOMAIN entries'
    BY <1>3, <1>7, <1>8, Appended
  <2>2. ASSUME NEW call \in asked' PROVE RepliedBy(r, call)' /\ Between(r, Len(entries), call)'
    <3>1. call \in asked /\ call # least
      BY <1>3, <2>2
    <3>2. RepliedBy(r, call)'
      BY <1>3, <1>6, <1>7, <1>8, <3>1, StillThere
    <3>3. ASSUME NEW k \in r + 1..Len(entries')
          PROVE  Is(k, "compaction")' \/ (IsTool(k)' /\ entries'[k].answers # call)
      <4>1. k \in r + 1..Len(entries) \/ k = Len(entries) + 1
        BY <1>3, <1>7, <1>8, Appended
      <4>2. CASE k = Len(entries) + 1
        <5>1. entries'[k] = e /\ k \in DOMAIN entries'
          BY <1>3, <1>7, <1>8, <4>2, Appended
        <5> QED
          BY <1>8, <3>1, <5>1 DEF IsTool, Is
      <4>3. CASE k \in r + 1..Len(entries)
        <5>1. k \in 1..Len(entries)
          BY <1>7, <4>3
        <5>2. Is(k, "compaction") \/ (IsTool(k) /\ entries[k].answers # call)
          BY <1>6, <3>1, <4>3 DEF Between
        <5> QED
          BY <1>3, <1>8, <5>1, <5>2, StillThere, Appended
      <4> QED
        BY <4>1, <4>2, <4>3
    <3> QED
      BY <3>2, <3>3 DEF Between
  <2> QED
    BY <1>3, <1>5, <2>1, <2>2 DEF TurnFits
<1> QED
  BY <1>10, <1>11, <1>12, <1>13

LEMMA ShownIs ==
    ASSUME ContextShape, RetractionsFit
    PROVE  Shown = Seen(1, Len(entries))
<1>1. PICK seen : seen = ReadFrom(1)
  OBVIOUS
<1>2. Ascends(seen, 1, Len(entries))
  BY <1>1, ReadFromIs
<1>3. DOMAIN seen = 1..Len(seen)
  <2>1. seen \in Seq(1..Len(entries))
    BY <1>2 DEF Ascends
  <2> QED
    BY <2>1, LenProperties
<1>4. Range(seen) = Seen(1, Len(entries))
  BY <1>2, <1>3 DEF Ascends, Range
<1> QED
  BY <1>1, <1>4 DEF Shown

LEMMA RetractKeeps ==
    ASSUME ContextAssumption, ContextInv, Retract PROVE ContextInv'
<1> USE DEF ContextInv
<1>1. PICK users : users = {i \in Shown : entries[i].role = "user"}
  OBVIOUS
<1>2. PICK last : last = Max(users)
  OBVIOUS
<1>3. PICK e : e = Retraction(last)
  OBVIOUS
<1>4. /\ ~working /\ Room /\ working' = working /\ asked' = asked /\ reading' = reading
      /\ users # {} /\ entries' = Append(entries, e)
  BY <1>1, <1>2, <1>3 DEF Retract
<1>5. Len(entries) \in Nat
  BY EntriesAre
<1>6. last \in Seen(1, Len(entries))
  <2>1. users \subseteq Seen(1, Len(entries))
    BY <1>1, ShownIs
  <2>2. users \subseteq Nat /\ \A x \in users : x <= Len(entries)
    BY <1>5, <2>1 DEF Seen
  <2>3. Max(users) \in users
    BY <1>4, <1>5, <2>2, MaxIs
  <2> QED
    BY <1>2, <2>1, <2>3
<1>7. Is(last, "message") /\ last \in Nat /\ \A h \in last + 1..Len(entries) : ~CutBy(h, last, 1)
  BY <1>6 DEF Seen
<1>8. e \in EntryRecords /\ e.type = "retraction" /\ e.from = last
  BY <1>3, <1>7 DEF Retraction, EntryRecords, RetractionRecords
<1>9. AddedFits(e)
  BY <1>7, <1>8 DEF AddedFits
<1>10. ContextShape'
  <2>1. asked' \subseteq 1..CallsPerReply /\ working' \in BOOLEAN
        /\ reading' \in [{"turn", "user"} -> Readings]
    BY <1>4 DEF ContextShape, Readings
  <2> QED
    BY <1>4, <1>8, <2>1, ShapeGrows
<1>11. RetractionsFit' /\ CompactionsFit' /\ ResultsFit'
  BY <1>4, <1>9, AddedKeeps
<1>12. ReadingFits'
  BY <1>4, <1>9, ReadingsStay
<1>13. TurnFits'
  BY <1>4 DEF TurnFits
<1> QED
  BY <1>10, <1>11, <1>12, <1>13

LEMMA ContextKept ==
    ASSUME ContextAssumption, ContextInv, [ContextNext]_contextVars
    PROVE  ContextInv'
<1>1. CASE BeginWork
  BY <1>1, BeginWorkKeeps
<1>2. CASE EndWork
  BY <1>2, EndWorkKeeps
<1>3. CASE LookForRuns
  BY <1>3, LookForRunsKeeps
<1>4. ASSUME NEW who \in {"turn", "user"}, ReadTranscript(who) PROVE ContextInv'
  BY <1>4, ReadTranscriptKeeps
<1>5. ASSUME NEW who \in {"turn", "user"}, GiveUpCompaction(who) PROVE ContextInv'
  BY <1>5, CompactionEndKeeps
<1>6. ASSUME NEW who \in {"turn", "user"}, WriteCompaction(who) PROVE ContextInv'
  BY <1>6, WriteCompactionKeeps
<1>7. CASE AppendReply
  BY <1>7, AppendReplyKeeps
<1>8. CASE WriteResult
  BY <1>8, WriteResultKeeps
<1>9. CASE Retract
  BY <1>9, RetractKeeps
<1>10. CASE UNCHANGED contextVars
  <2>1. entries' = entries /\ working' = working /\ asked' = asked /\ reading' = reading
    BY <1>10 DEF contextVars
  <2>2. RetractionsFit' /\ CompactionsFit' /\ ResultsFit'
    BY <2>1, NothingAdded DEF ContextInv
  <2>3. ReadingFits'
    BY <2>1, SameReadings DEF ContextInv
  <2>4. TurnFits'
    BY <2>1 DEF ContextInv, TurnFits, RepliedBy, Between, Is, IsTool
  <2>5. ContextShape'
    BY <2>1 DEF ContextInv, ContextShape
  <2> QED
    BY <2>2, <2>3, <2>4, <2>5 DEF ContextInv
<1> QED
  BY <1>1, <1>2, <1>3, <1>4, <1>5, <1>6, <1>7, <1>8, <1>9, <1>10 DEF ContextNext

LEMMA ContextTyped ==
    ASSUME ContextInv PROVE ContextTypeOK
<1> USE DEF ContextInv
<1>1. \A i : i \in OfType("compaction") <=> Is(i, "compaction")
  BY DEF OfType, Is
<1>2. \A i : i \in OfType("retraction") <=> Is(i, "retraction")
  BY DEF OfType, Is
<1>3. \A i : i \in OfType("message") <=> Is(i, "message")
  BY DEF OfType, Is
<1>4. \A i \in OfType("compaction") :
        entries[i].through < i /\ entries[i].covers \subseteq OfType("message")
  BY <1>1, <1>3 DEF CompactionsFit, Is
<1>5. \A i \in OfType("retraction") : entries[i].from \in OfType("message") /\ entries[i].from < i
  BY <1>2, <1>3 DEF RetractionsFit, Is
<1>6. \A who \in {"turn", "user"} : reading[who].step \in {"none", "look", "summary", "model"}
  <2>1. \A who \in {"turn", "user"} : reading[who] \in RestRecords \cup SummaryRecords
    BY DEF ContextShape
  <2> QED
    BY <2>1 DEF RestRecords, SummaryRecords
<1> QED
  BY <1>4, <1>5, <1>6 DEF ContextTypeOK, ContextShape

LEMMA ContextRemembers ==
    ASSUME ContextAssumption, ContextInv PROVE NothingForgotten
<1> USE DEF ContextInv
<1>1. PICK c : c = LatestCompaction
  OBVIOUS
<1>2. PICK given : given = Window(LatestCompaction)
  OBVIOUS
<1>3. /\ c.through \in Nat /\ \A m \in Said : m <= c.through => m \in c.covers
  BY <1>1, LatestIs
<1>4. WindowFits(given, c.through + 1)
  <2>1. c.through + 1 \in Nat \ {0}
    BY <1>3
  <2> QED
    BY <1>1, <1>2, <2>1, WindowIs DEF Window
<1>5. DOMAIN given = 1..Len(given)
  BY <1>4, LenProperties DEF WindowFits
<1>6. \A p \in 1..Len(given) : given[p].seq \in Sequences(given)
  BY <1>5 DEF Sequences
<1>7. DOMAIN entries = 1..Len(entries) /\ Len(entries) \in Nat
  BY EntriesAre
\* What is no result is in the summary or in the window.
<1>8. ASSUME NEW i \in Said PROVE i \in c.covers \/ i \in Sequences(given)
  <2>1. CASE i <= c.through
    BY <1>3, <2>1
  <2>2. CASE ~(i <= c.through)
    <3>1. i \in Seen(c.through + 1, Len(entries)) /\ entries[i].role # "tool"
      BY <1>3, <2>2, SaidSeen DEF Said
    <3>2. \E p \in 1..Len(given) : given[p].seq = i
      BY <1>4, <3>1 DEF WindowFits
    <3> QED
      BY <1>6, <3>2
  <2> QED
    BY <2>1, <2>2
\* A result is in the window, unless its reply went into the summary.
<1>9. ASSUME NEW i \in Seen(1, Len(entries)), entries[i].role = "tool"
      PROVE  \/ i \in Sequences(given)
             \/ Max({k \in 1..i : entries[k].type = "message" /\ entries[k].role # "tool"}) \in c.covers
  <2>1. IsTool(i) /\ i \in 1..Len(entries)
    BY <1>9 DEF Seen, IsTool
  <2>2. PICK r \in 1..i - 1 :
          RepliedBy(r, entries[i].answers) /\ Between(r, i - 1, entries[i].answers)
    BY <1>7, <2>1 DEF ResultsFit
  <2>3. r \in 1..Len(entries) /\ r < i /\ i \in Nat /\ r \in Nat
    BY <1>7, <2>1
  <2>4. Is(r, "message") /\ ~IsTool(r) /\ entries[r].role # "tool" /\ entries[r].type = "message"
    BY <2>2 DEF RepliedBy, IsTool, Is
  <2>5. ASSUME NEW k \in r + 1..i PROVE ~(entries[k].type = "message" /\ entries[k].role # "tool")
    <3>1. CASE k = i
      BY <1>9, <3>1
    <3>2. CASE k # i
      <4>1. k \in r + 1..i - 1
        BY <2>3, <3>2
      <4>2. Is(k, "compaction") \/ IsTool(k)
        BY <2>2, <4>1 DEF Between
      <4> QED
        BY <4>2 DEF Is, IsTool
    <3> QED
      BY <3>1, <3>2
  <2>6. r \in Said
    <3>1. ASSUME NEW j \in r + 1..Len(entries), CutBy(j, r, 1) PROVE FALSE
      <4>1. entries[j].type = "retraction" /\ entries[j].from <= r /\ 1 <= entries[j].from
        BY <3>1 DEF CutBy
      <4>2. j \in 1..Len(entries) /\ entries[j].from \in Nat
        <5>1. j \in 1..Len(entries)
          BY <1>7, <2>3
        <5>2. Is(j, "retraction")
          BY <1>7, <4>1, <5>1 DEF Is
        <5> QED
          BY <5>1, <5>2, EntriesAre DEF RetractionRecords
      <4>3. CASE j \in r + 1..i
        <5>1. CASE j = i
          BY <2>1, <4>1, <5>1 DEF IsTool, Is
        <5>2. CASE j # i
          <6>1. j \in r + 1..i - 1
            BY <2>3, <4>3, <5>2
          <6>2. Is(j, "compaction") \/ IsTool(j)
            BY <2>2, <6>1 DEF Between
          <6> QED
            BY <4>1, <6>2 DEF Is, IsTool
        <5> QED
          BY <5>1, <5>2
      <4>4. CASE ~(j \in r + 1..i)
        <5>1. j \in i + 1..Len(entries)
          BY <1>7, <2>3, <4>2, <4>4
        <5>2. entries[j].from <= i
          BY <2>3, <4>1, <4>2
        <5>3. CutBy(j, i, 1)
          BY <4>1, <5>2 DEF CutBy
        <5> QED
          BY <1>9, <5>1, <5>3 DEF Seen
      <4> QED
        BY <4>3, <4>4
    <3> QED
      BY <2>3, <2>4, <3>1 DEF Said, Seen
  <2>7. CASE r <= c.through
    <3> DEFINE K == {k \in 1..i : entries[k].type = "message" /\ entries[k].role # "tool"}
    <3>1. r \in K /\ K \subseteq Nat /\ \A k \in K : k <= i
      BY <2>3, <2>4
    <3>2. \A k \in K : k <= r
      BY <2>3, <2>5
    <3> HIDE DEF K
    <3>3. Max(K) \in K /\ \A k \in K : k <= Max(K)
      BY <2>3, <3>1, MaxIs
    <3>4. Max(K) = r
      <4>1. PICK top : top = Max(K)
        OBVIOUS
      <4>2. top \in K /\ r <= top /\ top <= r /\ top \in Nat
        BY <3>1, <3>2, <3>3, <4>1
      <4> QED
        BY <2>3, <4>1, <4>2
    <3>5. Max(K) \in c.covers
      BY <1>3, <2>6, <2>7, <3>4
    <3> QED
      BY <3>5 DEF K
  <2>8. CASE ~(r <= c.through)
    <3>1. r \in Seen(c.through + 1, Len(entries))
      BY <1>3, <2>6, <2>8, SaidSeen DEF Said
    <3>2. i \in Seen(c.through + 1, Len(entries))
      <4>1. ~(i <= c.through)
        BY <1>3, <2>3, <2>8
      <4> QED
        BY <1>3, <1>9, <4>1, SaidSeen
    <3>3. \E p \in 1..Len(given) : given[p].seq = i
      BY <1>4, <2>1, <2>2, <2>3, <3>1, <3>2 DEF WindowFits
    <3> QED
      BY <1>6, <3>3
  <2> QED
    BY <2>7, <2>8
<1>10. ASSUME NEW i \in Shown
       PROVE  \/ i \in c.covers \cup Sequences(given)
              \/ /\ entries[i].role = "tool"
                 /\ Max({k \in 1..i : entries[k].type = "message" /\ entries[k].role # "tool"}) \in c.covers
  <2>1. i \in Seen(1, Len(entries))
    BY ShownIs
  <2>2. CASE entries[i].role = "tool"
    BY <1>9, <2>1, <2>2
  <2>3. CASE entries[i].role # "tool"
    <3>1. i \in Said
      BY <2>1, <2>3 DEF Said
    <3> QED
      BY <1>8, <3>1
  <2> QED
    BY <2>2, <2>3
<1> QED
  BY <1>1, <1>2, <1>10 DEF NothingForgotten

LEMMA ContextAlways ==
    ASSUME ContextAssumption PROVE ContextSpec => []ContextInv
<1>1. ContextInit => ContextInv
  BY ContextStarts
<1>2. ContextInv /\ [ContextNext]_contextVars => ContextInv'
  BY ContextKept
<1> QED
  BY <1>1, <1>2, PTL DEF ContextSpec

\* Whatever compactions overlap, a turn's and the user's, everything the user
\* still sees reaches the model (context.go, BuildObserved, CompactNow).
THEOREM ContextForgetsNothing == ContextSpec => []NothingForgotten
<1>1. ContextSpec => []ContextInv
  BY ContextAlways, ContextAssumption
<1>2. ContextInv => NothingForgotten
  BY ContextRemembers, ContextAssumption
<1> QED
  BY <1>1, <1>2, PTL

-----------------------------------------------------------------------------
(* ThinkTags: what is shown while an answer arrives is what is stored.     *)

Fragments == [atom : Atoms, thinking : BOOLEAN]
Awaitable == {"channel", "role", "other"}
SplitRecords ==
    [left : Seq(Atoms), thinking : BOOLEAN, sawMarker : BOOLEAN, awaited : Awaitable,
     out : Seq(Fragments)]
StreamRecords ==
    [pending : Seq(Atoms), thinking : BOOLEAN, sawMarker : BOOLEAN, awaited : Awaitable,
     shown : Seq(Fragments)]

MarkAt(atoms, i) == i \in 1..Len(atoms) /\ \E end \in 1..Len(atoms) : IsMarker(atoms, i, end)

\* What begins at i may become a marker yet; a marker that was not held back.
Unclosed(atoms, i) ==
    /\ atoms[i] \in AllKinds
    /\ \A j \in (i + 1)..Len(atoms) : atoms[i] \in {"open", "close"} /\ atoms[j] = Space
Long(atoms) ==
    \E i, end \in 1..Len(atoms) : IsMarker(atoms, i, end) /\ end - i > MaxHold

\* The text is taken apart up to the marker before st.
StartOf(atoms) == [left |-> atoms, thinking |-> FALSE, sawMarker |-> FALSE,
                   awaited |-> "other", out |-> <<>>]
Chain(f, n, atoms) ==
    /\ f \in [0..n -> SplitRecords] /\ f[0] = StartOf(atoms)
    /\ \A k \in 1..n : FirstMarker(f[k - 1].left) # 0 /\ f[k] = SplitStep(f[k - 1])

\* The name that st begins with, and how what follows it is read.
NameOf(st) == IF st.awaited = "other" THEN 0 ELSE LeadingWord(st.left)
Reading(st) == IF st.awaited = "channel" THEN ChannelThinks(SubSeq(st.left, 1, NameOf(st)), st.thinking)
           ELSE st.thinking

\* The stream waits for the name that st begins with, or has passed c atoms of
\* it, name and all, in which no marker is complete.
Waits(st, s) ==
    /\ st.awaited # "other" /\ s.awaited = st.awaited /\ s.pending = st.left
    /\ s.thinking = st.thinking /\ s.shown = st.out
Flows(st, s, c) ==
    /\ s.awaited = "other" /\ c \in NameOf(st)..Len(st.left) /\ s.pending = From(st.left, c + 1)
    /\ s.thinking = Reading(st)
    /\ s.shown = st.out \o Tagged(SubSeq(st.left, NameOf(st) + 1, c), Reading(st))
    /\ \A i \in 1..c : ~MarkAt(st.left, i)

\* Whatever comes yet completes no name in what was passed, and no marker that
\* is not too long.
Settled(st, c) ==
    /\ \A i \in 1..c : Unclosed(st.left, i) => Len(st.left) + 1 - i > MaxHold
    /\ st.awaited # "other" => NameOf(st) < Len(st.left)

Agrees(st, s, final) ==
    /\ s.sawMarker = st.sawMarker
    /\ Waits(st, s) \/ \E c \in Nat : Flows(st, s, c) /\ (~final => Settled(st, c))

Paced(atoms, s, final) ==
    \E n \in Nat : \E f : Chain(f, n, atoms) /\ Agrees(f[n], s, final)

Orphan(atoms) == FirstMarker(atoms) # 0 /\ atoms[FirstMarker(atoms)] = "close"

TagsInv ==
    /\ TagsTypeOK /\ stream \in StreamRecords
    /\ ~OrphanClose /\ ~LongMarker => Paced(text, stream, FALSE)

\* Cuts of sequences.
LEMMA CutIs ==
    ASSUME NEW S, NEW x \in Seq(S), NEW a \in Nat \ {0}, NEW b \in Nat, a <= b + 1, b <= Len(x)
    PROVE  /\ SubSeq(x, a, b) \in Seq(S) /\ Len(SubSeq(x, a, b)) = b + 1 - a
           /\ \A i \in 1..(b + 1 - a) : SubSeq(x, a, b)[i] = x[a + i - 1]
<1>1. Len(x) \in Nat
  BY LenProperties
<1>2. \A i \in a..b : x[i] \in S
  <2> TAKE i \in a..b
  <2>1. i \in 1..Len(x)
    BY <1>1
  <2> QED
    BY <2>1, ElementOfSeq
<1>3. /\ SubSeq(x, a, b) \in Seq(S) /\ Len(SubSeq(x, a, b)) = IF a <= b THEN b - a + 1 ELSE 0
      /\ \A i \in 1..b - a + 1 : SubSeq(x, a, b)[i] = x[a + i - 1]
  BY <1>2, SubSeqProperties
<1>4. b - a + 1 = b + 1 - a /\ (~(a <= b) => b + 1 - a = 0)
  OBVIOUS
<1> QED
  BY <1>3, <1>4

LEMMA FromIs ==
    ASSUME NEW S, NEW x \in Seq(S), NEW a \in Nat \ {0}, a <= Len(x) + 1
    PROVE  /\ From(x, a) \in Seq(S) /\ Len(From(x, a)) = Len(x) + 1 - a
           /\ \A i \in 1..(Len(x) + 1 - a) : From(x, a)[i] = x[a + i - 1]
           /\ From(x, a) = SubSeq(x, a, Len(x))
<1>1. Len(x) \in Nat
  BY LenProperties
<1> QED
  BY <1>1, CutIs DEF From

LEMMA FromAfter ==
    ASSUME NEW S, NEW x \in Seq(S), NEW a \in Nat, a <= Len(x)
    PROVE  /\ From(x, a + 1) \in Seq(S) /\ Len(From(x, a + 1)) = Len(x) - a
           /\ \A i \in 1..Len(x) - a : From(x, a + 1)[i] = x[a + i]
<1>1. Len(x) \in Nat
  BY LenProperties
<1>2. a + 1 \in Nat \ {0} /\ a + 1 <= Len(x) + 1 /\ Len(x) + 1 - (a + 1) = Len(x) - a
  BY <1>1
<1>3. /\ From(x, a + 1) \in Seq(S) /\ Len(From(x, a + 1)) = Len(x) + 1 - (a + 1)
      /\ \A i \in 1..(Len(x) + 1 - (a + 1)) : From(x, a + 1)[i] = x[a + 1 + i - 1]
  BY <1>2, FromIs
<1>4. \A i \in 1..Len(x) - a : a + 1 + i - 1 = a + i
  BY <1>1
<1> QED
  BY <1>2, <1>3, <1>4

LEMMA FromAll ==
    ASSUME NEW S, NEW x \in Seq(S)
    PROVE  From(x, 1) = x /\ From(x, Len(x) + 1) = <<>>
<1>1. Len(x) \in Nat
  BY LenProperties
<1>2. From(x, 1) = x
  <2>1. /\ From(x, 1) \in Seq(S) /\ Len(From(x, 1)) = Len(x) + 1 - 1
        /\ \A i \in 1..(Len(x) + 1 - 1) : From(x, 1)[i] = x[1 + i - 1]
    <3>1. 1 \in Nat \ {0} /\ 1 <= Len(x) + 1
      BY <1>1
    <3> QED
      BY <3>1, FromIs
  <2>2. Len(x) + 1 - 1 = Len(x) /\ \A i \in 1..Len(x) : 1 + i - 1 = i
    BY <1>1
  <2>3. Len(From(x, 1)) = Len(x) /\ \A i \in 1..Len(From(x, 1)) : From(x, 1)[i] = x[i]
    BY <2>1, <2>2
  <2> QED
    BY <2>1, <2>3, SeqEqual
<1>3. From(x, Len(x) + 1) = <<>>
  <2>1. From(x, Len(x) + 1) \in Seq(S) /\ Len(From(x, Len(x) + 1)) = 0
    <3>1. Len(x) + 1 \in Nat \ {0} /\ Len(x) + 1 <= Len(x) + 1 /\ Len(x) + 1 - (Len(x) + 1) = 0
      BY <1>1
    <3> QED
      BY <3>1, FromIs
  <2> QED
    BY <2>1, EmptySeq
<1> QED
  BY <1>2, <1>3

LEMMA FromFrom ==
    ASSUME NEW S, NEW x \in Seq(S), NEW a \in Nat, a <= Len(x), NEW b \in Nat, a + b <= Len(x)
    PROVE  From(From(x, a + 1), b + 1) = From(x, a + b + 1)
<1>1. Len(x) \in Nat
  BY LenProperties
<1>2. PICK y : y = From(x, a + 1)
  OBVIOUS
<1>3. /\ y \in Seq(S) /\ Len(y) = Len(x) - a /\ \A i \in 1..Len(x) - a : y[i] = x[a + i]
  BY <1>2, FromAfter
<1>4. PICK z : z = From(y, b + 1)
  OBVIOUS
<1>5. z \in Seq(S) /\ Len(z) = Len(y) - b /\ \A i \in 1..Len(y) - b : z[i] = y[b + i]
  <2>1. b <= Len(y)
    BY <1>1, <1>3
  <2>2. y \in Seq(S) /\ b \in Nat
    BY <1>3
  <2>3. /\ From(y, b + 1) \in Seq(S) /\ Len(From(y, b + 1)) = Len(y) - b
        /\ \A i \in 1..Len(y) - b : From(y, b + 1)[i] = y[b + i]
    BY <2>1, <2>2, FromAfter
  <2> QED
    BY <1>4, <2>3
<1>6. PICK c : c = a + b
  OBVIOUS
<1>7. PICK w : w = From(x, c + 1)
  OBVIOUS
<1>8. w \in Seq(S) /\ Len(w) = Len(x) - c /\ \A i \in 1..Len(x) - c : w[i] = x[c + i]
  <2>1. c \in Nat /\ c <= Len(x)
    BY <1>6
  <2> QED
    BY <1>7, <2>1, FromAfter
<1>9. Len(z) = Len(w)
  BY <1>1, <1>3, <1>5, <1>6, <1>8
<1>10. ASSUME NEW i \in 1..Len(z) PROVE z[i] = w[i]
  <2>1. i \in 1..Len(y) - b /\ i \in 1..Len(x) - c
    BY <1>5, <1>8, <1>9
  <2>2. b + i \in 1..Len(x) - a /\ a + (b + i) = c + i
    BY <1>1, <1>6, <2>1
  <2>3. z[i] = y[b + i] /\ y[b + i] = x[a + (b + i)] /\ w[i] = x[c + i]
    BY <1>3, <1>5, <1>8, <2>1, <2>2
  <2> QED
    BY <2>2, <2>3
<1>11. z = w
  BY <1>5, <1>8, <1>9, <1>10, SeqEqual
<1>12. c + 1 = a + b + 1
  BY <1>6
<1> QED
  BY <1>2, <1>4, <1>7, <1>11, <1>12

LEMMA CutOfFrom ==
    ASSUME NEW S, NEW x \in Seq(S), NEW a \in Nat, NEW b \in Nat, a + b <= Len(x)
    PROVE  SubSeq(From(x, a + 1), 1, b) = SubSeq(x, a + 1, a + b)
<1>1. Len(x) \in Nat
  BY LenProperties
<1>2. PICK y : y = From(x, a + 1)
  OBVIOUS
<1>3. /\ y \in Seq(S) /\ Len(y) = Len(x) - a /\ \A i \in 1..Len(x) - a : y[i] = x[a + 1 + i - 1]
  <2>1. a <= Len(x) /\ \A i \in 1..Len(x) - a : a + 1 + i - 1 = a + i
    BY <1>1
  <2>2. /\ From(x, a + 1) \in Seq(S) /\ Len(From(x, a + 1)) = Len(x) - a
        /\ \A i \in 1..Len(x) - a : From(x, a + 1)[i] = x[a + i]
    BY <2>1, FromAfter
  <2> QED
    BY <1>2, <2>1, <2>2
<1>4. PICK z : z = SubSeq(y, 1, b)
  OBVIOUS
<1>5. z \in Seq(S) /\ Len(z) = b /\ \A i \in 1..b : z[i] = y[1 + i - 1]
  <2>1. 1 \in Nat \ {0} /\ 1 <= b + 1 /\ b <= Len(y) /\ b + 1 - 1 = b
    BY <1>1, <1>3
  <2> QED
    BY <1>3, <1>4, <2>1, CutIs
<1>6. PICK w : w = SubSeq(x, a + 1, a + b)
  OBVIOUS
<1>7. w \in Seq(S) /\ Len(w) = b /\ \A i \in 1..b : w[i] = x[a + 1 + i - 1]
  <2>1. /\ a + 1 \in Nat \ {0} /\ a + b \in Nat /\ a + 1 <= a + b + 1 /\ a + b + 1 - (a + 1) = b
    BY <1>1
  <2> QED
    BY <1>6, <2>1, CutIs
<1>8. ASSUME NEW i \in 1..b PROVE z[i] = w[i]
  <2>1. 1 + i - 1 = i /\ i \in 1..Len(x) - a
    BY <1>1
  <2> QED
    BY <1>3, <1>5, <1>7, <2>1
<1>9. z = w
  BY <1>5, <1>7, <1>8, SeqEqual
<1> QED
  BY <1>2, <1>4, <1>6, <1>9

LEMMA CutOfCut ==
    ASSUME NEW S, NEW x \in Seq(S), NEW a \in Nat \ {0}, NEW b \in Nat, NEW m \in Nat,
           a <= b + 1, b <= m, m <= Len(x)
    PROVE  SubSeq(SubSeq(x, 1, m), a, b) = SubSeq(x, a, b)
<1>1. Len(x) \in Nat
  BY LenProperties
<1>2. PICK y : y = SubSeq(x, 1, m)
  OBVIOUS
<1>3. y \in Seq(S) /\ Len(y) = m /\ \A i \in 1..m : y[i] = x[1 + i - 1]
  <2>1. 1 \in Nat \ {0} /\ 1 <= m + 1 /\ m + 1 - 1 = m
    OBVIOUS
  <2> QED
    BY <1>2, <2>1, CutIs
<1>4. PICK z : z = SubSeq(y, a, b)
  OBVIOUS
<1>5. z \in Seq(S) /\ Len(z) = b + 1 - a /\ \A i \in 1..(b + 1 - a) : z[i] = y[a + i - 1]
  BY <1>3, <1>4, CutIs
<1>6. PICK w : w = SubSeq(x, a, b)
  OBVIOUS
<1>7. w \in Seq(S) /\ Len(w) = b + 1 - a /\ \A i \in 1..(b + 1 - a) : w[i] = x[a + i - 1]
  <2>1. b <= Len(x)
    BY <1>1
  <2> QED
    BY <1>6, <2>1, CutIs
<1>8. ASSUME NEW i \in 1..(b + 1 - a) PROVE z[i] = w[i]
  <2>1. a + i - 1 \in 1..m /\ 1 + (a + i - 1) - 1 = a + i - 1
    OBVIOUS
  <2>2. PICK j : j = a + i - 1
    OBVIOUS
  <2>3. y[j] = x[j]
    BY <1>3, <2>1, <2>2
  <2> QED
    BY <1>5, <1>7, <2>2, <2>3
<1>9. z = w
  BY <1>5, <1>7, <1>8, SeqEqual
<1> QED
  BY <1>2, <1>4, <1>6, <1>9

LEMMA CutOfLonger ==
    ASSUME NEW S, NEW x \in Seq(S), NEW y \in Seq(S), NEW a \in Nat \ {0}, NEW b \in Nat,
           a <= b + 1, b <= Len(x)
    PROVE  SubSeq(x \o y, a, b) = SubSeq(x, a, b)
<1>1. Len(x) \in Nat /\ Len(y) \in Nat
  BY LenProperties
<1>2. PICK w : w = x \o y
  OBVIOUS
<1>3. /\ w \in Seq(S) /\ Len(w) = Len(x) + Len(y)
      /\ \A i \in 1..Len(x) + Len(y) : w[i] = IF i <= Len(x) THEN x[i] ELSE y[i - Len(x)]
  BY <1>2, ConcatProperties
<1>4. /\ SubSeq(w, a, b) \in Seq(S) /\ Len(SubSeq(w, a, b)) = b + 1 - a
      /\ \A i \in 1..(b + 1 - a) : SubSeq(w, a, b)[i] = w[a + i - 1]
  <2>1. b <= Len(w)
    BY <1>1, <1>3
  <2> QED
    BY <1>3, <2>1, CutIs
<1>5. /\ SubSeq(x, a, b) \in Seq(S) /\ Len(SubSeq(x, a, b)) = b + 1 - a
      /\ \A i \in 1..(b + 1 - a) : SubSeq(x, a, b)[i] = x[a + i - 1]
  BY CutIs
<1>6. ASSUME NEW i \in 1..(b + 1 - a) PROVE SubSeq(w, a, b)[i] = SubSeq(x, a, b)[i]
  <2>1. PICK j : j = a + i - 1
    OBVIOUS
  <2>2. j \in 1..Len(x) + Len(y) /\ j <= Len(x)
    BY <1>1, <2>1
  <2>3. w[j] = x[j]
    BY <1>3, <2>2
  <2> QED
    BY <1>4, <1>5, <2>1, <2>3
<1>7. SubSeq(w, a, b) = SubSeq(x, a, b)
  BY <1>4, <1>5, <1>6, SeqEqual
<1> QED
  BY <1>2, <1>7

LEMMA FromOfLonger ==
    ASSUME NEW S, NEW x \in Seq(S), NEW y \in Seq(S), NEW a \in Nat, a <= Len(x)
    PROVE  From(x \o y, a + 1) = From(x, a + 1) \o y
<1>1. Len(x) \in Nat /\ Len(y) \in Nat
  BY LenProperties
<1>2. PICK w : w = x \o y
  OBVIOUS
<1>3. /\ w \in Seq(S) /\ Len(w) = Len(x) + Len(y)
      /\ \A i \in 1..Len(x) + Len(y) : w[i] = IF i <= Len(x) THEN x[i] ELSE y[i - Len(x)]
  BY <1>2, ConcatProperties
<1>4. PICK u : u = From(w, a + 1)
  OBVIOUS
<1>5. u \in Seq(S) /\ Len(u) = Len(w) - a /\ \A i \in 1..Len(w) - a : u[i] = w[a + i]
  <2>1. a <= Len(w)
    BY <1>1, <1>3
  <2>2. w \in Seq(S) /\ a \in Nat
    BY <1>3
  <2>3. /\ From(w, a + 1) \in Seq(S) /\ Len(From(w, a + 1)) = Len(w) - a
        /\ \A i \in 1..Len(w) - a : From(w, a + 1)[i] = w[a + i]
    BY <2>1, <2>2, FromAfter
  <2> QED
    BY <1>4, <2>3
<1>6. PICK v : v = From(x, a + 1)
  OBVIOUS
<1>7. v \in Seq(S) /\ Len(v) = Len(x) - a /\ \A i \in 1..Len(x) - a : v[i] = x[a + i]
  BY <1>6, FromAfter
<1>8. PICK z : z = v \o y
  OBVIOUS
<1>9. /\ z \in Seq(S) /\ Len(z) = Len(v) + Len(y)
      /\ \A i \in 1..Len(v) + Len(y) : z[i] = IF i <= Len(v) THEN v[i] ELSE y[i - Len(v)]
  BY <1>7, <1>8, ConcatProperties
<1>10. Len(z) = Len(u)
  BY <1>1, <1>3, <1>5, <1>7, <1>9
<1>11. ASSUME NEW i \in 1..Len(u) PROVE u[i] = z[i]
  <2>1. PICK j : j = a + i
    OBVIOUS
  <2>2. j \in 1..Len(x) + Len(y) /\ i \in 1..Len(v) + Len(y) /\ i \in 1..Len(w) - a
    BY <1>1, <1>3, <1>5, <1>7, <2>1
  <2>3. u[i] = w[j] /\ w[j] = IF j <= Len(x) THEN x[j] ELSE y[j - Len(x)]
    BY <1>3, <1>5, <2>1, <2>2
  <2>4. z[i] = IF i <= Len(v) THEN v[i] ELSE y[i - Len(v)]
    BY <1>9, <2>2
  <2>5. CASE j <= Len(x)
    <3>1. i <= Len(v) /\ i \in 1..Len(x) - a
      BY <1>1, <1>7, <2>1, <2>2, <2>5
    <3>2. v[i] = x[j]
      BY <1>7, <2>1, <3>1
    <3> QED
      BY <2>3, <2>4, <2>5, <3>1, <3>2
  <2>6. CASE ~(j <= Len(x))
    <3>1. ~(i <= Len(v)) /\ i - Len(v) = j - Len(x)
      BY <1>1, <1>7, <2>1, <2>2, <2>6
    <3> QED
      BY <2>3, <2>4, <2>6, <3>1
  <2> QED
    BY <2>5, <2>6
<1>12. u = z
  BY <1>5, <1>9, <1>10, <1>11, SeqEqual
<1> QED
  BY <1>2, <1>4, <1>6, <1>8, <1>12

LEMMA TaggedIs ==
    ASSUME NEW x \in Seq(Atoms), NEW t \in BOOLEAN
    PROVE  /\ Tagged(x, t) \in Seq(Fragments) /\ Len(Tagged(x, t)) = Len(x)
           /\ \A i \in 1..Len(x) : Tagged(x, t)[i] = [atom |-> x[i], thinking |-> t]
<1>1. Len(x) \in Nat /\ DOMAIN x = 1..Len(x)
  BY LenProperties
<1>2. PICK n : n = Len(x)
  OBVIOUS
<1>3. Tagged(x, t) = [i \in 1..n |-> [atom |-> x[i], thinking |-> t]]
  BY <1>1, <1>2 DEF Tagged
<1>4. \A i \in 1..n : x[i] \in Atoms
  BY <1>2, ElementOfSeq
<1>5. Tagged(x, t) \in [1..n -> Fragments]
  BY <1>3, <1>4 DEF Fragments
<1>6. Tagged(x, t) \in Seq(Fragments) /\ Len(Tagged(x, t)) = n
  BY <1>1, <1>2, <1>5, FunctionIsSeq
<1> QED
  BY <1>2, <1>3, <1>6

LEMMA TaggedNothing ==
    ASSUME NEW x \in Seq(Atoms), Len(x) = 0, NEW t \in BOOLEAN, NEW out \in Seq(Fragments)
    PROVE  out \o Tagged(x, t) = out
<1>1. Tagged(x, t) = <<>>
  <2>1. Tagged(x, t) \in Seq(Fragments) /\ Len(Tagged(x, t)) = 0
    BY TaggedIs
  <2> QED
    BY <2>1, EmptySeq
<1> QED
  BY <1>1, ConcatEmptySeq

\* Two cuts that adjoin, tagged the same way.
LEMMA JoinOn ==
    ASSUME NEW S, NEW o \in Seq(S), NEW p \in Seq(S), NEW q \in Seq(S), NEW r, r = p \o q
    PROVE  (o \o p) \o q = o \o r
BY ConcatAssociative

LEMMA TaggedOn ==
    ASSUME NEW x \in Seq(Atoms), NEW a \in Nat, NEW b \in Nat, NEW c \in Nat,
           a <= b, b <= c, c <= Len(x), NEW a1, a1 = a + 1, NEW b1, b1 = b + 1,
           NEW t \in BOOLEAN
    PROVE  \E p, q, r :
             /\ p = Tagged(SubSeq(x, a1, b), t) /\ p \in Seq(Fragments)
             /\ q = Tagged(SubSeq(x, b1, c), t) /\ q \in Seq(Fragments)
             /\ r = Tagged(SubSeq(x, a1, c), t) /\ r = p \o q
<1>1. Len(x) \in Nat
  BY LenProperties
<1>2. PICK u : u = SubSeq(x, a1, b)
  OBVIOUS
<1>3. u \in Seq(Atoms) /\ Len(u) = b - a /\ \A i \in 1..b - a : u[i] = x[a1 + i - 1]
  <2>1. a1 \in Nat \ {0} /\ a1 <= b + 1 /\ b <= Len(x) /\ b + 1 - a1 = b - a
    BY <1>1
  <2> QED
    BY <1>2, <2>1, CutIs
<1>4. PICK v : v = SubSeq(x, b1, c)
  OBVIOUS
<1>5. v \in Seq(Atoms) /\ Len(v) = c - b /\ \A i \in 1..c - b : v[i] = x[b1 + i - 1]
  <2>1. b1 \in Nat \ {0} /\ b1 <= c + 1 /\ c + 1 - b1 = c - b
    OBVIOUS
  <2> QED
    BY <1>4, <2>1, CutIs
<1>6. PICK w : w = SubSeq(x, a1, c)
  OBVIOUS
<1>7. w \in Seq(Atoms) /\ Len(w) = c - a /\ \A i \in 1..c - a : w[i] = x[a1 + i - 1]
  <2>1. a1 \in Nat \ {0} /\ a1 <= c + 1 /\ c + 1 - a1 = c - a
    OBVIOUS
  <2> QED
    BY <1>6, <2>1, CutIs
<1>8. PICK p : p = Tagged(u, t)
  OBVIOUS
<1>9. PICK q : q = Tagged(v, t)
  OBVIOUS
<1>10. PICK r : r = Tagged(w, t)
  OBVIOUS
<1>11. /\ p \in Seq(Fragments) /\ Len(p) = b - a
       /\ \A i \in 1..b - a : p[i] = [atom |-> u[i], thinking |-> t]
  BY <1>3, <1>8, TaggedIs
<1>12. /\ q \in Seq(Fragments) /\ Len(q) = c - b
       /\ \A i \in 1..c - b : q[i] = [atom |-> v[i], thinking |-> t]
  BY <1>5, <1>9, TaggedIs
<1>13. /\ r \in Seq(Fragments) /\ Len(r) = c - a
       /\ \A i \in 1..c - a : r[i] = [atom |-> w[i], thinking |-> t]
  BY <1>7, <1>10, TaggedIs
<1>14. PICK z : z = p \o q
  OBVIOUS
<1>15. /\ z \in Seq(Fragments) /\ Len(z) = Len(p) + Len(q)
       /\ \A i \in 1..Len(p) + Len(q) : z[i] = IF i <= Len(p) THEN p[i] ELSE q[i - Len(p)]
  BY <1>11, <1>12, <1>14, ConcatProperties
<1>16. Len(z) = c - a
  BY <1>11, <1>12, <1>15
<1>17. ASSUME NEW i \in 1..c - a PROVE z[i] = r[i]
  <2>1. i \in 1..Len(p) + Len(q)
    BY <1>11, <1>12
  <2>2. z[i] = IF i <= Len(p) THEN p[i] ELSE q[i - Len(p)]
    BY <1>15, <2>1
  <2>3. r[i] = [atom |-> x[a1 + i - 1], thinking |-> t]
    BY <1>7, <1>13
  <2>4. CASE i <= b - a
    <3>1. i \in 1..b - a
      BY <2>4
    <3>2. p[i] = [atom |-> x[a1 + i - 1], thinking |-> t]
      BY <1>3, <1>11, <3>1
    <3> QED
      BY <1>11, <2>2, <2>3, <2>4, <3>2
  <2>5. CASE ~(i <= b - a)
    <3>1. PICK j : j = i - (b - a)
      OBVIOUS
    <3>2. j \in 1..c - b /\ b1 + j - 1 = a1 + i - 1
      BY <2>5, <3>1
    <3>3. q[j] = [atom |-> x[a1 + i - 1], thinking |-> t]
      BY <1>5, <1>12, <3>2
    <3> QED
      BY <1>11, <2>2, <2>3, <2>5, <3>1, <3>3
  <2> QED
    BY <2>4, <2>5
<1>18. z = r
  BY <1>13, <1>15, <1>16, <1>17, SeqEqual
<1> QED
  BY <1>2, <1>4, <1>6, <1>8, <1>9, <1>10, <1>11, <1>12, <1>14, <1>18


-----------------------------------------------------------------------------
(* Where the first marker is, and how long the leading word.               *)

LEMMA AtomsDiffer ==
    /\ \A a \in Parts : a \notin AllKinds /\ a # Close
    /\ \A a \in AllKinds : a # Close /\ a # Space
    /\ Close # Space
<1>1. (\A a \in AllKinds : a # Close /\ a # Space) /\ Close # Space
  BY DEF AllKinds, Close, Space
<1> QED
  BY <1>1, TagBounds

\* A marker ends once.
LEMMA MarkerEndsOnce ==
    ASSUME NEW x, NEW i \in Nat, NEW e \in Nat, NEW f \in Nat,
           IsMarker(x, i, e), IsMarker(x, i, f)
    PROVE  e = f
<1>1. ASSUME NEW a \in Nat, NEW b \in Nat, IsMarker(x, i, a), IsMarker(x, i, b), a < b PROVE FALSE
  <2>1. a \in (i + 1)..(b - 1)
    BY <1>1 DEF IsMarker
  <2>2. x[a] = Close /\ x[a] = Space
    BY <1>1, <2>1 DEF IsMarker
  <2> QED
    BY <2>2, AtomsDiffer
<1>2. ~(e < f) /\ ~(f < e)
  BY <1>1
<1> QED
  BY <1>2

LEMMA FirstMarkerIs ==
    ASSUME NEW x \in Seq(Atoms)
    PROVE  /\ FirstMarker(x) \in Nat
           /\ FirstMarker(x) = 0 => \A i : ~MarkAt(x, i)
           /\ FirstMarker(x) # 0 =>
                MarkAt(x, FirstMarker(x)) /\ \A i \in Nat : MarkAt(x, i) => FirstMarker(x) <= i
<1>1. Len(x) \in Nat /\ DOMAIN x = 1..Len(x)
  BY LenProperties
<1>2. PICK marks : marks = {i \in DOMAIN x : \E end \in DOMAIN x : IsMarker(x, i, end)}
  OBVIOUS
<1>3. \A i : i \in marks <=> MarkAt(x, i)
  BY <1>1, <1>2 DEF MarkAt
<1>4. marks \subseteq Nat /\ 0 \notin marks
  BY <1>1, <1>2
<1>5. FirstMarker(x) = IF marks = {} THEN 0 ELSE CHOOSE i \in marks : \A j \in marks : i <= j
  BY <1>2 DEF FirstMarker
<1>6. CASE marks = {}
  BY <1>3, <1>5, <1>6
<1>7. CASE marks # {}
  <2>1. PICK m \in marks : \A j \in marks : ~(j < m)
    BY <1>4, <1>7, SomeLeast
  <2>2. m \in Nat /\ \A j \in marks : m <= j
    BY <1>4, <2>1
  <2>3. PICK l : l = CHOOSE i \in marks : \A j \in marks : i <= j
    OBVIOUS
  <2>4. l \in marks /\ \A j \in marks : l <= j
    BY <2>1, <2>2, <2>3
  <2>5. FirstMarker(x) = l
    BY <1>5, <1>7, <2>3
  <2> QED
    BY <1>3, <1>4, <2>4, <2>5
<1> QED
  BY <1>6, <1>7

LEMMA FirstMarkerAt ==
    ASSUME NEW x \in Seq(Atoms), NEW m \in Nat, MarkAt(x, m),
           \A i \in Nat : MarkAt(x, i) => m <= i
    PROVE  /\ FirstMarker(x) = m /\ m # 0 /\ m < Len(x) /\ x[m] \in AllKinds /\ x[m] \in Atoms
           /\ MarkerEnd(x) \in Nat /\ m < MarkerEnd(x) /\ MarkerEnd(x) <= Len(x)
           /\ IsMarker(x, m, MarkerEnd(x))
<1>1. Len(x) \in Nat /\ DOMAIN x = 1..Len(x)
  BY LenProperties
<1>2. PICK e \in 1..Len(x) : IsMarker(x, m, e)
  BY DEF MarkAt
<1>3. m \in 1..Len(x) /\ m < e /\ e <= Len(x) /\ x[m] \in AllKinds
  BY <1>1, <1>2 DEF MarkAt, IsMarker
<1>4. FirstMarker(x) # 0 /\ FirstMarker(x) \in Nat
  BY FirstMarkerIs
<1>5. FirstMarker(x) <= m /\ m <= FirstMarker(x)
  BY <1>4, FirstMarkerIs
<1>6. FirstMarker(x) = m
  BY <1>4, <1>5
<1>7. MarkerEnd(x) \in DOMAIN x /\ IsMarker(x, m, MarkerEnd(x))
  BY <1>1, <1>2, <1>6 DEF MarkerEnd
<1>8. MarkerEnd(x) \in Nat /\ m < MarkerEnd(x) /\ MarkerEnd(x) <= Len(x)
  BY <1>1, <1>7 DEF IsMarker
<1>9. x[m] \in Atoms
  BY <1>3, ElementOfSeq
<1> QED
  BY <1>1, <1>2, <1>3, <1>6, <1>7, <1>8, <1>9

\* The same atoms are the same markers.
LEMMA SameMarker ==
    ASSUME NEW x, NEW y, NEW c \in Int, NEW i \in Int, NEW e \in Int,
           \A j \in i..e : x[j] = y[c + j], NEW i2, i2 = c + i, NEW e2, e2 = c + e
    PROVE  IsMarker(x, i, e) <=> IsMarker(y, i2, e2)
<1>1. i < e <=> i2 < e2
  OBVIOUS
<1>2. i < e => x[i] = y[i2] /\ x[e] = y[e2]
  OBVIOUS
<1>3. \A j \in (i + 1)..(e - 1) : x[j] = y[c + j] /\ c + j \in (i2 + 1)..(e2 - 1)
  OBVIOUS
<1>4. ASSUME NEW k \in (i2 + 1)..(e2 - 1) PROVE k - c \in (i + 1)..(e - 1) /\ c + (k - c) = k
  OBVIOUS
<1>5. ASSUME IsMarker(x, i, e) PROVE IsMarker(y, i2, e2)
  <2>1. ASSUME NEW k \in (i2 + 1)..(e2 - 1) PROVE y[i2] \in {"open", "close"} /\ y[k] = Space
    <3>1. PICK j : j = k - c
      OBVIOUS
    <3>2. j \in (i + 1)..(e - 1) /\ c + j = k
      BY <1>4, <3>1
    <3>3. x[i] \in {"open", "close"} /\ x[j] = Space
      BY <1>5, <3>2 DEF IsMarker
    <3>4. x[j] = y[k]
      BY <1>3, <3>2
    <3> QED
      BY <1>2, <1>5, <3>3, <3>4 DEF IsMarker
  <2> QED
    BY <1>1, <1>2, <1>5, <2>1 DEF IsMarker
<1>6. ASSUME IsMarker(y, i2, e2) PROVE IsMarker(x, i, e)
  <2>1. ASSUME NEW j \in (i + 1)..(e - 1) PROVE x[i] \in {"open", "close"} /\ x[j] = Space
    <3>1. PICK k : k = c + j
      OBVIOUS
    <3>2. k \in (i2 + 1)..(e2 - 1) /\ x[j] = y[k]
      BY <1>3, <3>1
    <3> QED
      BY <1>1, <1>2, <1>6, <3>2 DEF IsMarker
  <2> QED
    BY <1>1, <1>2, <1>6, <2>1 DEF IsMarker
<1> QED
  BY <1>5, <1>6

LEMMA NoMarker ==
    ASSUME NEW x \in Seq(Atoms), \A i \in Nat : ~MarkAt(x, i)
    PROVE  FirstMarker(x) = 0
BY FirstMarkerIs

IsWord(x, n) ==
    /\ n \in 0..Len(x) /\ \A i \in 1..n : x[i] \in Parts
    /\ n < Len(x) => x[n + 1] \notin Parts

LEMMA LeadingWordIs ==
    ASSUME NEW x \in Seq(Atoms)
    PROVE  IsWord(x, LeadingWord(x)) /\ LeadingWord(x) \in Nat
<1>1. Len(x) \in Nat
  BY LenProperties
<1>2. \E n \in 0..Len(x) : IsWord(x, n)
  <2> DEFINE T == {n \in 0..Len(x) : n = Len(x) \/ x[n + 1] \notin Parts}
  <2>1. T \subseteq Nat /\ Len(x) \in T
    BY <1>1
  <2>2. PICK n \in T : \A j \in T : ~(j < n)
    <3> HIDE DEF T
    <3> QED
      BY <2>1, SomeLeast
  <2>3. n \in 0..Len(x) /\ n \in Nat
    BY <1>1, <2>2
  <2>4. ASSUME NEW i \in 1..n PROVE x[i] \in Parts
    <3>1. PICK j : j = i - 1
      OBVIOUS
    <3>2. j \in 0..Len(x) /\ j < n /\ j # Len(x) /\ i = j + 1
      BY <1>1, <2>3, <3>1
    <3> QED
      BY <2>2, <3>2
  <2> QED
    BY <2>2, <2>3, <2>4 DEF IsWord
<1>3. PICK n : n = CHOOSE k \in 0..Len(x) : IsWord(x, k)
  OBVIOUS
<1>4. IsWord(x, n)
  BY <1>2, <1>3
<1>5. LeadingWord(x) = n
  BY <1>3 DEF LeadingWord, IsWord
<1> QED
  BY <1>1, <1>4, <1>5 DEF IsWord

LEMMA WordIs ==
    ASSUME NEW x \in Seq(Atoms), NEW n, IsWord(x, n)
    PROVE  LeadingWord(x) = n
<1>1. Len(x) \in Nat
  BY LenProperties
<1>2. PICK k : k = LeadingWord(x)
  OBVIOUS
<1>3. IsWord(x, k)
  BY <1>2, LeadingWordIs
<1>4. k \in Nat /\ n \in Nat /\ k <= Len(x) /\ n <= Len(x)
  BY <1>1, <1>3 DEF IsWord
<1>5. ~(k < n)
  <2>1. SUFFICES ASSUME k < n PROVE FALSE
    OBVIOUS
  <2>2. PICK j : j = k + 1
    OBVIOUS
  <2>3. j \in 1..n /\ k < Len(x)
    BY <1>4, <2>1, <2>2
  <2> QED
    BY <1>3, <2>2, <2>3 DEF IsWord
<1>6. ~(n < k)
  <2>1. SUFFICES ASSUME n < k PROVE FALSE
    OBVIOUS
  <2>2. PICK j : j = n + 1
    OBVIOUS
  <2>3. j \in 1..k /\ n < Len(x)
    BY <1>4, <2>1, <2>2
  <2> QED
    BY <1>3, <2>2, <2>3 DEF IsWord
<1> QED
  BY <1>2, <1>4, <1>5, <1>6

\* The head of a marker is no part of the word before it.
LEMMA WordBefore ==
    ASSUME NEW x \in Seq(Atoms), NEW m \in 1..Len(x), x[m] \in AllKinds
    PROVE  /\ LeadingWord(x) < m
           /\ LeadingWord(SubSeq(x, 1, m - 1)) = LeadingWord(x)
<1>1. Len(x) \in Nat /\ m \in Nat
  BY LenProperties
<1>2. PICK n : n = LeadingWord(x)
  OBVIOUS
<1>3. IsWord(x, n) /\ n \in Nat
  BY <1>2, LeadingWordIs
<1>4. x[m] \notin Parts
  BY AtomsDiffer
<1>5. n < m
  <2>1. SUFFICES ASSUME ~(n < m) PROVE FALSE
    OBVIOUS
  <2>2. m \in 1..n
    BY <1>1, <1>3, <2>1
  <2> QED
    BY <1>3, <1>4, <2>2 DEF IsWord
<1>6. PICK y : y = SubSeq(x, 1, m - 1)
  OBVIOUS
<1>7. PICK l : l = m - 1
  OBVIOUS
<1>8. l \in Nat /\ l <= Len(x) /\ 1 <= l + 1 /\ 1 \in Nat \ {0}
  BY <1>1, <1>7
<1>9. y \in Seq(Atoms) /\ Len(y) = l /\ \A i \in 1..l : y[i] = x[i]
  <2>1. /\ SubSeq(x, 1, l) \in Seq(Atoms) /\ Len(SubSeq(x, 1, l)) = l + 1 - 1
        /\ \A i \in 1..(l + 1 - 1) : SubSeq(x, 1, l)[i] = x[1 + i - 1]
    BY <1>8, CutIs
  <2> QED
    BY <1>6, <1>7, <1>8, <2>1
<1>10. IsWord(y, n)
  <2>1. n \in 0..l
    BY <1>1, <1>3, <1>5, <1>7
  <2>2. \A i \in 1..n : y[i] \in Parts
    BY <1>3, <1>9, <2>1 DEF IsWord
  <2>3. n < l => y[n + 1] \notin Parts
    <3>1. PICK j : j = n + 1
      OBVIOUS
    <3>2. n < l => j \in 1..l /\ n < Len(x)
      BY <1>3, <1>8, <3>1
    <3> QED
      BY <1>3, <1>9, <3>1, <3>2 DEF IsWord
  <2> QED
    BY <1>9, <2>1, <2>2, <2>3 DEF IsWord
<1> QED
  BY <1>2, <1>5, <1>6, <1>9, <1>10, WordIs

\* A word is as long when more follows an atom that follows it.
LEMMA WordOfLonger ==
    ASSUME NEW x \in Seq(Atoms), NEW y \in Seq(Atoms), LeadingWord(x) < Len(x)
    PROVE  LeadingWord(x \o y) = LeadingWord(x)
<1>1. Len(x) \in Nat /\ Len(y) \in Nat
  BY LenProperties
<1>2. PICK w : w = x \o y
  OBVIOUS
<1>3. /\ w \in Seq(Atoms) /\ Len(w) = Len(x) + Len(y)
      /\ \A i \in 1..Len(x) + Len(y) : w[i] = IF i <= Len(x) THEN x[i] ELSE y[i - Len(x)]
  BY <1>2, ConcatProperties
<1>4. PICK n : n = LeadingWord(x)
  OBVIOUS
<1>5. IsWord(x, n) /\ n \in Nat /\ n < Len(x)
  BY <1>4, LeadingWordIs
<1>6. PICK j : j = n + 1
  OBVIOUS
<1>7. j \in 1..Len(x) /\ n \in 0..Len(w)
  BY <1>1, <1>3, <1>5, <1>6
<1>8. \A i \in 1..Len(x) : w[i] = x[i]
  BY <1>1, <1>3
<1>9. IsWord(w, n)
  <2>1. \A i \in 1..n : w[i] \in Parts
    BY <1>1, <1>5, <1>8 DEF IsWord
  <2>2. w[n + 1] \notin Parts
    BY <1>5, <1>6, <1>7, <1>8 DEF IsWord
  <2> QED
    BY <1>7, <2>1, <2>2 DEF IsWord
<1> QED
  BY <1>2, <1>3, <1>4, <1>9, WordIs

\* The first marker stays the first, and ends where it did.
LEMMA MarkerOfLonger ==
    ASSUME NEW x \in Seq(Atoms), NEW y \in Seq(Atoms), FirstMarker(x) # 0
    PROVE  /\ FirstMarker(x \o y) = FirstMarker(x) /\ (x \o y)[FirstMarker(x)] = x[FirstMarker(x)]
           /\ MarkerEnd(x \o y) = MarkerEnd(x)
<1>1. Len(x) \in Nat /\ Len(y) \in Nat
  BY LenProperties
<1>2. PICK w : w = x \o y
  OBVIOUS
<1>3. /\ w \in Seq(Atoms) /\ Len(w) = Len(x) + Len(y)
      /\ \A i \in 1..Len(x) + Len(y) : w[i] = IF i <= Len(x) THEN x[i] ELSE y[i - Len(x)]
  BY <1>2, ConcatProperties
<1>4. \A i \in 1..Len(x) : w[i] = x[i]
  BY <1>1, <1>3
<1>5. PICK m, f : m = FirstMarker(x) /\ f = MarkerEnd(x)
  OBVIOUS
<1>6. /\ m \in Nat /\ m # 0 /\ MarkAt(x, m) /\ \A i \in Nat : MarkAt(x, i) => m <= i
  BY <1>5, FirstMarkerIs
<1>7. f \in Nat /\ m < f /\ f <= Len(x) /\ IsMarker(x, m, f)
  BY <1>5, <1>6, FirstMarkerAt
<1>8. ASSUME NEW i \in Nat \ {0}, NEW e \in Nat, e <= Len(x)
      PROVE  IsMarker(w, i, e) <=> IsMarker(x, i, e)
  <2>1. \A j \in i..e : w[j] = x[0 + j]
    BY <1>1, <1>4, <1>8
  <2>2. i = 0 + i /\ e = 0 + e /\ i \in Int /\ e \in Int /\ 0 \in Int
    BY <1>8
  <2> QED
    BY <2>1, <2>2, SameMarker
<1>9. IsMarker(w, m, f)
  BY <1>6, <1>7, <1>8
<1>10. MarkAt(w, m)
  <2>1. m \in 1..Len(w) /\ f \in 1..Len(w)
    BY <1>1, <1>3, <1>6, <1>7
  <2> QED
    BY <1>9, <2>1 DEF MarkAt
<1>11. ASSUME NEW i \in Nat, MarkAt(w, i) PROVE m <= i
  <2>1. SUFFICES ASSUME i < m PROVE FALSE
    BY <1>6
  <2>2. PICK e \in 1..Len(w) : IsMarker(w, i, e)
    BY <1>11 DEF MarkAt
  <2>3. i \in Nat \ {0} /\ e \in Nat /\ i \in 1..Len(x) /\ i < e
    BY <1>1, <1>3, <1>6, <1>7, <1>11, <2>1, <2>2 DEF MarkAt, IsMarker
  <2>4. CASE e <= Len(x)
    <3>1. IsMarker(x, i, e) /\ e \in 1..Len(x)
      BY <1>1, <1>8, <2>2, <2>3, <2>4
    <3> QED
      BY <1>6, <2>1, <2>3, <3>1 DEF MarkAt
  <2>5. CASE Len(x) < e
    \* The head of the first marker of x would be white space of this one.
    <3>1. m \in (i + 1)..(e - 1) /\ m \in 1..Len(x)
      BY <1>1, <1>6, <1>7, <2>1, <2>3, <2>5
    <3>2. w[m] = Space /\ w[m] = x[m]
      BY <1>4, <2>2, <3>1 DEF IsMarker
    <3>3. x[m] \in AllKinds
      BY <1>7 DEF IsMarker
    <3> QED
      BY <3>2, <3>3, AtomsDiffer
  <2> QED
    BY <1>1, <2>3, <2>4, <2>5
<1>12. FirstMarker(w) = m /\ MarkerEnd(w) \in Nat /\ IsMarker(w, m, MarkerEnd(w))
  BY <1>3, <1>6, <1>10, <1>11, FirstMarkerAt
<1>13. MarkerEnd(w) = f
  BY <1>6, <1>7, <1>9, <1>12, MarkerEndsOnce
<1>14. w[m] = x[m]
  BY <1>1, <1>4, <1>6, <1>7
<1> QED
  BY <1>2, <1>5, <1>12, <1>13, <1>14



-----------------------------------------------------------------------------
(* The steps of splitTaggedThinking.                                       *)

LEMMA NowTypes ==
    ASSUME NEW st \in SplitRecords
    PROVE  /\ NameOf(st) \in Nat /\ NameOf(st) <= Len(st.left) /\ Reading(st) \in BOOLEAN
           /\ \A i \in 1..NameOf(st) : st.left[i] \in Parts
           /\ st.awaited = "other" => NameOf(st) = 0 /\ Reading(st) = st.thinking
           /\ st.awaited # "other" => IsWord(st.left, NameOf(st))
<1>1. st.left \in Seq(Atoms) /\ Len(st.left) \in Nat /\ st.thinking \in BOOLEAN
  BY LenProperties DEF SplitRecords
<1>2. Reading(st) \in BOOLEAN
  BY <1>1 DEF Reading, ChannelThinks
<1>3. CASE st.awaited = "other"
  BY <1>1, <1>2, <1>3 DEF NameOf, Reading
<1>4. CASE st.awaited # "other"
  <2>1. NameOf(st) = LeadingWord(st.left)
    BY <1>4 DEF NameOf
  <2>2. IsWord(st.left, NameOf(st)) /\ NameOf(st) \in Nat
    BY <1>1, <2>1, LeadingWordIs
  <2> QED
    BY <1>1, <1>2, <1>4, <2>2 DEF IsWord
<1> QED
  BY <1>3, <1>4

LEMMA NextTypes ==
    ASSUME NEW kind \in Atoms, NEW now \in BOOLEAN
    PROVE  NextThinking(kind, now) \in BOOLEAN /\ Awaits(kind) \in Awaitable
BY DEF NextThinking, Awaits, Awaitable

LEMMA MarkedStep ==
    ASSUME NEW st \in SplitRecords, NEW m \in Nat, MarkAt(st.left, m),
           \A i \in Nat : MarkAt(st.left, i) => m <= i
    PROVE  /\ NameOf(st) <= m - 1 /\ m # 0 /\ m < Len(st.left)
           /\ SplitStep(st) =
                [left |-> From(st.left, MarkerEnd(st.left) + 1), thinking |-> NextThinking(st.left[m], Reading(st)),
                 sawMarker |-> TRUE, awaited |-> Awaits(st.left[m]),
                 out |-> st.out \o Tagged(SubSeq(st.left, NameOf(st) + 1, m - 1),
                                     Reading(st) \/ (st.left[m] = "close" /\ ~st.sawMarker))]
<1>1. st.left \in Seq(Atoms) /\ Len(st.left) \in Nat
  BY LenProperties DEF SplitRecords
<1>2. FirstMarker(st.left) = m /\ m # 0 /\ m < Len(st.left) /\ st.left[m] \in AllKinds
  BY <1>1, FirstMarkerAt
<1>3. PICK segment : segment = SubSeq(st.left, 1, m - 1)
  OBVIOUS
<1>4. PICK l : l = m - 1
  OBVIOUS
<1>5. l \in Nat /\ l <= Len(st.left) /\ 1 <= l + 1 /\ 1 \in Nat \ {0} /\ m \in 1..Len(st.left)
  BY <1>1, <1>2, <1>4
<1>6. segment \in Seq(Atoms) /\ Len(segment) = l
  <2>1. SubSeq(st.left, 1, l) \in Seq(Atoms) /\ Len(SubSeq(st.left, 1, l)) = l + 1 - 1
    BY <1>1, <1>5, CutIs
  <2> QED
    BY <1>3, <1>4, <1>5, <2>1
<1>7. LeadingWord(st.left) < m /\ LeadingWord(segment) = LeadingWord(st.left)
  BY <1>1, <1>2, <1>3, <1>5, WordBefore
<1>8. PICK name : name = NameOf(st)
  OBVIOUS
<1>9. name \in Nat /\ name <= l /\ name = IF st.awaited = "other" THEN 0 ELSE LeadingWord(segment)
  BY <1>2, <1>4, <1>5, <1>7, <1>8, NowTypes DEF NameOf
<1>10. PICK b : b = name + 1
  OBVIOUS
<1>11. b \in Nat \ {0} /\ b <= l + 1 /\ l <= l
  BY <1>5, <1>9, <1>10
<1>12. SubSeq(segment, 1, name) = SubSeq(st.left, 1, name)
  <2>1. 1 <= name + 1
    BY <1>9
  <2>2. SubSeq(SubSeq(st.left, 1, l), 1, name) = SubSeq(st.left, 1, name)
    BY <1>1, <1>5, <1>9, <2>1, CutOfCut
  <2> QED
    BY <1>3, <1>4, <2>2
<1>13. From(segment, name + 1) = SubSeq(st.left, name + 1, m - 1)
  <2>1. SubSeq(SubSeq(st.left, 1, l), b, l) = SubSeq(st.left, b, l)
    BY <1>1, <1>5, <1>11, CutOfCut
  <2> QED
    BY <1>3, <1>4, <1>6, <1>10, <2>1 DEF From
<1>14. PICK now : now = Reading(st)
  OBVIOUS
<1>15. now = IF st.awaited = "channel"
             THEN ChannelThinks(SubSeq(segment, 1, name), st.thinking) ELSE st.thinking
  BY <1>8, <1>12, <1>14 DEF Reading
<1>16. SplitStep(st) =
           [left |-> From(st.left, MarkerEnd(st.left) + 1), thinking |-> NextThinking(st.left[m], now),
            sawMarker |-> TRUE, awaited |-> Awaits(st.left[m]),
            out |-> st.out \o Tagged(From(segment, name + 1),
                                     now \/ (st.left[m] = "close" /\ ~st.sawMarker))]
  BY <1>2, <1>3, <1>9, <1>15 DEF SplitStep
<1>17. NameOf(st) <= m - 1
  BY <1>4, <1>8, <1>9
<1> QED
  BY <1>2, <1>8, <1>13, <1>14, <1>16, <1>17

LEMMA UnmarkedStep ==
    ASSUME NEW st \in SplitRecords, \A i \in Nat : ~MarkAt(st.left, i)
    PROVE  SplitStep(st) = [st EXCEPT !.out = @ \o Tagged(From(st.left, NameOf(st) + 1), Reading(st)),
                                      !.left = <<>>]
<1>1. st.left \in Seq(Atoms)
  BY DEF SplitRecords
<1>2. FirstMarker(st.left) = 0
  BY <1>1, NoMarker
<1> QED
  BY <1>2 DEF SplitStep, NameOf, Reading

LEMMA SplitStepTypes ==
    ASSUME NEW st \in SplitRecords
    PROVE  /\ SplitStep(st) \in SplitRecords
           /\ FirstMarker(st.left) # 0 => Len(SplitStep(st).left) < Len(st.left)
<1>1. /\ st.left \in Seq(Atoms) /\ Len(st.left) \in Nat /\ st.out \in Seq(Fragments)
      /\ st.thinking \in BOOLEAN /\ st.sawMarker \in BOOLEAN /\ st.awaited \in Awaitable
  BY LenProperties DEF SplitRecords
<1>2. PICK name : name = NameOf(st)
  OBVIOUS
<1>3. PICK now : now = Reading(st)
  OBVIOUS
<1>4. name \in Nat /\ name <= Len(st.left) /\ now \in BOOLEAN
  BY <1>2, <1>3, NowTypes
<1>5. CASE FirstMarker(st.left) = 0
  <2>1. \A i \in Nat : ~MarkAt(st.left, i)
    BY <1>1, <1>5, FirstMarkerIs
  <2>2. SplitStep(st) = [st EXCEPT !.out = @ \o Tagged(From(st.left, name + 1), now), !.left = <<>>]
    BY <1>2, <1>3, <2>1, UnmarkedStep
  <2>3. From(st.left, name + 1) \in Seq(Atoms)
    BY <1>1, <1>4, FromAfter
  <2>4. Tagged(From(st.left, name + 1), now) \in Seq(Fragments)
    BY <1>4, <2>3, TaggedIs
  <2>5. st.out \o Tagged(From(st.left, name + 1), now) \in Seq(Fragments)
    BY <1>1, <2>4, ConcatProperties
  <2>6. <<>> \in Seq(Atoms)
    BY EmptySeq
  <2> QED
    BY <1>5, <2>2, <2>5, <2>6 DEF SplitRecords
<1>6. CASE FirstMarker(st.left) # 0
  <2>1. PICK m : m = FirstMarker(st.left)
    OBVIOUS
  <2>2. m \in Nat /\ MarkAt(st.left, m) /\ \A i \in Nat : MarkAt(st.left, i) => m <= i
    BY <1>1, <1>6, <2>1, FirstMarkerIs
  <2>3. PICK last : last = (now \/ (st.left[m] = "close" /\ ~st.sawMarker))
    OBVIOUS
  <2>4. last \in BOOLEAN
    BY <1>1, <1>4, <2>3
  <2>5. name <= m - 1 /\ m # 0 /\ m < Len(st.left)
    BY <1>2, <2>2, MarkedStep
  <2>6. SplitStep(st) =
           [left |-> From(st.left, MarkerEnd(st.left) + 1), thinking |-> NextThinking(st.left[m], now),
            sawMarker |-> TRUE, awaited |-> Awaits(st.left[m]),
            out |-> st.out \o Tagged(SubSeq(st.left, name + 1, m - 1), last)]
    BY <1>2, <1>3, <2>2, <2>3, MarkedStep
  <2>7. PICK a, b, c : a = MarkerEnd(st.left) /\ b = name + 1 /\ c = m - 1
    OBVIOUS
  <2>8. /\ a \in Nat /\ a <= Len(st.left) /\ b \in Nat \ {0} /\ c \in Nat /\ b <= c + 1
        /\ c <= Len(st.left) /\ m < a
    <3>1. a \in Nat /\ a <= Len(st.left) /\ m < a
      BY <1>1, <2>2, <2>7, FirstMarkerAt
    <3> QED
      BY <1>1, <1>4, <2>2, <2>5, <2>7, <3>1
  <2>9. From(st.left, a + 1) \in Seq(Atoms) /\ Len(From(st.left, a + 1)) = Len(st.left) - a
    BY <1>1, <2>8, FromAfter
  <2>10. SubSeq(st.left, b, c) \in Seq(Atoms)
    BY <1>1, <2>8, CutIs
  <2>11. Tagged(SubSeq(st.left, b, c), last) \in Seq(Fragments)
    BY <2>4, <2>10, TaggedIs
  <2>12. st.out \o Tagged(SubSeq(st.left, b, c), last) \in Seq(Fragments)
    BY <1>1, <2>11, ConcatProperties
  <2>13. st.left[m] \in Atoms
    BY <1>1, <2>2, FirstMarkerAt
  <2>14. NextThinking(st.left[m], now) \in BOOLEAN /\ Awaits(st.left[m]) \in Awaitable
    BY <1>4, <2>13, NextTypes
  <2>15. From(st.left, a + 1) \in Seq(Atoms) /\ Len(From(st.left, a + 1)) < Len(st.left)
    BY <1>1, <2>2, <2>7, <2>8, <2>9
  <2> QED
    BY <2>6, <2>7, <2>12, <2>14, <2>15 DEF SplitRecords
<1> QED
  BY <1>5, <1>6

\* A marker that is found is read the same when more of the text has come.
Longer(st, piece) == [st EXCEPT !.left = @ \o piece]

LEMMA LongerTypes ==
    ASSUME NEW st \in SplitRecords, NEW piece \in Seq(Atoms)
    PROVE  /\ Longer(st, piece) \in SplitRecords /\ Longer(st, piece).left = st.left \o piece
           /\ Longer(st, piece).thinking = st.thinking /\ Longer(st, piece).awaited = st.awaited
           /\ Longer(st, piece).sawMarker = st.sawMarker /\ Longer(st, piece).out = st.out
<1>1. st.left \in Seq(Atoms)
  BY DEF SplitRecords
<1>2. st.left \o piece \in Seq(Atoms)
  BY <1>1, ConcatProperties
<1> QED
  BY <1>2 DEF Longer, SplitRecords

LEMMA NameOfLonger ==
    ASSUME NEW st \in SplitRecords, NEW piece \in Seq(Atoms),
           st.awaited # "other" => NameOf(st) < Len(st.left)
    PROVE  NameOf(Longer(st, piece)) = NameOf(st) /\ Reading(Longer(st, piece)) = Reading(st)
<1>1. st.left \in Seq(Atoms) /\ Len(st.left) \in Nat
  BY LenProperties DEF SplitRecords
<1>2. PICK more : more = Longer(st, piece)
  OBVIOUS
<1>3. /\ more \in SplitRecords /\ more.left = st.left \o piece /\ more.thinking = st.thinking
      /\ more.awaited = st.awaited
  BY <1>2, LongerTypes
<1>4. NameOf(more) = NameOf(st)
  <2>1. CASE st.awaited = "other"
    BY <1>3, <2>1 DEF NameOf
  <2>2. CASE st.awaited # "other"
    <3>1. LeadingWord(st.left) < Len(st.left)
      BY <2>2 DEF NameOf
    <3>2. LeadingWord(st.left \o piece) = LeadingWord(st.left)
      BY <1>1, <3>1, WordOfLonger
    <3> QED
      BY <1>3, <2>2, <3>2 DEF NameOf
  <2> QED
    BY <2>1, <2>2
<1>5. SubSeq(more.left, 1, NameOf(st)) = SubSeq(st.left, 1, NameOf(st))
  <2>1. PICK n : n = NameOf(st)
    OBVIOUS
  <2>2. n \in Nat /\ n <= Len(st.left) /\ 1 \in Nat \ {0} /\ 1 <= n + 1
    BY <2>1, NowTypes
  <2>3. SubSeq(st.left \o piece, 1, n) = SubSeq(st.left, 1, n)
    BY <1>1, <2>2, CutOfLonger
  <2> QED
    BY <1>3, <2>1, <2>3
<1>6. Reading(more) = Reading(st)
  BY <1>3, <1>4, <1>5 DEF Reading
<1> QED
  BY <1>2, <1>4, <1>6

LEMMA SplitStepLonger ==
    ASSUME NEW st \in SplitRecords, NEW piece \in Seq(Atoms), FirstMarker(st.left) # 0
    PROVE  /\ FirstMarker(Longer(st, piece).left) # 0
           /\ SplitStep(Longer(st, piece)) = Longer(SplitStep(st), piece)
<1>1. st.left \in Seq(Atoms) /\ Len(st.left) \in Nat
  BY LenProperties DEF SplitRecords
<1>2. PICK more : more = Longer(st, piece)
  OBVIOUS
<1>3. /\ more \in SplitRecords /\ more.left = st.left \o piece /\ more.thinking = st.thinking
      /\ more.awaited = st.awaited /\ more.sawMarker = st.sawMarker /\ more.out = st.out
  BY <1>2, LongerTypes
<1>4. PICK m : m = FirstMarker(st.left)
  OBVIOUS
<1>5. m \in Nat /\ m # 0 /\ MarkAt(st.left, m) /\ \A i \in Nat : MarkAt(st.left, i) => m <= i
  BY <1>1, <1>4, FirstMarkerIs
<1>6. /\ FirstMarker(more.left) = m /\ more.left[m] = st.left[m]
      /\ MarkerEnd(more.left) = MarkerEnd(st.left)
  BY <1>1, <1>3, <1>4, MarkerOfLonger
<1>7. more.left \in Seq(Atoms)
  BY <1>3 DEF SplitRecords
<1>8. MarkAt(more.left, m) /\ \A i \in Nat : MarkAt(more.left, i) => m <= i
  BY <1>5, <1>6, <1>7, FirstMarkerIs
<1>9. PICK name : name = NameOf(st)
  OBVIOUS
<1>10. PICK now : now = Reading(st)
  OBVIOUS
<1>11. name \in Nat /\ name <= m - 1 /\ m < Len(st.left)
  BY <1>5, <1>9, MarkedStep, NowTypes
<1>12. NameOf(more) = name /\ Reading(more) = now
  <2>1. NameOf(st) < Len(st.left)
    BY <1>1, <1>5, <1>9, <1>11
  <2> QED
    BY <1>2, <1>9, <1>10, <2>1, NameOfLonger
<1>13. PICK a, b, c : a = MarkerEnd(st.left) /\ b = name + 1 /\ c = m - 1
  OBVIOUS
<1>14. /\ a \in Nat /\ a <= Len(st.left) /\ b \in Nat \ {0} /\ c \in Nat /\ b <= c + 1
       /\ c <= Len(st.left)
  <2>1. a \in Nat /\ a <= Len(st.left)
    BY <1>1, <1>5, <1>13, FirstMarkerAt
  <2> QED
    BY <1>1, <1>5, <1>11, <1>13, <2>1
<1>15. SubSeq(more.left, b, c) = SubSeq(st.left, b, c)
  <2>1. SubSeq(st.left \o piece, b, c) = SubSeq(st.left, b, c)
    BY <1>1, <1>14, CutOfLonger
  <2> QED
    BY <1>3, <2>1
<1>16. From(more.left, a + 1) = From(st.left, a + 1) \o piece
  <2>1. From(st.left \o piece, a + 1) = From(st.left, a + 1) \o piece
    BY <1>1, <1>14, FromOfLonger
  <2> QED
    BY <1>3, <1>14, <2>1
<1>17. PICK last : last = (now \/ (st.left[m] = "close" /\ ~st.sawMarker))
  OBVIOUS
<1>18. SplitStep(st) =
           [left |-> From(st.left, a + 1), thinking |-> NextThinking(st.left[m], now),
            sawMarker |-> TRUE, awaited |-> Awaits(st.left[m]),
            out |-> st.out \o Tagged(SubSeq(st.left, b, c), last)]
  BY <1>5, <1>9, <1>10, <1>13, <1>17, MarkedStep
<1>19. SplitStep(more) =
           [left |-> From(more.left, a + 1), thinking |-> NextThinking(more.left[m], Reading(more)),
            sawMarker |-> TRUE, awaited |-> Awaits(more.left[m]),
            out |-> more.out \o Tagged(SubSeq(more.left, NameOf(more) + 1, m - 1),
                                Reading(more) \/ (more.left[m] = "close" /\ ~more.sawMarker))]
  BY <1>3, <1>5, <1>6, <1>8, <1>13, MarkedStep, ZenonT(60)
<1>20. SplitStep(more) =
           [left |-> From(st.left, a + 1) \o piece, thinking |-> NextThinking(st.left[m], now),
            sawMarker |-> TRUE, awaited |-> Awaits(st.left[m]),
            out |-> st.out \o Tagged(SubSeq(st.left, b, c), last)]
  BY <1>3, <1>6, <1>12, <1>13, <1>15, <1>16, <1>17, <1>19
<1>21. SplitStep(more) = Longer(SplitStep(st), piece)
  <2>1. PICK x, y : x = SplitStep(st) /\ y = SplitStep(more)
    OBVIOUS
  <2>2. x \in SplitRecords /\ y \in SplitRecords
    BY <1>3, <2>1, SplitStepTypes
  <2>3. PICK z : z = Longer(x, piece)
    OBVIOUS
  <2>4. /\ z \in SplitRecords /\ z.left = x.left \o piece /\ z.thinking = x.thinking
        /\ z.awaited = x.awaited /\ z.sawMarker = x.sawMarker /\ z.out = x.out
    BY <2>2, <2>3, LongerTypes
  <2>5. PICK left : left = From(st.left, a + 1)
    OBVIOUS
  <2>6. PICK thinking : thinking = NextThinking(st.left[m], now)
    OBVIOUS
  <2>7. PICK awaited : awaited = Awaits(st.left[m])
    OBVIOUS
  <2>8. PICK out : out = st.out \o Tagged(SubSeq(st.left, b, c), last)
    OBVIOUS
  <2>9. PICK rest : rest = left \o piece
    OBVIOUS
  <2>10. /\ x = [left |-> left, thinking |-> thinking, sawMarker |-> TRUE,
                 awaited |-> awaited, out |-> out]
         /\ y = [left |-> rest, thinking |-> thinking, sawMarker |-> TRUE,
                 awaited |-> awaited, out |-> out]
    BY <1>18, <1>20, <2>1, <2>5, <2>6, <2>7, <2>8, <2>9
  <2>11. /\ y.left = rest /\ x.left = left /\ y.thinking = x.thinking
         /\ y.awaited = x.awaited /\ y.sawMarker = x.sawMarker /\ y.out = x.out
    BY <2>10
  <2>12. z.left = rest
    BY <2>4, <2>9, <2>11
  <2>13. y = z
    <3>1. /\ y = [left |-> y.left, thinking |-> y.thinking, sawMarker |-> y.sawMarker,
                  awaited |-> y.awaited, out |-> y.out]
          /\ z = [left |-> z.left, thinking |-> z.thinking, sawMarker |-> z.sawMarker,
                  awaited |-> z.awaited, out |-> z.out]
      BY <2>2, <2>4 DEF SplitRecords
    <3> QED
      BY <2>4, <2>11, <2>12, <3>1
  <2> QED
    BY <2>1, <2>3, <2>13
<1> QED
  BY <1>2, <1>5, <1>6, <1>21


-----------------------------------------------------------------------------
(* The steps of taggedThinkingStream: each keeps to the pace of a split.   *)

LEMMA HeldIs ==
    ASSUME NEW x \in Seq(Atoms)
    PROVE  /\ Held(x) \in Nat /\ Held(x) <= Len(x)
           /\ \A i \in 1..Len(x) : Unclosed(x, i) /\ Len(x) + 1 - i <= MaxHold => Held(x) = Len(x) + 1 - i
<1>1. Len(x) \in Nat /\ DOMAIN x = 1..Len(x)
  BY LenProperties
<1>2. PICK heads : heads = {i \in DOMAIN x : i > Len(x) - MaxHold /\ x[i] \in AllKinds}
  OBVIOUS
<1>3. heads \subseteq 1..Len(x) /\ heads \subseteq Nat
  BY <1>1, <1>2
<1>4. PICK last : last = CHOOSE i \in heads : \A j \in heads : j <= i
  OBVIOUS
<1>5. Held(x) = IF heads = {} \/ \E i \in DOMAIN x : i >= last /\ x[i] = Close
                THEN 0 ELSE Len(x) - last + 1
  BY <1>2, <1>4 DEF Held
<1>6. heads # {} => last \in heads /\ \A j \in heads : j <= last
  <2>1. SUFFICES ASSUME heads # {} PROVE last \in heads /\ \A j \in heads : j <= last
    OBVIOUS
  <2>2. PICK most : most = Max(heads)
    OBVIOUS
  <2>3. \A j \in heads : j <= Len(x)
    BY <1>1, <1>3
  <2>4. most \in heads /\ \A j \in heads : j <= most
    BY <1>1, <1>3, <2>1, <2>2, <2>3, MaxIs
  <2> QED
    BY <1>4, <2>4
<1>7. Held(x) \in Nat /\ Held(x) <= Len(x)
  <2>1. CASE heads = {} \/ \E i \in DOMAIN x : i >= last /\ x[i] = Close
    BY <1>1, <1>5, <2>1
  <2>2. CASE ~(heads = {} \/ \E i \in DOMAIN x : i >= last /\ x[i] = Close)
    <3>1. Held(x) = Len(x) - last + 1 /\ last \in 1..Len(x)
      BY <1>3, <1>5, <1>6, <2>2
    <3> QED
      BY <1>1, <3>1
  <2> QED
    BY <2>1, <2>2
<1>8. ASSUME NEW i \in 1..Len(x), Unclosed(x, i), Len(x) + 1 - i <= MaxHold
      PROVE  Held(x) = Len(x) + 1 - i
  <2>1. i \in heads
    <3>1. i > Len(x) - MaxHold /\ x[i] \in AllKinds
      BY <1>1, <1>8, TagBounds DEF Unclosed
    <3> QED
      BY <1>1, <1>2, <3>1
  <2>2. last \in heads /\ i <= last /\ last \in 1..Len(x) /\ x[last] \in AllKinds
    BY <1>2, <1>3, <1>6, <2>1
  <2>3. last = i
    <3>1. SUFFICES ASSUME i < last PROVE FALSE
      BY <1>1, <2>2
    <3>2. last \in (i + 1)..Len(x)
      BY <1>1, <2>2, <3>1
    <3>3. x[last] = Space
      BY <1>8, <3>2 DEF Unclosed
    <3> QED
      BY <2>2, <3>3, AtomsDiffer
  <2>4. ASSUME NEW j \in DOMAIN x, j >= last PROVE x[j] # Close
    <3>1. j = i \/ j \in (i + 1)..Len(x)
      BY <1>1, <2>3, <2>4
    <3>2. CASE j = i
      BY <2>2, <2>3, <3>2, AtomsDiffer
    <3>3. CASE j \in (i + 1)..Len(x)
      <4>1. x[j] = Space
        BY <1>8, <3>3 DEF Unclosed
      <4> QED
        BY <4>1, AtomsDiffer
    <3> QED
      BY <3>1, <3>2, <3>3
  <2>5. Held(x) = Len(x) - last + 1
    BY <1>5, <2>1, <2>4
  <2> QED
    BY <1>1, <2>3, <2>5
<1> QED
  BY <1>7, <1>8

\* The turns of the loop that change something.
Says(s, s2, keeps) ==
    /\ s.awaited = "other" /\ s.pending # <<>> /\ FirstMarker(s.pending) = 0
    /\ s2 = [s EXCEPT !.shown = @ \o Tagged(SubSeq(s.pending, 1, Len(s.pending) - keeps), s.thinking),
                      !.pending = From(s.pending, Len(s.pending) - keeps + 1)]
MarkGone(s, s2, m) ==
    /\ s.awaited = "other" /\ m = FirstMarker(s.pending) /\ m # 0
    /\ s2 = [s EXCEPT !.shown = @ \o Tagged(SubSeq(s.pending, 1, m - 1),
                                        s.thinking \/ (s.pending[m] = "close" /\ ~s.sawMarker)),
                      !.thinking = NextThinking(s.pending[m], s.thinking),
                      !.awaited = Awaits(s.pending[m]), !.sawMarker = TRUE,
                      !.pending = From(s.pending, MarkerEnd(s.pending) + 1)]
NameGone(s, s2, name, final) ==
    /\ s.awaited # "other" /\ s.pending # <<>> /\ name = LeadingWord(s.pending)
    /\ name > 0 /\ name = Len(s.pending) => final
    /\ s2 = [s EXCEPT !.awaited = "other", !.pending = From(s.pending, name + 1),
                      !.thinking = IF s.awaited = "channel"
                                   THEN ChannelThinks(SubSeq(s.pending, 1, name), s.thinking)
                                   ELSE s.thinking]

LEMMA PushCases ==
    ASSUME NEW s \in StreamRecords, NEW final \in BOOLEAN, NEW s2, s2 = PushStep(s, final)
    PROVE  \/ s2 = s /\ (final => s.pending = <<>>)
           \/ Says(s, s2, IF final THEN 0 ELSE Held(s.pending))
           \/ MarkGone(s, s2, FirstMarker(s.pending))
           \/ NameGone(s, s2, LeadingWord(s.pending), final)
<1>1. PICK name : name = LeadingWord(s.pending)
  OBVIOUS
<1>2. PICK mark : mark = FirstMarker(s.pending)
  OBVIOUS
<1>3. PICK keeps : keeps = IF final THEN 0 ELSE Held(s.pending)
  OBVIOUS
<1>0. FirstMarker(<<>>) = 0
  <2>1. <<>> \in Seq(Atoms) /\ Len(<<>>) = 0
    BY EmptySeq
  <2>2. \A i \in Nat : ~MarkAt(<<>>, i)
    BY <2>1 DEF MarkAt
  <2> QED
    BY <2>1, <2>2, NoMarker
<1>4. CASE s.pending = <<>> \/ (s.awaited # "other" /\ name > 0 /\ name = Len(s.pending) /\ ~final)
  <2>1. s.pending = <<>> => mark = 0
    BY <1>0, <1>2
  <2>2. s2 = s
    BY <1>1, <1>2, <1>3, <1>4, <2>1 DEF PushStep
  <2> QED
    BY <1>4, <2>2
<1>5. CASE s.awaited = "other" /\ s.pending # <<>> /\ mark = 0
  <2>1. s2 = [s EXCEPT !.shown = @ \o Tagged(SubSeq(s.pending, 1, Len(s.pending) - keeps), s.thinking),
                       !.pending = From(s.pending, Len(s.pending) - keeps + 1)]
    BY <1>1, <1>2, <1>3, <1>5 DEF PushStep
  <2> QED
    BY <1>2, <1>3, <1>5, <2>1 DEF Says
<1>6. CASE s.awaited = "other" /\ s.pending # <<>> /\ mark # 0
  <2>1. s2 = [s EXCEPT !.shown = @ \o Tagged(SubSeq(s.pending, 1, mark - 1),
                                        s.thinking \/ (s.pending[mark] = "close" /\ ~s.sawMarker)),
                      !.thinking = NextThinking(s.pending[mark], s.thinking),
                      !.awaited = Awaits(s.pending[mark]), !.sawMarker = TRUE,
                      !.pending = From(s.pending, MarkerEnd(s.pending) + 1)]
    BY <1>1, <1>2, <1>3, <1>6 DEF PushStep
  <2> QED
    BY <1>2, <1>6, <2>1 DEF MarkGone
<1>7. CASE /\ s.awaited # "other" /\ s.pending # <<>>
           /\ ~(name > 0 /\ name = Len(s.pending) /\ ~final)
  <2>1. s2 = [s EXCEPT !.awaited = "other", !.pending = From(s.pending, name + 1),
                      !.thinking = IF s.awaited = "channel"
                                   THEN ChannelThinks(SubSeq(s.pending, 1, name), s.thinking)
                                   ELSE s.thinking]
    BY <1>1, <1>2, <1>3, <1>7 DEF PushStep
  <2> QED
    BY <1>1, <1>7, <2>1 DEF NameGone
<1> QED
  BY <1>4, <1>5, <1>6, <1>7

\* What a turn leaves, and how much of it.
Weight(s) == IF s.awaited = "other" THEN Len(s.pending) ELSE Len(s.pending) + 1

LEMMA StreamTypes ==
    ASSUME NEW s \in StreamRecords
    PROVE  /\ s.pending \in Seq(Atoms) /\ Len(s.pending) \in Nat /\ s.thinking \in BOOLEAN
           /\ s.sawMarker \in BOOLEAN /\ s.awaited \in Awaitable /\ s.shown \in Seq(Fragments)
           /\ (s.pending = <<>> <=> Len(s.pending) = 0) /\ Weight(s) \in Nat
BY LenProperties, EmptySeq DEF StreamRecords, Weight

LEMMA SaysTypes ==
    ASSUME NEW s \in StreamRecords, NEW s2, NEW keeps \in Nat, keeps <= Len(s.pending), Says(s, s2, keeps)
    PROVE  /\ s2 \in StreamRecords /\ s2.awaited = "other" /\ s2.thinking = s.thinking
           /\ s2.sawMarker = s.sawMarker /\ Len(s2.pending) = keeps
<1>1. s.pending \in Seq(Atoms) /\ Len(s.pending) \in Nat /\ s.thinking \in BOOLEAN /\ s.shown \in Seq(Fragments)
  BY StreamTypes
<1>2. PICK n : n = Len(s.pending) - keeps
  OBVIOUS
<1>3. n \in Nat /\ n <= Len(s.pending) /\ Len(s.pending) - n = keeps /\ 1 <= n + 1 /\ 1 \in Nat \ {0}
  BY <1>1, <1>2
<1>4. From(s.pending, n + 1) \in Seq(Atoms) /\ Len(From(s.pending, n + 1)) = Len(s.pending) - n
  BY <1>1, <1>3, FromAfter
<1>5. SubSeq(s.pending, 1, n) \in Seq(Atoms)
  BY <1>1, <1>3, CutIs
<1>6. Tagged(SubSeq(s.pending, 1, n), s.thinking) \in Seq(Fragments)
  BY <1>1, <1>5, TaggedIs
<1>7. s.shown \o Tagged(SubSeq(s.pending, 1, n), s.thinking) \in Seq(Fragments)
  BY <1>1, <1>6, ConcatProperties
<1>8. PICK p, o : p = From(s.pending, n + 1) /\ o = s.shown \o Tagged(SubSeq(s.pending, 1, n), s.thinking)
  OBVIOUS
<1>9. s2 = [s EXCEPT !.shown = o, !.pending = p] /\ s.awaited = "other"
  BY <1>2, <1>8 DEF Says
<1> QED
  BY <1>3, <1>4, <1>7, <1>8, <1>9 DEF StreamRecords

LEMMA MarkedTypes ==
    ASSUME NEW s \in StreamRecords, NEW s2, NEW m, MarkGone(s, s2, m)
    PROVE  /\ s2 \in StreamRecords /\ s2.sawMarker = TRUE /\ Len(s2.pending) < Len(s.pending) - 1
           /\ s2.pending = From(s.pending, MarkerEnd(s.pending) + 1)
           /\ s2.thinking = NextThinking(s.pending[m], s.thinking)
           /\ s2.awaited = Awaits(s.pending[m])
           /\ s2.shown = s.shown \o Tagged(SubSeq(s.pending, 1, m - 1),
                                       s.thinking \/ (s.pending[m] = "close" /\ ~s.sawMarker))
<1>1. /\ s.pending \in Seq(Atoms) /\ Len(s.pending) \in Nat /\ s.thinking \in BOOLEAN
      /\ s.sawMarker \in BOOLEAN /\ s.shown \in Seq(Fragments)
  BY StreamTypes
<1>2. m = FirstMarker(s.pending) /\ m # 0 /\ s.awaited = "other"
  BY DEF MarkGone
<1>3. m \in Nat /\ MarkAt(s.pending, m) /\ \A i \in Nat : MarkAt(s.pending, i) => m <= i
  BY <1>1, <1>2, FirstMarkerIs
<1>4. /\ m < Len(s.pending) /\ s.pending[m] \in Atoms
      /\ MarkerEnd(s.pending) \in Nat /\ m < MarkerEnd(s.pending)
      /\ MarkerEnd(s.pending) <= Len(s.pending)
  BY <1>1, <1>3, FirstMarkerAt
<1>5. PICK a, c : a = MarkerEnd(s.pending) /\ c = m - 1
  OBVIOUS
<1>6. /\ a \in Nat /\ a <= Len(s.pending) /\ c \in Nat /\ c <= Len(s.pending) /\ 1 <= c + 1
      /\ 1 \in Nat \ {0} /\ Len(s.pending) - a < Len(s.pending) - 1
  BY <1>1, <1>2, <1>3, <1>4, <1>5
<1>7. From(s.pending, a + 1) \in Seq(Atoms) /\ Len(From(s.pending, a + 1)) = Len(s.pending) - a
  BY <1>1, <1>6, FromAfter
<1>8. PICK last : last = (s.thinking \/ (s.pending[m] = "close" /\ ~s.sawMarker))
  OBVIOUS
<1>9. last \in BOOLEAN
  BY <1>1, <1>8
<1>10. SubSeq(s.pending, 1, c) \in Seq(Atoms)
  BY <1>1, <1>6, CutIs
<1>11. Tagged(SubSeq(s.pending, 1, c), last) \in Seq(Fragments)
  BY <1>9, <1>10, TaggedIs
<1>12. s.shown \o Tagged(SubSeq(s.pending, 1, c), last) \in Seq(Fragments)
  BY <1>1, <1>11, ConcatProperties
<1>13. NextThinking(s.pending[m], s.thinking) \in BOOLEAN /\ Awaits(s.pending[m]) \in Awaitable
  BY <1>1, <1>4, NextTypes
<1>14. PICK p, o, t, w : /\ p = From(s.pending, a + 1) /\ o = s.shown \o Tagged(SubSeq(s.pending, 1, c), last)
                         /\ t = NextThinking(s.pending[m], s.thinking) /\ w = Awaits(s.pending[m])
  OBVIOUS
<1>15. s2 = [s EXCEPT !.shown = o, !.thinking = t, !.awaited = w, !.sawMarker = TRUE, !.pending = p]
  BY <1>5, <1>8, <1>14 DEF MarkGone
<1>16. p \in Seq(Atoms) /\ Len(p) < Len(s.pending) - 1 /\ o \in Seq(Fragments) /\ t \in BOOLEAN /\ w \in Awaitable
  BY <1>6, <1>7, <1>12, <1>13, <1>14
<1>17. /\ s2 \in StreamRecords /\ s2.sawMarker = TRUE /\ s2.pending = p /\ s2.thinking = t
       /\ s2.awaited = w /\ s2.shown = o
  BY <1>15, <1>16 DEF StreamRecords
<1> QED
  BY <1>5, <1>8, <1>14, <1>16, <1>17

LEMMA NamedTypes ==
    ASSUME NEW s \in StreamRecords, NEW s2, NEW name, NEW final \in BOOLEAN, NameGone(s, s2, name, final)
    PROVE  /\ s2 \in StreamRecords /\ s2.awaited = "other" /\ s2.sawMarker = s.sawMarker
           /\ s2.shown = s.shown /\ s2.pending = From(s.pending, name + 1)
           /\ s2.thinking = (IF s.awaited = "channel"
                             THEN ChannelThinks(SubSeq(s.pending, 1, name), s.thinking)
                             ELSE s.thinking)
           /\ Len(s2.pending) <= Len(s.pending) /\ name \in Nat /\ name <= Len(s.pending)
<1>1. s.pending \in Seq(Atoms) /\ Len(s.pending) \in Nat /\ s.thinking \in BOOLEAN
  BY StreamTypes
<1>2. name \in Nat /\ name <= Len(s.pending)
  <2>1. name = LeadingWord(s.pending)
    BY DEF NameGone
  <2>2. IsWord(s.pending, name) /\ name \in Nat
    BY <1>1, <2>1, LeadingWordIs
  <2> QED
    BY <1>1, <2>2 DEF IsWord
<1>3. From(s.pending, name + 1) \in Seq(Atoms) /\ Len(From(s.pending, name + 1)) = Len(s.pending) - name
  BY <1>1, <1>2, FromAfter
<1>4. PICK p, t : /\ p = From(s.pending, name + 1)
                  /\ t = IF s.awaited = "channel"
                         THEN ChannelThinks(SubSeq(s.pending, 1, name), s.thinking) ELSE s.thinking
  OBVIOUS
<1>5. t \in BOOLEAN
  BY <1>1, <1>4 DEF ChannelThinks
<1>6. s2 = [s EXCEPT !.awaited = "other", !.pending = p, !.thinking = t]
  BY <1>4 DEF NameGone
<1>7. Len(p) <= Len(s.pending) /\ p \in Seq(Atoms)
  BY <1>1, <1>2, <1>3, <1>4
<1>8. /\ s2 \in StreamRecords /\ s2.awaited = "other" /\ s2.sawMarker = s.sawMarker
      /\ s2.shown = s.shown /\ s2.pending = p /\ s2.thinking = t
  BY <1>5, <1>6, <1>7 DEF StreamRecords, Awaitable
<1> QED
  BY <1>2, <1>4, <1>7, <1>8


LEMMA PushStepTypes ==
    ASSUME NEW s \in StreamRecords, NEW final \in BOOLEAN, NEW s2, s2 = PushStep(s, final)
    PROVE  /\ s2 \in StreamRecords /\ Weight(s2) \in Nat
           /\ final => Len(s2.pending) = 0 \/ Weight(s2) < Weight(s)
<1>1. s.pending \in Seq(Atoms) /\ Len(s.pending) \in Nat
  BY StreamTypes
<1>2. PICK keeps : keeps = IF final THEN 0 ELSE Held(s.pending)
  OBVIOUS
<1>3. keeps \in Nat /\ keeps <= Len(s.pending) /\ (final => keeps = 0)
  <2>1. Held(s.pending) \in Nat /\ Held(s.pending) <= Len(s.pending)
    BY <1>1, HeldIs
  <2> QED
    BY <1>1, <1>2, <2>1
<1>4. s2 \in StreamRecords => Len(s2.pending) \in Nat /\ Weight(s2) \in Nat
  BY StreamTypes
<1>5. CASE s2 = s /\ (final => s.pending = <<>>)
  <2>1. final => Len(s2.pending) = 0
    BY <1>5, StreamTypes
  <2> QED
    BY <1>4, <1>5, <2>1
<1>6. CASE Says(s, s2, keeps)
  <2>1. s2 \in StreamRecords /\ Len(s2.pending) = keeps
    BY <1>3, <1>6, SaysTypes
  <2> QED
    BY <1>3, <1>4, <2>1
<1>7. CASE MarkGone(s, s2, FirstMarker(s.pending))
  <2>1. PICK m : m = FirstMarker(s.pending)
    OBVIOUS
  <2>2. s2 \in StreamRecords /\ Len(s2.pending) < Len(s.pending) - 1
    BY <1>7, <2>1, MarkedTypes
  <2>3. Weight(s2) < Weight(s)
    <3>1. PICK a, b : a = Len(s.pending) /\ b = Len(s2.pending)
      OBVIOUS
    <3>2. a \in Nat /\ b \in Nat /\ b < a - 1
      BY <1>1, <1>4, <2>2, <3>1
    <3>3. Weight(s2) = b \/ Weight(s2) = b + 1
      BY <3>1, <3>2 DEF Weight
    <3>4. Weight(s) = a \/ Weight(s) = a + 1
      BY <3>1, <3>2 DEF Weight
    <3> QED
      BY <3>2, <3>3, <3>4
  <2> QED
    BY <1>4, <2>2, <2>3
<1>8. CASE NameGone(s, s2, LeadingWord(s.pending), final)
  <2>1. PICK name : name = LeadingWord(s.pending)
    OBVIOUS
  <2>2. s2 \in StreamRecords /\ s2.awaited = "other" /\ Len(s2.pending) <= Len(s.pending)
    BY <1>8, <2>1, NamedTypes
  <2>3. s.awaited # "other"
    BY <1>8 DEF NameGone
  <2>4. Weight(s2) < Weight(s)
    BY <1>1, <1>4, <2>2, <2>3 DEF Weight
  <2> QED
    BY <1>4, <2>2, <2>4
<1> QED
  BY <1>2, <1>5, <1>6, <1>7, <1>8, PushCases

\* A marker in what is left is one of the text.
LEMMA MarkerFrom ==
    ASSUME NEW x \in Seq(Atoms), NEW c \in Nat, c <= Len(x), NEW i \in Nat \ {0},
           NEW e \in Nat, e <= Len(x) - c, NEW i2, i2 = c + i, NEW e2, e2 = c + e
    PROVE  IsMarker(From(x, c + 1), i, e) <=> IsMarker(x, i2, e2)
<1>1. Len(x) \in Nat
  BY LenProperties
<1>2. PICK y : y = From(x, c + 1)
  OBVIOUS
<1>3. Len(y) = Len(x) - c /\ \A j \in 1..Len(x) - c : y[j] = x[c + j]
  BY <1>2, FromAfter
<1>4. \A j \in i..e : y[j] = x[c + j]
  BY <1>1, <1>3
<1>5. c \in Int /\ i \in Int /\ e \in Int
  OBVIOUS
<1>6. IsMarker(y, i, e) <=> IsMarker(x, i2, e2)
  BY <1>4, <1>5, SameMarker
<1> QED
  BY <1>2, <1>6

LEMMA MarkFrom ==
    ASSUME NEW x \in Seq(Atoms), NEW c \in Nat, c <= Len(x), NEW i \in Nat \ {0}
    PROVE  MarkAt(From(x, c + 1), i) <=> MarkAt(x, c + i)
<1>1. Len(x) \in Nat
  BY LenProperties
<1>2. PICK y, k : y = From(x, c + 1) /\ k = c + i
  OBVIOUS
<1>3. Len(y) = Len(x) - c
  BY <1>2, FromAfter
<1>4. i \in 1..Len(y) <=> k \in 1..Len(x)
  BY <1>1, <1>2, <1>3
<1>5. ASSUME NEW e \in 1..Len(y), IsMarker(y, i, e) PROVE MarkAt(x, k)
  <2>1. PICK f : f = c + e
    OBVIOUS
  <2>2. f \in 1..Len(x) /\ e \in Nat /\ e <= Len(x) - c /\ i < e
    BY <1>1, <1>3, <1>5, <2>1 DEF IsMarker
  <2>3. IsMarker(x, k, f)
    BY <1>2, <1>5, <2>1, <2>2, MarkerFrom
  <2>4. k \in 1..Len(x)
    BY <1>1, <1>3, <1>4, <2>2
  <2> QED
    BY <2>2, <2>3, <2>4 DEF MarkAt
<1>6. ASSUME NEW f \in 1..Len(x), IsMarker(x, k, f) PROVE MarkAt(y, i)
  <2>1. PICK e : e = f - c
    OBVIOUS
  <2>2. e \in 1..Len(y) /\ e \in Nat /\ e <= Len(x) - c /\ f = c + e /\ i < e
    BY <1>1, <1>2, <1>3, <1>6, <2>1 DEF IsMarker
  <2>3. IsMarker(y, i, e)
    BY <1>2, <1>6, <2>2, MarkerFrom
  <2>4. i \in 1..Len(y)
    BY <1>1, <1>3, <2>2
  <2> QED
    BY <2>2, <2>3, <2>4 DEF MarkAt
<1>7. MarkAt(y, i) <=> MarkAt(x, k)
  BY <1>5, <1>6 DEF MarkAt
<1> QED
  BY <1>2, <1>7

\* What has been shown, however much more flows.
ShownOn(st, s, c) ==
    \A n \in Nat : n <= Len(s.pending) =>
        s.shown \o Tagged(SubSeq(s.pending, 1, n), Reading(st))
          = st.out \o Tagged(SubSeq(st.left, NameOf(st) + 1, c + n), Reading(st))

\* What has flowed, in one sequence: c atoms of what is left.
LEMMA FlowsOn ==
    ASSUME NEW st \in SplitRecords, NEW s \in StreamRecords, NEW c, Flows(st, s, c)
    PROVE  /\ c \in Nat /\ c <= Len(st.left) /\ NameOf(st) <= c
           /\ Len(s.pending) = Len(st.left) - c /\ s.thinking \in BOOLEAN
           /\ \A i \in Nat \ {0} : MarkAt(s.pending, i) <=> MarkAt(st.left, c + i)
           /\ \A i \in 1..Len(s.pending) : s.pending[i] = st.left[c + i]
           /\ ShownOn(st, s, c)
           /\ \A n \in Nat : n <= Len(s.pending) =>
                From(s.pending, n + 1) = From(st.left, c + n + 1)
<1>1. st.left \in Seq(Atoms) /\ Len(st.left) \in Nat /\ st.out \in Seq(Fragments)
  BY LenProperties DEF SplitRecords
<1>2. PICK name : name = NameOf(st)
  OBVIOUS
<1>3. name \in Nat /\ name <= Len(st.left) /\ Reading(st) \in BOOLEAN
  BY <1>2, NowTypes
<1>4. /\ c \in name..Len(st.left) /\ s.pending = From(st.left, c + 1) /\ s.thinking = Reading(st)
      /\ s.shown = st.out \o Tagged(SubSeq(st.left, name + 1, c), Reading(st))
  BY <1>2 DEF Flows
<1>5. c \in Nat /\ c <= Len(st.left) /\ name <= c
  BY <1>1, <1>3, <1>4
<1>6. /\ Len(From(st.left, c + 1)) = Len(st.left) - c
      /\ \A i \in 1..Len(st.left) - c : From(st.left, c + 1)[i] = st.left[c + i]
  BY <1>1, <1>5, FromAfter
<1>7. Len(s.pending) = Len(st.left) - c /\ \A i \in 1..Len(s.pending) : s.pending[i] = st.left[c + i]
  BY <1>4, <1>6
<1>8. \A i \in Nat \ {0} : MarkAt(s.pending, i) <=> MarkAt(st.left, c + i)
  BY <1>1, <1>4, <1>5, MarkFrom
<1>9. ASSUME NEW n \in Nat, n <= Len(s.pending)
      PROVE  /\ From(s.pending, n + 1) = From(st.left, c + n + 1)
             /\ s.shown \o Tagged(SubSeq(s.pending, 1, n), Reading(st))
                  = st.out \o Tagged(SubSeq(st.left, name + 1, c + n), Reading(st))
  <2>1. PICK e : e = c + n
    OBVIOUS
  <2>2. e \in Nat /\ e <= Len(st.left) /\ c <= e /\ c + n <= Len(st.left)
    BY <1>1, <1>5, <1>7, <1>9, <2>1
  <2>3. From(From(st.left, c + 1), n + 1) = From(st.left, c + n + 1)
    BY <1>1, <1>5, <2>2, FromFrom
  <2>4. SubSeq(From(st.left, c + 1), 1, n) = SubSeq(st.left, c + 1, c + n)
    BY <1>1, <1>5, <2>2, CutOfFrom
  <2>5. PICK now : now = Reading(st)
    OBVIOUS
  <2>6. now \in BOOLEAN
    BY <1>3, <2>5
  <2>7. (st.out \o Tagged(SubSeq(st.left, name + 1, c), now)) \o Tagged(SubSeq(st.left, c + 1, e), now)
          = st.out \o Tagged(SubSeq(st.left, name + 1, e), now)
    <3>1. PICK x, o : x = st.left /\ o = st.out
      OBVIOUS
    <3>2. /\ x \in Seq(Atoms) /\ o \in Seq(Fragments) /\ name \in Nat /\ c \in Nat /\ e \in Nat
          /\ name <= c /\ c <= e /\ e <= Len(x)
      BY <1>1, <1>3, <1>5, <2>2, <3>1
    <3>3. PICK a, b : a = name + 1 /\ b = c + 1
      OBVIOUS
    <3>4. PICK p, q, r :
             /\ p = Tagged(SubSeq(x, a, c), now) /\ p \in Seq(Fragments)
             /\ q = Tagged(SubSeq(x, b, e), now) /\ q \in Seq(Fragments)
             /\ r = Tagged(SubSeq(x, a, e), now) /\ r = p \o q
      BY <2>6, <3>2, <3>3, TaggedOn
    <3>5. (o \o p) \o q = o \o r
      BY <3>2, <3>4, JoinOn, SMTT(30)
    <3> QED
      BY <3>1, <3>3, <3>4, <3>5
  <2> QED
    BY <1>4, <2>1, <2>3, <2>4, <2>5, <2>7
<1>10. ShownOn(st, s, c)
  BY <1>2, <1>9 DEF ShownOn
<1> QED
  BY <1>2, <1>3, <1>4, <1>5, <1>7, <1>8, <1>9, <1>10

\* What has been shown when n more atoms flow.
LEMMA FlowsShown ==
    ASSUME NEW st \in SplitRecords, NEW s \in StreamRecords, NEW c, Flows(st, s, c),
           NEW n \in Nat, n <= Len(s.pending)
    PROVE  s.shown \o Tagged(SubSeq(s.pending, 1, n), Reading(st))
             = st.out \o Tagged(SubSeq(st.left, NameOf(st) + 1, c + n), Reading(st))
<1>1. ShownOn(st, s, c)
  BY FlowsOn
<1> QED
  BY <1>1 DEF ShownOn

LEMMA SaysAgrees ==
    ASSUME NEW st \in SplitRecords, NEW s \in StreamRecords, NEW final \in BOOLEAN,
           Agrees(st, s, final), NEW s2, NEW keeps, keeps = IF final THEN 0 ELSE Held(s.pending),
           Says(s, s2, keeps)
    PROVE  Agrees(st, s2, final)
<1>1. st.left \in Seq(Atoms) /\ Len(st.left) \in Nat
  BY LenProperties DEF SplitRecords
<1>2. s.pending \in Seq(Atoms) /\ Len(s.pending) \in Nat
  BY StreamTypes
<1>3. s.awaited = "other" /\ s.pending # <<>> /\ FirstMarker(s.pending) = 0
  BY DEF Says
<1>4. keeps \in Nat /\ keeps <= Len(s.pending)
  <2>1. Held(s.pending) \in Nat /\ Held(s.pending) <= Len(s.pending)
    BY <1>2, HeldIs
  <2> QED
    BY <1>2, <2>1
<1>5. PICK c \in Nat : Flows(st, s, c) /\ (~final => Settled(st, c))
  BY <1>3 DEF Agrees, Waits
<1>6. PICK n : n = Len(s.pending) - keeps
  OBVIOUS
<1>7. PICK e : e = c + n
  OBVIOUS
<1>8. /\ c <= Len(st.left) /\ NameOf(st) <= c /\ Len(s.pending) = Len(st.left) - c
      /\ n \in Nat /\ n <= Len(s.pending) /\ e \in Nat /\ e <= Len(st.left) /\ c <= e
      /\ NameOf(st) \in Nat
  <2>1. c <= Len(st.left) /\ NameOf(st) <= c /\ Len(s.pending) = Len(st.left) - c /\ NameOf(st) \in Nat
    BY <1>5, FlowsOn, NowTypes
  <2> QED
    BY <1>1, <1>2, <1>4, <1>6, <1>7, <2>1, SMTT(30)
<1>9. /\ s2 \in StreamRecords /\ s2.awaited = "other" /\ s2.thinking = s.thinking
      /\ s2.sawMarker = s.sawMarker
  BY <1>4, SaysTypes
<1>10. /\ s2.pending = From(s.pending, n + 1)
       /\ s2.shown = s.shown \o Tagged(SubSeq(s.pending, 1, n), s.thinking)
  <2>1. PICK p, o : p = From(s.pending, n + 1) /\ o = s.shown \o Tagged(SubSeq(s.pending, 1, n), s.thinking)
    OBVIOUS
  <2>2. s2 = [s EXCEPT !.shown = o, !.pending = p]
    BY <1>6, <2>1 DEF Says
  <2> QED
    BY <2>1, <2>2 DEF StreamRecords
<1>11. s2.pending = From(st.left, e + 1)
  <2>1. From(s.pending, n + 1) = From(st.left, c + n + 1)
    BY <1>5, <1>8, FlowsOn
  <2> QED
    BY <1>7, <1>10, <2>1
<1>12. s2.shown = st.out \o Tagged(SubSeq(st.left, NameOf(st) + 1, e), Reading(st))
  <2>1. s.thinking = Reading(st)
    BY <1>5 DEF Flows
  <2>2. s.shown \o Tagged(SubSeq(s.pending, 1, n), Reading(st))
          = st.out \o Tagged(SubSeq(st.left, NameOf(st) + 1, c + n), Reading(st))
    BY <1>5, <1>8, FlowsShown
  <2> QED
    BY <1>7, <1>10, <2>1, <2>2
<1>13. \A i \in Nat \ {0} : c < i => ~MarkAt(st.left, i)
  <2>1. TAKE i \in Nat \ {0}
  <2>2. HAVE c < i
  <2>3. PICK j : j = i - c
    OBVIOUS
  <2>4. j \in Nat \ {0} /\ c + j = i
    BY <2>2, <2>3
  <2>5. ~MarkAt(s.pending, j)
    BY <1>2, <1>3, FirstMarkerIs
  <2>6. MarkAt(s.pending, j) <=> MarkAt(st.left, c + j)
    BY <1>5, <2>4, FlowsOn
  <2> QED
    BY <2>4, <2>5, <2>6
<1>14. \A i \in 1..e : ~MarkAt(st.left, i)
  <2>1. \A i \in 1..c : ~MarkAt(st.left, i)
    BY <1>5 DEF Flows
  <2> QED
    BY <1>8, <1>13, <2>1
<1>15. Flows(st, s2, e)
  <2>1. e \in NameOf(st)..Len(st.left)
    BY <1>1, <1>8
  <2>2. s2.thinking = Reading(st)
    BY <1>5, <1>9 DEF Flows
  <2> QED
    BY <1>9, <1>11, <1>12, <1>14, <2>1, <2>2 DEF Flows
<1>16. ~final => Settled(st, e)
  <2>1. SUFFICES ASSUME ~final PROVE Settled(st, e)
    OBVIOUS
  <2>2. keeps = Held(s.pending)
    BY <2>1
  <2>3. ASSUME NEW i \in 1..e, Unclosed(st.left, i)
        PROVE  Len(st.left) + 1 - i > MaxHold
    <3>1. CASE i <= c
      <4>1. i \in 1..c
        BY <1>8, <3>1
      <4> QED
        BY <1>5, <2>1, <2>3, <4>1 DEF Settled
    <3>2. CASE c < i
      <4>1. PICK j : j = i - c
        OBVIOUS
      <4>2. j \in 1..Len(s.pending) /\ c + j = i /\ j <= n
        BY <1>1, <1>7, <1>8, <3>2, <4>1
      <4>3. \A k \in 1..Len(s.pending) : s.pending[k] = st.left[c + k]
        BY <1>5, FlowsOn
      <4>4. Unclosed(s.pending, j)
        <5>1. s.pending[j] = st.left[i]
          BY <4>2, <4>3
        <5>2. ASSUME NEW k \in (j + 1)..Len(s.pending)
              PROVE  s.pending[j] \in {"open", "close"} /\ s.pending[k] = Space
          <6>1. PICK o : o = c + k
            OBVIOUS
          <6>2. o \in (i + 1)..Len(st.left) /\ k \in 1..Len(s.pending)
            BY <1>1, <1>2, <1>8, <4>2, <6>1
          <6>3. s.pending[k] = st.left[o]
            BY <4>3, <6>1, <6>2
          <6> QED
            BY <2>3, <5>1, <6>2, <6>3 DEF Unclosed
        <5> QED
          BY <2>3, <5>1, <5>2 DEF Unclosed
      <4>5. SUFFICES ASSUME ~(Len(st.left) + 1 - i > MaxHold) PROVE FALSE
        OBVIOUS
      <4>6. Len(s.pending) + 1 - j <= MaxHold
        BY <1>1, <1>2, <1>8, <4>2, <4>5, TagBounds
      <4>7. Held(s.pending) = Len(s.pending) + 1 - j
        BY <1>2, <4>2, <4>4, <4>6, HeldIs
      <4> QED
        BY <1>2, <1>6, <2>2, <4>2, <4>7
    <3> QED
      BY <1>8, <3>1, <3>2
  <2>4. st.awaited # "other" => NameOf(st) < Len(st.left)
    BY <1>5, <2>1 DEF Settled
  <2> QED
    BY <2>3, <2>4 DEF Settled
<1>17. s2.sawMarker = st.sawMarker
  BY <1>9 DEF Agrees
<1> QED
  BY <1>8, <1>15, <1>16, <1>17 DEF Agrees


\* A complete marker is read as the split reads it, unless it closes what
\* nothing opened.
LEMMA MarkedAgrees ==
    ASSUME NEW st \in SplitRecords, NEW s \in StreamRecords, NEW final \in BOOLEAN,
           Agrees(st, s, final), NEW s2, NEW m, MarkGone(s, s2, m),
           ~st.sawMarker => ~Orphan(st.left)
    PROVE  FirstMarker(st.left) # 0 /\ Agrees(SplitStep(st), s2, final)
<1>1. st.left \in Seq(Atoms) /\ Len(st.left) \in Nat
  BY LenProperties DEF SplitRecords
<1>2. s.pending \in Seq(Atoms) /\ Len(s.pending) \in Nat
  BY StreamTypes
<1>3. s.awaited = "other" /\ m = FirstMarker(s.pending) /\ m # 0
  BY DEF MarkGone
<1>4. m \in Nat /\ MarkAt(s.pending, m) /\ \A i \in Nat : MarkAt(s.pending, i) => m <= i
  BY <1>2, <1>3, FirstMarkerIs
<1>5. /\ m < Len(s.pending) /\ MarkerEnd(s.pending) \in Nat /\ m < MarkerEnd(s.pending)
      /\ MarkerEnd(s.pending) <= Len(s.pending) /\ IsMarker(s.pending, m, MarkerEnd(s.pending))
  BY <1>2, <1>4, FirstMarkerAt
<1>6. PICK c \in Nat : Flows(st, s, c)
  BY <1>3 DEF Agrees, Waits
<1>7. c <= Len(st.left) /\ NameOf(st) <= c /\ Len(s.pending) = Len(st.left) - c /\ NameOf(st) \in Nat
  BY <1>6, FlowsOn, NowTypes
<1>8. PICK e : e = c + m
  OBVIOUS
<1>9. PICK l : l = m - 1
  OBVIOUS
<1>10. PICK a, f : a = MarkerEnd(s.pending) /\ f = c + a
  OBVIOUS
<1>11. /\ e \in Nat /\ l \in Nat /\ a \in Nat /\ l <= Len(s.pending) /\ a <= Len(s.pending)
       /\ m \in 1..Len(s.pending)
  BY <1>2, <1>3, <1>4, <1>5, <1>8, <1>9, <1>10
<1>12. MarkAt(st.left, e)
  <2>1. m \in Nat \ {0}
    BY <1>3, <1>4
  <2>2. MarkAt(s.pending, m) <=> MarkAt(st.left, c + m)
    BY <1>6, <2>1, FlowsOn
  <2> QED
    BY <1>4, <1>8, <2>2
<1>13. ASSUME NEW i \in Nat, MarkAt(st.left, i) PROVE e <= i
  <2>1. c < i
    <3>1. SUFFICES ASSUME ~(c < i) PROVE FALSE
      OBVIOUS
    <3>2. i \in 1..c
      BY <1>13, <3>1 DEF MarkAt
    <3> QED
      BY <1>6, <1>13, <3>2 DEF Flows
  <2>2. PICK j : j = i - c
    OBVIOUS
  <2>3. j \in Nat \ {0} /\ c + j = i
    BY <2>1, <2>2
  <2>4. MarkAt(s.pending, j) <=> MarkAt(st.left, c + j)
    BY <1>6, <2>3, FlowsOn
  <2>5. m <= j
    BY <1>4, <1>13, <2>3, <2>4
  <2> QED
    BY <1>4, <1>8, <2>3, <2>5
<1>14. /\ FirstMarker(st.left) = e /\ e # 0 /\ e < Len(st.left) /\ MarkerEnd(st.left) = f
  <2>1. /\ FirstMarker(st.left) = e /\ e # 0 /\ e < Len(st.left)
        /\ MarkerEnd(st.left) \in Nat /\ IsMarker(st.left, e, MarkerEnd(st.left))
    BY <1>1, <1>11, <1>12, <1>13, FirstMarkerAt
  <2>2. s.pending = From(st.left, c + 1)
    BY <1>6 DEF Flows
  <2>3. m \in Nat \ {0} /\ a \in Nat /\ a <= Len(st.left) - c /\ f \in Nat
    BY <1>3, <1>4, <1>7, <1>10, <1>11
  <2>4. IsMarker(From(st.left, c + 1), m, a)
    BY <1>5, <1>10, <2>2
  <2>5. IsMarker(st.left, e, f)
    BY <1>1, <1>7, <1>8, <1>10, <2>3, <2>4, MarkerFrom
  <2>6. MarkerEnd(st.left) = f
    BY <1>11, <2>1, <2>3, <2>5, MarkerEndsOnce
  <2> QED
    BY <2>1, <2>6
<1>15. PICK kind : kind = st.left[e]
  OBVIOUS
<1>16. s.pending[m] = kind
  <2>1. s.pending[m] = st.left[c + m]
    BY <1>6, <1>11, FlowsOn
  <2> QED
    BY <1>8, <1>15, <2>1
<1>17. s.sawMarker = st.sawMarker /\ s.thinking = Reading(st)
  BY <1>6 DEF Agrees, Flows
<1>18. ~(kind = "close" /\ ~st.sawMarker)
  BY <1>14, <1>15 DEF Orphan
<1>19. PICK now : now = Reading(st)
  OBVIOUS
<1>20. now \in BOOLEAN
  BY <1>19, NowTypes
<1>21. PICK t : t = SplitStep(st)
  OBVIOUS
<1>22. PICK d : d = e - 1
  OBVIOUS
<1>23. /\ t.left = From(st.left, f + 1) /\ t.thinking = NextThinking(kind, now)
       /\ t.sawMarker = TRUE /\ t.awaited = Awaits(kind)
       /\ t.out = st.out \o Tagged(SubSeq(st.left, NameOf(st) + 1, d), now)
  <2>1. SplitStep(st) =
           [left |-> From(st.left, f + 1), thinking |-> NextThinking(st.left[e], Reading(st)),
            sawMarker |-> TRUE, awaited |-> Awaits(st.left[e]),
            out |-> st.out \o Tagged(SubSeq(st.left, NameOf(st) + 1, e - 1),
                                     Reading(st) \/ (st.left[e] = "close" /\ ~st.sawMarker))]
    BY <1>11, <1>12, <1>13, <1>14, MarkedStep
  <2>2. (now \/ (kind = "close" /\ ~st.sawMarker)) = now
    BY <1>18, <1>20
  <2>3. PICK p, o, k, w : /\ p = From(st.left, f + 1) /\ k = NextThinking(kind, now) /\ w = Awaits(kind)
                          /\ o = st.out \o Tagged(SubSeq(st.left, NameOf(st) + 1, d), now)
    OBVIOUS
  <2>4. t = [left |-> p, thinking |-> k, sawMarker |-> TRUE, awaited |-> w, out |-> o]
    BY <1>15, <1>19, <1>21, <1>22, <2>1, <2>2, <2>3
  <2> QED
    BY <2>3, <2>4
<1>24. t \in SplitRecords
  BY <1>21, SplitStepTypes
<1>25. /\ s2 \in StreamRecords /\ s2.sawMarker = TRUE
       /\ s2.pending = From(s.pending, a + 1)
       /\ s2.thinking = NextThinking(kind, now)
       /\ s2.awaited = Awaits(kind)
       /\ s2.shown = s.shown \o Tagged(SubSeq(s.pending, 1, l), now)
  <2>1. /\ s2 \in StreamRecords /\ s2.sawMarker = TRUE
        /\ s2.pending = From(s.pending, a + 1)
        /\ s2.thinking = NextThinking(s.pending[m], s.thinking)
        /\ s2.awaited = Awaits(s.pending[m])
        /\ s2.shown = s.shown \o Tagged(SubSeq(s.pending, 1, m - 1),
                                    s.thinking \/ (s.pending[m] = "close" /\ ~s.sawMarker))
    BY <1>10, MarkedTypes, ZenonT(60)
  <2>2. (s.thinking \/ (s.pending[m] = "close" /\ ~s.sawMarker)) = now
    BY <1>16, <1>17, <1>18, <1>19, <1>20
  <2> QED
    BY <1>9, <1>16, <1>17, <1>19, <2>1, <2>2, ZenonT(60)
<1>26. s2.pending = t.left
  <2>1. From(s.pending, a + 1) = From(st.left, c + a + 1)
    <3>1. \A n \in Nat : n <= Len(s.pending) => From(s.pending, n + 1) = From(st.left, c + n + 1)
      BY <1>6, FlowsOn
    <3>2. a \in Nat /\ a <= Len(s.pending)
      BY <1>11
    <3> QED
      BY <3>1, <3>2
  <2>2. c + a + 1 = f + 1
    BY <1>10
  <2> QED
    BY <1>23, <1>25, <2>1, <2>2
<1>27. s2.shown = t.out
  <2>1. s.shown \o Tagged(SubSeq(s.pending, 1, l), Reading(st))
          = st.out \o Tagged(SubSeq(st.left, NameOf(st) + 1, c + l), Reading(st))
    BY <1>6, <1>11, FlowsShown
  <2>2. c + l = d
    BY <1>4, <1>8, <1>9, <1>22
  <2> QED
    BY <1>19, <1>23, <1>25, <2>1, <2>2
<1>28. s2.thinking = t.thinking /\ s2.awaited = t.awaited /\ s2.sawMarker = t.sawMarker
  BY <1>23, <1>25
<1>29. CASE t.awaited # "other"
  BY <1>21, <1>14, <1>26, <1>27, <1>28, <1>29 DEF Agrees, Waits
<1>30. CASE t.awaited = "other"
  <2>1. NameOf(t) = 0 /\ Reading(t) = t.thinking
    BY <1>24, <1>30, NowTypes
  <2>2. t.left \in Seq(Atoms) /\ Len(t.left) \in Nat /\ t.out \in Seq(Fragments) /\ t.thinking \in BOOLEAN
    BY <1>24, LenProperties DEF SplitRecords
  <2>3. From(t.left, 0 + 1) = t.left
    BY <2>2, FromAll
  <2>4. t.out \o Tagged(SubSeq(t.left, 0 + 1, 0), t.thinking) = t.out
    <3>1. 1 \in Nat \ {0} /\ 0 \in Nat /\ 1 <= 0 + 1 /\ 0 <= Len(t.left) /\ 0 + 1 - 1 = 0 /\ 0 + 1 = 1
      BY <2>2
    <3>2. PICK x : x = SubSeq(t.left, 1, 0)
      OBVIOUS
    <3>3. SubSeq(t.left, 1, 0) \in Seq(Atoms) /\ Len(SubSeq(t.left, 1, 0)) = 0 + 1 - 1
      BY <2>2, <3>1, CutIs
    <3>4. x \in Seq(Atoms) /\ Len(x) = 0
      BY <3>1, <3>2, <3>3
    <3>5. t.out \o Tagged(x, t.thinking) = t.out
      BY <2>2, <3>4, TaggedNothing
    <3> QED
      BY <3>1, <3>2, <3>5
  <2>5. Flows(t, s2, 0)
    <3>1. 0 \in NameOf(t)..Len(t.left)
      BY <2>1, <2>2
    <3>2. s2.pending = From(t.left, 0 + 1)
      BY <1>26, <2>3
    <3>3. s2.shown = t.out \o Tagged(SubSeq(t.left, NameOf(t) + 1, 0), Reading(t))
      BY <1>27, <2>1, <2>4
    <3>4. s2.awaited = "other" /\ s2.thinking = Reading(t) /\ \A i \in 1..0 : ~MarkAt(t.left, i)
      BY <1>28, <1>30, <2>1
    <3> QED
      BY <3>1, <3>2, <3>3, <3>4 DEF Flows
  <2>6. Settled(t, 0)
    BY <1>30 DEF Settled
  <2>7. 0 \in Nat
    OBVIOUS
  <2> QED
    BY <1>21, <1>14, <1>28, <2>5, <2>6, <2>7 DEF Agrees
<1> QED
  BY <1>29, <1>30

LEMMA NamedAgrees ==
    ASSUME NEW st \in SplitRecords, NEW s \in StreamRecords, NEW final \in BOOLEAN,
           Agrees(st, s, final), NEW s2, NEW name, NameGone(s, s2, name, final)
    PROVE  Agrees(st, s2, final)
<1>1. /\ st.left \in Seq(Atoms) /\ Len(st.left) \in Nat /\ st.out \in Seq(Fragments)
      /\ Reading(st) \in BOOLEAN
  BY LenProperties, NowTypes DEF SplitRecords
<1>2. s.awaited # "other" /\ s.pending # <<>> /\ name = LeadingWord(s.pending)
  BY DEF NameGone
<1>3. Waits(st, s) /\ s.sawMarker = st.sawMarker
  BY <1>2 DEF Agrees, Flows
<1>4. /\ st.awaited # "other" /\ s.awaited = st.awaited /\ s.pending = st.left
      /\ s.thinking = st.thinking /\ s.shown = st.out
  BY <1>3 DEF Waits
<1>5. NameOf(st) = name
  BY <1>2, <1>4 DEF NameOf
<1>6. name \in Nat /\ name <= Len(st.left) /\ \A i \in 1..name : st.left[i] \in Parts
  BY <1>5, NowTypes
<1>7. /\ s2 \in StreamRecords /\ s2.awaited = "other" /\ s2.sawMarker = s.sawMarker
      /\ s2.shown = s.shown /\ s2.pending = From(s.pending, name + 1)
      /\ s2.thinking = (IF s.awaited = "channel"
                        THEN ChannelThinks(SubSeq(s.pending, 1, name), s.thinking)
                        ELSE s.thinking)
  BY NamedTypes
<1>8. s2.thinking = Reading(st)
  BY <1>4, <1>5, <1>7 DEF Reading
<1>9. \A i \in 1..name : st.left[i] \notin AllKinds
  BY <1>6, AtomsDiffer
<1>10. st.out \o Tagged(SubSeq(st.left, name + 1, name), Reading(st)) = st.out
  <2>1. PICK a : a = name + 1
    OBVIOUS
  <2>2. a \in Nat \ {0} /\ a <= name + 1 /\ name + 1 - a = 0
    BY <1>6, <2>1
  <2>3. PICK x : x = SubSeq(st.left, a, name)
    OBVIOUS
  <2>4. SubSeq(st.left, a, name) \in Seq(Atoms) /\ Len(SubSeq(st.left, a, name)) = name + 1 - a
    BY <1>1, <1>6, <2>2, CutIs
  <2>5. x \in Seq(Atoms) /\ Len(x) = 0
    BY <2>2, <2>3, <2>4
  <2>6. st.out \o Tagged(x, Reading(st)) = st.out
    BY <1>1, <2>5, TaggedNothing
  <2> QED
    BY <2>1, <2>3, <2>6
<1>11. Flows(st, s2, name)
  <2>1. name \in NameOf(st)..Len(st.left)
    BY <1>1, <1>5, <1>6
  <2>2. \A i \in 1..name : ~MarkAt(st.left, i)
    BY <1>9 DEF MarkAt, IsMarker
  <2> QED
    BY <1>4, <1>5, <1>7, <1>8, <1>10, <2>1, <2>2 DEF Flows
<1>12. ~final => Settled(st, name)
  <2>1. SUFFICES ASSUME ~final PROVE name < Len(st.left)
    BY <1>5, <1>9 DEF Settled, Unclosed
  <2>2. ~(name > 0 /\ name = Len(st.left))
    BY <1>4, <2>1 DEF NameGone
  <2>3. Len(st.left) # 0
    BY <1>1, <1>2, <1>4, EmptySeq
  <2> QED
    BY <1>1, <1>6, <2>2, <2>3
<1> QED
  BY <1>3, <1>6, <1>7, <1>11, <1>12 DEF Agrees

-----------------------------------------------------------------------------
(* The split that a stream keeps up with.                                  *)

LEMMA ChainTypes ==
    ASSUME NEW atoms, NEW n \in Nat, NEW f, Chain(f, n, atoms)
    PROVE  \A k \in 0..n : f[k] \in SplitRecords
BY DEF Chain

LEMMA ChainOn ==
    ASSUME NEW atoms, NEW n \in Nat, NEW f, Chain(f, n, atoms), FirstMarker(f[n].left) # 0
    PROVE  \E g : Chain(g, n + 1, atoms) /\ g[n + 1] = SplitStep(f[n])
<1>1. PICK o : o = n + 1
  OBVIOUS
<1>2. o \in Nat /\ o \notin 0..n /\ n \in 0..n /\ \A k \in 0..o : k # o => k \in 0..n
  BY <1>1
<1>3. PICK g : g = [k \in 0..o |-> IF k = o THEN SplitStep(f[n]) ELSE f[k]]
  OBVIOUS
<1>4. f \in [0..n -> SplitRecords] /\ f[0] = StartOf(atoms)
      /\ \A k \in 1..n : FirstMarker(f[k - 1].left) # 0 /\ f[k] = SplitStep(f[k - 1])
  BY DEF Chain
<1>5. SplitStep(f[n]) \in SplitRecords
  BY <1>2, <1>4, SplitStepTypes
<1>6. g \in [0..o -> SplitRecords]
  BY <1>2, <1>3, <1>4, <1>5
<1>7. g[o] = SplitStep(f[n]) /\ \A k \in 0..n : g[k] = f[k]
  <2>1. o \in 0..o /\ \A k \in 0..n : k \in 0..o /\ k # o
    BY <1>1
  <2> QED
    BY <1>3, <2>1
<1>8. g[0] = StartOf(atoms)
  BY <1>4, <1>7
<1>9. ASSUME NEW k \in 1..o PROVE FirstMarker(g[k - 1].left) # 0 /\ g[k] = SplitStep(g[k - 1])
  <2>1. PICK j : j = k - 1
    OBVIOUS
  <2>2. j \in 0..n /\ (k = o => j = n) /\ (k # o => k \in 1..n /\ k \in 0..n)
    BY <1>1, <2>1
  <2>3. g[j] = f[j]
    BY <1>7, <2>2
  <2>4. CASE k = o
    BY <1>7, <2>1, <2>2, <2>3, <2>4
  <2>5. CASE k # o
    BY <1>4, <1>7, <2>1, <2>2, <2>3, <2>5
  <2> QED
    BY <2>4, <2>5
<1>10. Chain(g, o, atoms)
  BY <1>6, <1>8, <1>9 DEF Chain
<1> QED
  BY <1>1, <1>7, <1>10

LEMMA ChainSaw ==
    ASSUME NEW atoms \in Seq(Atoms), NEW n \in Nat, NEW f, Chain(f, n, atoms), ~f[n].sawMarker
    PROVE  f[n].left = atoms
<1>1. f[0] = StartOf(atoms)
  BY DEF Chain
<1>2. n = 0
  <2>1. SUFFICES ASSUME n # 0 PROVE FALSE
    OBVIOUS
  <2>2. PICK j : j = n - 1
    OBVIOUS
  <2>3. n \in 1..n /\ j \in 0..n
    BY <2>1, <2>2
  <2>4. f[j] \in SplitRecords /\ FirstMarker(f[j].left) # 0 /\ f[n] = SplitStep(f[j])
    BY <2>2, <2>3 DEF Chain
  <2>5. PICK m : m = FirstMarker(f[j].left)
    OBVIOUS
  <2>6. f[j].left \in Seq(Atoms)
    BY <2>4 DEF SplitRecords
  <2>7. m \in Nat /\ MarkAt(f[j].left, m) /\ \A i \in Nat : MarkAt(f[j].left, i) => m <= i
    BY <2>4, <2>5, <2>6, FirstMarkerIs
  <2>8. PICK st : st = f[j]
    OBVIOUS
  <2>9. SplitStep(st).sawMarker = TRUE
    <3>1. FirstMarker(st.left) # 0
      BY <2>4, <2>8
    <3> QED
      BY <3>1 DEF SplitStep
  <2> QED
    BY <2>4, <2>8, <2>9
<1> QED
  BY <1>1, <1>2 DEF StartOf

\* What is left is the end of the text.
EndOf(x, atoms) == \E k \in Nat : k <= Len(atoms) /\ x = From(atoms, k + 1)

LEMMA StepEnds ==
    ASSUME NEW atoms \in Seq(Atoms), NEW st \in SplitRecords, EndOf(st.left, atoms),
           FirstMarker(st.left) # 0
    PROVE  EndOf(SplitStep(st).left, atoms)
<1>1. st.left \in Seq(Atoms) /\ Len(st.left) \in Nat /\ Len(atoms) \in Nat
  BY LenProperties DEF SplitRecords
<1>2. PICK k \in Nat : k <= Len(atoms) /\ st.left = From(atoms, k + 1)
  BY DEF EndOf
<1>3. Len(st.left) = Len(atoms) - k
  BY <1>2, FromAfter
<1>4. PICK m : m = FirstMarker(st.left)
  OBVIOUS
<1>5. m \in Nat /\ MarkAt(st.left, m) /\ \A i \in Nat : MarkAt(st.left, i) => m <= i
  BY <1>1, <1>4, FirstMarkerIs
<1>6. PICK a, b : a = MarkerEnd(st.left) /\ b = k + a
  OBVIOUS
<1>7. a \in Nat /\ a <= Len(st.left)
  BY <1>1, <1>5, <1>6, FirstMarkerAt
<1>8. SplitStep(st).left = From(st.left, a + 1)
  <2>1. PICK p : p = From(st.left, a + 1)
    OBVIOUS
  <2>2. SplitStep(st).left = p
    BY <1>4, <1>6, <2>1 DEF SplitStep
  <2> QED
    BY <2>1, <2>2
<1>9. b \in Nat /\ b <= Len(atoms) /\ k + a <= Len(atoms)
  BY <1>1, <1>2, <1>3, <1>6, <1>7
<1>10. From(From(atoms, k + 1), a + 1) = From(atoms, k + a + 1)
  BY <1>2, <1>7, <1>9, FromFrom
<1>11. SplitStep(st).left = From(atoms, b + 1)
  BY <1>2, <1>6, <1>8, <1>10
<1> QED
  BY <1>9, <1>11 DEF EndOf

LEMMA ChainEnds ==
    ASSUME NEW atoms \in Seq(Atoms), NEW n \in Nat, NEW f, Chain(f, n, atoms)
    PROVE  EndOf(f[n].left, atoms)
<1>1. f[0] = StartOf(atoms) /\ 0 \in 0..n /\ n \in 0..n /\ 0 \in Nat
  BY DEF Chain
<1> DEFINE N == {k \in 0..n : EndOf(f[k].left, atoms)}
<1>2. 0 \in N
  <2>1. f[0].left = atoms /\ Len(atoms) \in Nat
    BY <1>1, LenProperties DEF StartOf
  <2>2. From(atoms, 1) = atoms
    BY FromAll
  <2>3. 0 + 1 = 1 /\ 0 <= Len(atoms)
    BY <2>1
  <2>4. EndOf(f[0].left, atoms)
    BY <1>1, <2>1, <2>2, <2>3 DEF EndOf
  <2> QED
    BY <1>1, <2>4
<1>3. ASSUME NEW k \in 0..n, k \in N, k < n PROVE k + 1 \in N
  <2>1. PICK j, x : j = k + 1 /\ x = f[k]
    OBVIOUS
  <2>2. j \in 1..n /\ j \in 0..n /\ j - 1 = k
    BY <1>3, <2>1
  <2>3. x \in SplitRecords /\ FirstMarker(x.left) # 0 /\ f[j] = SplitStep(x)
    BY <1>3, <2>1, <2>2 DEF Chain
  <2>4. EndOf(x.left, atoms)
    BY <1>3, <2>1
  <2>5. EndOf(f[j].left, atoms)
    BY <2>3, <2>4, StepEnds
  <2> QED
    BY <2>1, <2>2, <2>5
<1>4. \A k \in 0..n : k \in N
  <2> HIDE DEF N
  <2> QED
    BY <1>1, <1>2, <1>3, Climbing
<1> QED
  BY <1>1, <1>4

\* A marker that was not held back is one of the text.
LEMMA LongFrom ==
    ASSUME NEW atoms \in Seq(Atoms), NEW x \in Seq(Atoms), EndOf(x, atoms),
           NEW i \in 1..Len(x), NEW e \in 1..Len(x), IsMarker(x, i, e), e - i > MaxHold
    PROVE  Long(atoms)
<1>1. Len(x) \in Nat /\ Len(atoms) \in Nat
  BY LenProperties
<1>2. PICK k \in Nat : k <= Len(atoms) /\ x = From(atoms, k + 1)
  BY DEF EndOf
<1>3. Len(x) = Len(atoms) - k
  BY <1>2, FromAfter
<1>4. PICK a, b : a = k + i /\ b = k + e
  OBVIOUS
<1>5. /\ i \in Nat \ {0} /\ e \in Nat /\ e <= Len(atoms) - k
      /\ a \in 1..Len(atoms) /\ b \in 1..Len(atoms) /\ b - a > MaxHold
  BY <1>1, <1>3, <1>4, TagBounds
<1>6. IsMarker(From(atoms, k + 1), i, e)
  BY <1>2
<1>7. IsMarker(atoms, a, b)
  BY <1>2, <1>4, <1>5, <1>6, MarkerFrom
<1> QED
  BY <1>5, <1>7 DEF Long

LEMMA PushStepPaced ==
    ASSUME NEW atoms \in Seq(Atoms), ~Orphan(atoms), NEW s \in StreamRecords,
           NEW final \in BOOLEAN, Paced(atoms, s, final), NEW s2, s2 = PushStep(s, final)
    PROVE  Paced(atoms, s2, final)
<1>1. PICK n \in Nat : \E f : Chain(f, n, atoms) /\ Agrees(f[n], s, final)
  BY DEF Paced
<1>2. PICK f : Chain(f, n, atoms) /\ Agrees(f[n], s, final)
  BY <1>1
<1>3. PICK st : st = f[n]
  OBVIOUS
<1>4. st \in SplitRecords /\ Agrees(st, s, final)
  <2>1. n \in 0..n
    OBVIOUS
  <2> QED
    BY <1>2, <1>3, <2>1, ChainTypes
<1>5. ~st.sawMarker => ~Orphan(st.left)
  BY <1>2, <1>3, ChainSaw
<1>6. ASSUME Agrees(st, s2, final) PROVE Paced(atoms, s2, final)
  BY <1>2, <1>3, <1>6 DEF Paced
<1>7. CASE s2 = s
  BY <1>4, <1>6, <1>7
<1>8. CASE Says(s, s2, IF final THEN 0 ELSE Held(s.pending))
  <2>1. PICK keeps : keeps = IF final THEN 0 ELSE Held(s.pending)
    OBVIOUS
  <2>2. Agrees(st, s2, final)
    BY <1>4, <1>8, <2>1, SaysAgrees
  <2> QED
    BY <1>6, <2>2
<1>9. CASE MarkGone(s, s2, FirstMarker(s.pending))
  <2>1. FirstMarker(st.left) # 0 /\ Agrees(SplitStep(st), s2, final)
    BY <1>4, <1>5, <1>9, MarkedAgrees
  <2>2. PICK g : Chain(g, n + 1, atoms) /\ g[n + 1] = SplitStep(f[n])
    BY <1>2, <1>3, <2>1, ChainOn
  <2>3. PICK o : o = n + 1
    OBVIOUS
  <2>4. o \in Nat /\ Chain(g, o, atoms) /\ Agrees(g[o], s2, final)
    BY <1>3, <2>1, <2>2, <2>3
  <2> QED
    BY <2>4 DEF Paced
<1>10. CASE NameGone(s, s2, LeadingWord(s.pending), final)
  <2>1. Agrees(st, s2, final)
    BY <1>4, <1>10, NamedAgrees
  <2> QED
    BY <1>6, <2>1
<1> QED
  BY <1>7, <1>8, <1>9, <1>10, PushCases


\* More of the text comes.
Added(s, piece) == [s EXCEPT !.pending = @ \o piece]

LEMMA StartTypes ==
    ASSUME NEW atoms \in Seq(Atoms)
    PROVE  StartOf(atoms) \in SplitRecords
<1>1. <<>> \in Seq(Fragments)
  OBVIOUS
<1> QED
  BY <1>1 DEF StartOf, SplitRecords, Awaitable

LEMMA TextGrows ==
    ASSUME NEW atoms \in Seq(Atoms), NEW piece \in Seq(Atoms), NEW s \in StreamRecords,
           Paced(atoms, s, FALSE), ~Long(atoms \o piece), NEW s1, s1 = Added(s, piece)
    PROVE  s1 \in StreamRecords /\ s1.pending = s.pending \o piece /\ Paced(atoms \o piece, s1, FALSE)
<1>1. PICK n \in Nat : \E f : Chain(f, n, atoms) /\ Agrees(f[n], s, FALSE)
  BY DEF Paced
<1>2. PICK f : Chain(f, n, atoms) /\ Agrees(f[n], s, FALSE)
  BY <1>1
<1>3. PICK g : g = [k \in 0..n |-> Longer(f[k], piece)]
  OBVIOUS
<1>4. f \in [0..n -> SplitRecords] /\ f[0] = StartOf(atoms)
      /\ \A k \in 1..n : FirstMarker(f[k - 1].left) # 0 /\ f[k] = SplitStep(f[k - 1])
  BY <1>2 DEF Chain
<1>5. Chain(g, n, atoms \o piece)
  <2>1. g \in [0..n -> SplitRecords]
    BY <1>3, <1>4, LongerTypes
  <2>2. g[0] = StartOf(atoms \o piece)
    <3>1. g[0] = Longer(StartOf(atoms), piece)
      BY <1>3, <1>4
    <3>2. PICK rest : rest = atoms \o piece
      OBVIOUS
    <3>3. PICK u, v, w : u = StartOf(atoms) /\ v = Longer(u, piece) /\ w = StartOf(rest)
      OBVIOUS
    <3>4. u \in SplitRecords /\ w \in SplitRecords
      BY <3>2, <3>3, ConcatProperties, StartTypes
    <3>5. /\ v \in SplitRecords /\ v.left = u.left \o piece /\ v.thinking = u.thinking
          /\ v.awaited = u.awaited /\ v.sawMarker = u.sawMarker /\ v.out = u.out
      BY <3>3, <3>4, LongerTypes
    <3>6. /\ u.left = atoms /\ w.left = rest /\ w.thinking = u.thinking /\ w.awaited = u.awaited
          /\ w.sawMarker = u.sawMarker /\ w.out = u.out
      BY <3>3 DEF StartOf
    <3>7. v.left = w.left
      BY <3>2, <3>5, <3>6
    <3>8. v = w
      BY <3>4, <3>5, <3>6, <3>7 DEF SplitRecords
    <3> QED
      BY <3>1, <3>2, <3>3, <3>8
  <2>3. ASSUME NEW k \in 1..n PROVE FirstMarker(g[k - 1].left) # 0 /\ g[k] = SplitStep(g[k - 1])
    <3>1. PICK j : j = k - 1
      OBVIOUS
    <3>2. j \in 0..n /\ k \in 0..n
      BY <3>1
    <3>3. PICK x : x = f[j]
      OBVIOUS
    <3>4. x \in SplitRecords /\ FirstMarker(x.left) # 0 /\ f[k] = SplitStep(x)
      BY <1>4, <3>1, <3>2, <3>3
    <3>5. FirstMarker(Longer(x, piece).left) # 0 /\ SplitStep(Longer(x, piece)) = Longer(SplitStep(x), piece)
      BY <3>4, SplitStepLonger
    <3>6. g[j] = Longer(x, piece) /\ g[k] = Longer(SplitStep(x), piece)
      BY <1>3, <3>2, <3>3, <3>4
    <3> QED
      BY <3>1, <3>5, <3>6
  <2> QED
    BY <2>1, <2>2, <2>3 DEF Chain
<1>6. PICK st : st = f[n]
  OBVIOUS
<1>7. st \in SplitRecords /\ Agrees(st, s, FALSE) /\ g[n] = Longer(st, piece)
  <2>1. n \in 0..n
    OBVIOUS
  <2> QED
    BY <1>2, <1>3, <1>4, <1>6, <2>1
<1>8. PICK more : more = Longer(st, piece)
  OBVIOUS
<1>9. /\ more \in SplitRecords /\ more.left = st.left \o piece /\ more.thinking = st.thinking
      /\ more.awaited = st.awaited /\ more.sawMarker = st.sawMarker /\ more.out = st.out
  BY <1>7, <1>8, LongerTypes
<1>10. s.pending \in Seq(Atoms) /\ st.left \in Seq(Atoms) /\ Len(st.left) \in Nat /\ Len(piece) \in Nat
  BY <1>7, StreamTypes, LenProperties DEF SplitRecords
<1>11. /\ s1 \in StreamRecords /\ s1.pending = s.pending \o piece /\ s1.thinking = s.thinking
       /\ s1.sawMarker = s.sawMarker /\ s1.awaited = s.awaited /\ s1.shown = s.shown
  <2>1. PICK p : p = s.pending \o piece
    OBVIOUS
  <2>2. p \in Seq(Atoms)
    BY <1>10, <2>1, ConcatProperties
  <2>3. s1 = [s EXCEPT !.pending = p]
    BY <2>1 DEF Added
  <2> QED
    BY <2>1, <2>2, <2>3 DEF StreamRecords
<1>12. Agrees(more, s1, FALSE)
  <2>1. s1.sawMarker = more.sawMarker
    BY <1>7, <1>9, <1>11 DEF Agrees
  <2>2. CASE Waits(st, s)
    <3>1. Waits(more, s1)
      BY <1>9, <1>11, <2>2 DEF Waits
    <3> QED
      BY <2>1, <3>1 DEF Agrees
  <2>3. CASE \E c \in Nat : Flows(st, s, c) /\ Settled(st, c)
    <3>1. PICK c \in Nat : Flows(st, s, c) /\ Settled(st, c)
      BY <2>3
    <3>2. st.awaited # "other" => NameOf(st) < Len(st.left)
      BY <3>1 DEF Settled
    <3>3. NameOf(more) = NameOf(st) /\ Reading(more) = Reading(st)
      BY <1>7, <1>8, <3>2, NameOfLonger
    <3>4. c <= Len(st.left) /\ NameOf(st) <= c /\ NameOf(st) \in Nat
      BY <1>7, <3>1, FlowsOn, NowTypes
    <3>5. PICK x, y : x = st.left /\ y = more.left
      OBVIOUS
    <3>6. /\ y = x \o piece /\ x \in Seq(Atoms) /\ y \in Seq(Atoms)
          /\ Len(y) = Len(x) + Len(piece) /\ Len(x) \in Nat /\ c <= Len(x)
          /\ \A i \in 1..Len(x) : y[i] = x[i]
      <4>1. /\ x \o piece \in Seq(Atoms) /\ Len(x \o piece) = Len(x) + Len(piece)
            /\ \A i \in 1..Len(x) + Len(piece) :
                 (x \o piece)[i] = IF i <= Len(x) THEN x[i] ELSE piece[i - Len(x)]
        BY <1>10, <3>5, ConcatProperties
      <4>2. \A i \in 1..Len(x) : i \in 1..Len(x) + Len(piece)
        BY <1>10, <3>5
      <4> QED
        BY <1>9, <1>10, <3>4, <3>5, <4>1, <4>2
    <3>7. From(y, c + 1) = From(x, c + 1) \o piece
      <4>1. From(x \o piece, c + 1) = From(x, c + 1) \o piece
        BY <3>6, FromOfLonger
      <4> QED
        BY <3>6, <4>1
    <3>8. SubSeq(y, NameOf(st) + 1, c) = SubSeq(x, NameOf(st) + 1, c)
      <4>1. PICK a : a = NameOf(st) + 1
        OBVIOUS
      <4>2. a \in Nat \ {0} /\ a <= c + 1
        BY <3>4, <4>1
      <4>3. SubSeq(x \o piece, a, c) = SubSeq(x, a, c)
        BY <3>6, <4>2, CutOfLonger
      <4> QED
        BY <3>6, <4>1, <4>3
    <3>9. ASSUME NEW i \in 1..c, Unclosed(y, i) PROVE Len(y) + 1 - i > MaxHold
      <4>1. i \in 1..Len(x) /\ i \in 1..c /\ Len(x) <= Len(y)
        BY <1>10, <3>6
      <4>2. \A j \in (i + 1)..Len(x) : j \in (i + 1)..Len(y) /\ j \in 1..Len(x)
        BY <3>6, <4>1
      <4>3. Unclosed(x, i)
        BY <3>6, <3>9, <4>1, <4>2 DEF Unclosed
      <4>4. Len(x) + 1 - i > MaxHold
        BY <3>1, <3>5, <4>1, <4>3 DEF Settled
      <4> QED
        BY <3>6, <4>1, <4>4, TagBounds
    <3>10. ASSUME NEW i \in 1..c, MarkAt(y, i) PROVE FALSE
      <4>1. PICK e \in 1..Len(y) : IsMarker(y, i, e)
        BY <3>10 DEF MarkAt
      <4>2. i \in 1..Len(x) /\ i \in Nat \ {0} /\ e \in Nat /\ i < e
        BY <3>6, <4>1 DEF IsMarker
      <4>3. CASE e <= Len(x)
        <5>1. \A j \in i..e : x[j] = y[0 + j]
          BY <3>6, <4>2, <4>3
        <5>2. i = 0 + i /\ e = 0 + e /\ i \in Int /\ e \in Int /\ 0 \in Int /\ e \in 1..Len(x)
          BY <3>6, <4>2, <4>3
        <5>3. IsMarker(x, i, e)
          BY <4>1, <5>1, <5>2, SameMarker
        <5>4. MarkAt(x, i)
          BY <4>2, <5>2, <5>3 DEF MarkAt
        <5> QED
          BY <3>1, <3>5, <5>4 DEF Flows
      <4>4. CASE Len(x) < e
        <5>1. \A j \in (i + 1)..Len(x) : j \in (i + 1)..(e - 1) /\ j \in 1..Len(x)
          BY <3>6, <4>2, <4>4
        <5>2. Unclosed(x, i)
          BY <3>6, <4>1, <4>2, <5>1 DEF Unclosed, IsMarker
        <5>3. Len(x) + 1 - i > MaxHold
          BY <3>1, <3>5, <5>2 DEF Settled
        <5>4. e - i > MaxHold /\ i \in 1..Len(y)
          BY <3>6, <4>1, <4>2, <4>4, <5>3, TagBounds
        <5>5. EndOf(y, atoms \o piece)
          BY <1>5, <1>7, <1>8, <3>5, ConcatProperties, ChainEnds
        <5> QED
          BY <3>6, <4>1, <5>4, <5>5, ConcatProperties, LongFrom
      <4> QED
        BY <3>6, <4>2, <4>3, <4>4
    <3>11. Flows(more, s1, c)
      <4>1. c \in NameOf(more)..Len(more.left)
        BY <1>10, <3>3, <3>4, <3>5, <3>6
      <4>2. s1.pending = From(more.left, c + 1)
        BY <1>11, <3>1, <3>5, <3>7 DEF Flows
      <4>3. s1.shown = more.out \o Tagged(SubSeq(more.left, NameOf(more) + 1, c), Reading(more))
        BY <1>9, <1>11, <3>1, <3>3, <3>5, <3>8 DEF Flows
      <4>4. s1.awaited = "other" /\ s1.thinking = Reading(more)
        BY <1>11, <3>1, <3>3 DEF Flows
      <4> QED
        BY <3>5, <3>10, <4>1, <4>2, <4>3, <4>4 DEF Flows
    <3>12. Settled(more, c)
      <4>1. more.awaited # "other" => NameOf(more) < Len(more.left)
        <5>1. PICK a : a = NameOf(st)
          OBVIOUS
        <5>2. st.awaited # "other" => a < Len(x)
          BY <3>2, <3>5, <5>1
        <5>3. a \in Nat /\ Len(x) \in Nat /\ Len(piece) \in Nat /\ Len(y) = Len(x) + Len(piece)
          BY <1>10, <3>4, <3>6, <5>1
        <5>4. st.awaited # "other" => a < Len(y)
          BY <5>2, <5>3
        <5>5. more.awaited = st.awaited /\ NameOf(more) = a /\ more.left = y
          BY <1>9, <3>3, <3>5, <5>1
        <5> QED
          BY <5>4, <5>5
      <4> QED
        BY <3>5, <3>9, <4>1 DEF Settled
    <3> QED
      BY <2>1, <3>11, <3>12 DEF Agrees
  <2> QED
    BY <1>7, <2>2, <2>3 DEF Agrees
<1> QED
  BY <1>5, <1>7, <1>8, <1>11, <1>12 DEF Paced

LEMMA OrphanStays ==
    ASSUME NEW atoms \in Seq(Atoms), NEW piece \in Seq(Atoms), Orphan(atoms)
    PROVE  Orphan(atoms \o piece)
BY MarkerOfLonger DEF Orphan

LEMMA LongStays ==
    ASSUME NEW atoms \in Seq(Atoms), NEW piece \in Seq(Atoms), Long(atoms)
    PROVE  Long(atoms \o piece)
<1>1. Len(atoms) \in Nat /\ Len(piece) \in Nat
  BY LenProperties
<1>2. PICK w : w = atoms \o piece
  OBVIOUS
<1>3. /\ Len(w) = Len(atoms) + Len(piece)
      /\ \A i \in 1..Len(atoms) + Len(piece) :
           w[i] = IF i <= Len(atoms) THEN atoms[i] ELSE piece[i - Len(atoms)]
  BY <1>2, ConcatProperties
<1>4. PICK i \in 1..Len(atoms), e \in 1..Len(atoms) : IsMarker(atoms, i, e) /\ e - i > MaxHold
  BY DEF Long
<1>5. \A j \in i..e : atoms[j] = w[0 + j]
  BY <1>1, <1>3
<1>6. /\ i = 0 + i /\ e = 0 + e /\ i \in Int /\ e \in Int /\ 0 \in Int
      /\ i \in 1..Len(w) /\ e \in 1..Len(w)
  BY <1>1, <1>3
<1>7. IsMarker(w, i, e)
  BY <1>4, <1>5, <1>6, SameMarker
<1> QED
  BY <1>2, <1>4, <1>6, <1>7 DEF Long

-----------------------------------------------------------------------------
(* All turns of the loop, and all steps of the split.                      *)

Iterated(f, h, t0, T, n) ==
    f \in [0..n -> T] /\ f[0] = t0 /\ \A k \in 1..n : f[k] = h[f[k - 1]]

LEMMA Iterates ==
    ASSUME NEW T, NEW t0, t0 \in T, NEW h, h \in [T -> T], NEW n \in Nat
    PROVE  \E f : Iterated(f, h, t0, T, n)
<1> DEFINE g == [x \in ((0 + 1)..n) \X T |-> h[x[2]]]
<1>1. StepsOn(g, T, 0, n)
  BY DEF StepsOn
<1>2. PICK f : FollowsFrom(f, g, t0, T, 0, n)
  <2> HIDE DEF g
  <2> QED
    BY <1>1, Recursion
<1>3. f \in [0..n -> T] /\ f[0] = t0
  BY <1>2 DEF FollowsFrom
<1>4. ASSUME NEW k \in 1..n PROVE f[k] = h[f[k - 1]]
  <2>1. PICK j : j = k - 1
    OBVIOUS
  <2>2. k \in (0 + 1)..n /\ j \in 0..n
    BY <2>1
  <2>3. f[k] = g[<<k, f[k - 1]>>]
    BY <1>2, <2>2 DEF FollowsFrom
  <2>4. <<k, f[j]>> \in ((0 + 1)..n) \X T
    BY <1>3, <2>2
  <2> QED
    BY <2>1, <2>3, <2>4
<1> QED
  BY <1>3, <1>4 DEF Iterated

PushTurns(f, n, s, final) ==
    /\ f \in [0..n -> StreamRecords] /\ f[0] = s
    /\ \A k \in 1..n : f[k] = PushStep(f[k - 1], final)

LEMMA PushedIs ==
    ASSUME NEW s \in StreamRecords, NEW piece \in Seq(Atoms), NEW final \in BOOLEAN,
           NEW s1, s1 = Added(s, piece), s1 \in StreamRecords,
           NEW n, n = Len(s.pending \o piece) + 2, n \in Nat
    PROVE  \E f : PushTurns(f, n, s1, final) /\ Pushed(s, piece, final) = f[n]
<1> DEFINE h == [x \in StreamRecords |-> PushStep(x, final)]
           IsPush(f) == f = [k \in 0..n |-> IF k = 0 THEN s1 ELSE PushStep(f[k - 1], final)]
<1>1. h \in [StreamRecords -> StreamRecords]
  BY PushStepTypes
<1>2. PICK e : e \in [0..n -> StreamRecords] /\ e[0] = s1 /\ \A k \in 1..n : e[k] = h[e[k - 1]]
  <2> HIDE DEF h, IsPush
  <2>1. s1 \in StreamRecords /\ n \in Nat
    OBVIOUS
  <2>2. \E f : Iterated(f, h, s1, StreamRecords, n)
    BY <1>1, <2>1, Iterates
  <2> QED
    BY <2>2 DEF Iterated
<1>3. ASSUME NEW k \in 1..n PROVE e[k] = PushStep(e[k - 1], final)
  <2>1. PICK j : j = k - 1
    OBVIOUS
  <2>2. j \in 0..n
    BY <2>1
  <2>3. e[j] \in StreamRecords /\ e[k] = h[e[j]]
    BY <1>2, <2>1, <2>2
  <2> QED
    BY <2>1, <2>3
<1>4. IsPush(e)
  <2>1. ASSUME NEW k \in 0..n PROVE e[k] = IF k = 0 THEN s1 ELSE PushStep(e[k - 1], final)
    <3>1. k # 0 => k \in 1..n
      OBVIOUS
    <3> QED
      BY <1>2, <1>3, <3>1
  <2> QED
    BY <1>2, <2>1
<1>5. PICK f : f = CHOOSE x : IsPush(x)
  OBVIOUS
<1>6. IsPush(f)
  <2> HIDE DEF IsPush
  <2> QED
    BY <1>4, <1>5
<1>7. Pushed(s, piece, final) = f[n]
  BY <1>5 DEF Pushed, Added
<1>8. \A k \in 0..n : f[k] = IF k = 0 THEN s1 ELSE PushStep(f[k - 1], final)
  BY <1>6
<1> DEFINE N == {k \in 0..n : f[k] = e[k]}
<1>9. ASSUME NEW k \in 0..n, k \in N, k < n PROVE k + 1 \in N
  <2>1. PICK j : j = k + 1
    OBVIOUS
  <2>2. j \in 0..n /\ j # 0 /\ j - 1 = k /\ j \in 1..n
    BY <1>9, <2>1
  <2>3. f[j] = PushStep(f[k], final) /\ e[j] = PushStep(e[k], final)
    BY <1>3, <1>8, <2>2
  <2> QED
    BY <1>9, <2>1, <2>2, <2>3
<1>10. 0 \in N /\ 0 \in Nat
  <2>1. 0 \in 0..n
    OBVIOUS
  <2>2. f[0] = s1 /\ e[0] = s1
    BY <1>2, <1>8, <2>1
  <2> QED
    BY <2>1, <2>2
<1>11. \A k \in 0..n : k \in N
  <2> HIDE DEF N, h, IsPush
  <2> QED
    BY <1>9, <1>10, Climbing
<1>12. n \in 0..n
  OBVIOUS
<1>13. Pushed(s, piece, final) = e[n]
  BY <1>7, <1>11, <1>12
<1>14. PushTurns(e, n, s1, final)
  BY <1>2, <1>3 DEF PushTurns
<1> QED
  BY <1>13, <1>14

LEMMA PushedFits ==
    ASSUME NEW s \in StreamRecords, NEW piece \in Seq(Atoms), NEW final \in BOOLEAN,
           NEW s1, s1 = Added(s, piece)
    PROVE  /\ s1 \in StreamRecords /\ Pushed(s, piece, final) \in StreamRecords
           /\ \A atoms \in Seq(Atoms) : ~Orphan(atoms) /\ Paced(atoms, s1, final) =>
                Paced(atoms, Pushed(s, piece, final), final)
           /\ final => Len(Pushed(s, piece, final).pending) = 0
<1>1. s.pending \in Seq(Atoms)
  BY StreamTypes
<1>2. PICK p : p = s.pending \o piece
  OBVIOUS
<1>3. p \in Seq(Atoms) /\ Len(p) \in Nat
  BY <1>1, <1>2, ConcatProperties, LenProperties
<1>4. s1 \in StreamRecords /\ s1.pending = p
  <2>1. s1 = [s EXCEPT !.pending = p]
    BY <1>2 DEF Added
  <2> QED
    BY <1>3, <2>1 DEF StreamRecords
<1>5. PICK n : n = Len(p) + 2
  OBVIOUS
<1>6. n \in Nat /\ n = Len(s.pending \o piece) + 2
  BY <1>2, <1>3, <1>5
<1>7. PICK f : PushTurns(f, n, s1, final) /\ Pushed(s, piece, final) = f[n]
  <2>1. \E f : PushTurns(f, n, s1, final) /\ Pushed(s, piece, final) = f[n]
    BY <1>4, <1>6, PushedIs
  <2> QED
    BY <2>1
<1>8. f \in [0..n -> StreamRecords] /\ f[0] = s1 /\ \A k \in 1..n : f[k] = PushStep(f[k - 1], final)
  BY <1>7 DEF PushTurns
<1>9. ASSUME NEW k \in 0..n, k < n
      PROVE  /\ f[k] \in StreamRecords /\ f[k + 1] \in StreamRecords /\ f[k + 1] = PushStep(f[k], final)
             /\ k + 1 \in 0..n
  <2>1. PICK j : j = k + 1
    OBVIOUS
  <2>2. j \in 1..n /\ j \in 0..n /\ j - 1 = k
    BY <1>6, <1>9, <2>1
  <2> QED
    BY <1>8, <2>1, <2>2
<1>10. n \in 0..n /\ 0 \in 0..n /\ 0 \in Nat
  BY <1>6
<1>11. Pushed(s, piece, final) \in StreamRecords
  BY <1>7, <1>8, <1>10
<1>12. ASSUME NEW atoms \in Seq(Atoms), ~Orphan(atoms), Paced(atoms, s1, final)
       PROVE  Paced(atoms, f[n], final)
  <2> DEFINE N == {k \in 0..n : Paced(atoms, f[k], final)}
  <2>1. 0 \in N
    BY <1>8, <1>10, <1>12
  <2>2. ASSUME NEW k \in 0..n, k \in N, k < n PROVE k + 1 \in N
    <3>1. Paced(atoms, f[k], final)
      BY <2>2
    <3>2. PICK x, y : x = f[k] /\ y = f[k + 1]
      OBVIOUS
    <3>3. x \in StreamRecords /\ y = PushStep(x, final) /\ Paced(atoms, x, final) /\ k + 1 \in 0..n
      BY <1>9, <2>2, <3>1, <3>2
    <3>4. Paced(atoms, y, final)
      BY <1>12, <3>3, PushStepPaced
    <3> QED
      BY <3>2, <3>3, <3>4
  <2>3. \A k \in 0..n : k \in N
    <3> HIDE DEF N
    <3> QED
      BY <1>6, <1>10, <2>1, <2>2, Climbing
  <2> QED
    BY <1>10, <2>3
<1>13. ASSUME final PROVE Len(f[n].pending) = 0
  <2> DEFINE N == {k \in 0..n : Len(f[k].pending) = 0 \/ Weight(f[k]) + k <= Weight(s1)}
  <2>1. \A k \in 0..n : /\ Weight(f[k]) \in Nat /\ Len(f[k].pending) \in Nat
                        /\ Len(f[k].pending) <= Weight(f[k]) /\ Weight(f[k]) <= Len(f[k].pending) + 1
    <3>1. TAKE k \in 0..n
    <3>2. PICK x : x = f[k]
      OBVIOUS
    <3>3. x \in StreamRecords
      BY <1>8, <3>2
    <3>4. Len(x.pending) \in Nat /\ Weight(x) \in Nat
      BY <3>3, StreamTypes
    <3>5. Len(x.pending) <= Weight(x) /\ Weight(x) <= Len(x.pending) + 1
      BY <3>4 DEF Weight
    <3> QED
      BY <3>2, <3>4, <3>5
  <2>2. 0 \in N
    <3>1. PICK m : m = Weight(s1)
      OBVIOUS
    <3>2. m \in Nat
      BY <1>4, <3>1, StreamTypes
    <3>3. m + 0 <= m
      BY <3>2
    <3>4. Weight(f[0]) + 0 <= Weight(s1)
      BY <1>8, <3>1, <3>3
    <3> QED
      BY <1>10, <3>4
  <2>3. ASSUME NEW k \in 0..n, k \in N, k < n PROVE k + 1 \in N
    <3>1. PICK x, y, j : x = f[k] /\ y = f[k + 1] /\ j = k + 1
      OBVIOUS
    <3>2. x \in StreamRecords /\ y = PushStep(x, final) /\ j \in 0..n
      BY <1>9, <2>3, <3>1
    <3>3. Len(y.pending) = 0 \/ Weight(y) < Weight(x)
      BY <1>13, <3>2, PushStepTypes
    <3>4. PICK a, b, c, d : a = Weight(x) /\ b = Len(x.pending) /\ c = Weight(y) /\ d = Len(y.pending)
      OBVIOUS
    <3>5. /\ a \in Nat /\ b \in Nat /\ c \in Nat /\ d \in Nat /\ b <= a /\ a <= b + 1
          /\ d <= c /\ c <= d + 1
      BY <2>1, <3>1, <3>2, <3>4
    <3>6. b = 0 \/ a + k <= Weight(s1)
      BY <2>3, <3>1, <3>4
    <3>7. Weight(s1) \in Nat
      BY <1>4, StreamTypes
    <3>8. d = 0 \/ c < a
      BY <3>3, <3>4
    <3>9. d = 0 \/ c + j <= Weight(s1)
      <4>1. j = k + 1 /\ k \in Nat
        BY <1>6, <3>1
      <4> QED
        BY <3>5, <3>6, <3>7, <3>8, <4>1
    <3>10. Len(f[j].pending) = 0 \/ Weight(f[j]) + j <= Weight(s1)
      BY <3>1, <3>4, <3>9
    <3>11. j \in N
      BY <3>2, <3>10
    <3> QED
      BY <3>1, <3>11
  <2>4. \A k \in 0..n : k \in N
    <3> HIDE DEF N
    <3> QED
      BY <1>6, <1>10, <2>2, <2>3, Climbing
  <2>5. Len(f[n].pending) = 0 \/ Weight(f[n]) + n <= Weight(s1)
    BY <1>10, <2>4
  <2>6. Weight(s1) <= Len(p) + 1 /\ Weight(s1) \in Nat
    <3>1. Weight(s1) = Weight(f[0]) /\ Len(f[0].pending) = Len(p)
      BY <1>4, <1>8
    <3> QED
      BY <1>10, <2>1, <3>1
  <2>7. Weight(f[n]) \in Nat
    BY <1>10, <2>1
  <2> QED
    BY <1>3, <1>5, <2>5, <2>6, <2>7
<1> QED
  BY <1>4, <1>7, <1>11, <1>12, <1>13


-----------------------------------------------------------------------------
(* What the stream has shown when it holds nothing back any more.          *)

LEMMA NothingLeft ==
    ASSUME NEW st \in SplitRecords, Len(st.left) = 0
    PROVE  /\ FirstMarker(st.left) = 0 /\ SplitStep(st) \in SplitRecords
           /\ Len(SplitStep(st).left) = 0 /\ SplitStep(st).out = st.out
<1>1. st.left \in Seq(Atoms) /\ st.out \in Seq(Fragments)
  BY DEF SplitRecords
<1>2. st.left = <<>>
  BY <1>1, EmptySeq
<1>3. \A i \in Nat : ~MarkAt(st.left, i)
  BY DEF MarkAt
<1>4. FirstMarker(st.left) = 0
  BY <1>1, <1>3, NoMarker
<1>5. NameOf(st) = 0 /\ Reading(st) \in BOOLEAN
  BY NowTypes
<1>6. PICK rest : rest = From(st.left, NameOf(st) + 1)
  OBVIOUS
<1>7. rest \in Seq(Atoms) /\ Len(rest) = 0
  <2>1. From(st.left, 1) = st.left
    BY <1>1, FromAll
  <2> QED
    BY <1>1, <1>5, <1>6, <2>1
<1>8. st.out \o Tagged(rest, Reading(st)) = st.out
  BY <1>1, <1>5, <1>7, TaggedNothing
<1>9. SplitStep(st) = [st EXCEPT !.out = @ \o Tagged(From(st.left, NameOf(st) + 1), Reading(st)), !.left = <<>>]
  BY <1>3, UnmarkedStep
<1>10. SplitStep(st) = [st EXCEPT !.out = st.out, !.left = <<>>]
  BY <1>6, <1>8, <1>9
<1>11. SplitStep(st).left = <<>> /\ SplitStep(st).out = st.out
  BY <1>10 DEF SplitRecords
<1>12. Len(<<>>) = 0
  BY EmptySeq
<1> QED
  BY <1>4, <1>11, <1>12, SplitStepTypes

LEMMA AllShown ==
    ASSUME NEW st \in SplitRecords, NEW s \in StreamRecords, Agrees(st, s, TRUE), Len(s.pending) = 0
    PROVE  /\ SplitStep(st) \in SplitRecords
           /\ Len(SplitStep(st).left) = 0 /\ SplitStep(st).out = s.shown
<1>1. st.left \in Seq(Atoms) /\ st.out \in Seq(Fragments) /\ Len(st.left) \in Nat
  BY LenProperties DEF SplitRecords
<1>2. CASE Waits(st, s)
  <2>1. Len(st.left) = 0 /\ s.shown = st.out
    BY <1>2 DEF Waits
  <2> QED
    BY <2>1, NothingLeft
<1>3. CASE \E c \in Nat : Flows(st, s, c)
  <2>1. PICK c \in Nat : Flows(st, s, c)
    BY <1>3
  <2>2. c <= Len(st.left) /\ Len(s.pending) = Len(st.left) - c
    BY <2>1, FlowsOn
  <2>3. c = Len(st.left)
    BY <1>1, <2>2
  <2>4. \A i \in 1..c : ~MarkAt(st.left, i)
    BY <2>1 DEF Flows
  <2>5. \A i \in Nat : ~MarkAt(st.left, i)
    <3>1. \A i \in Nat : MarkAt(st.left, i) => i \in 1..c
      BY <1>1, <2>3 DEF MarkAt
    <3> QED
      BY <2>4, <3>1
  <2>6. PICK shown : shown = st.out \o Tagged(From(st.left, NameOf(st) + 1), Reading(st))
    OBVIOUS
  <2>7. SplitStep(st) = [st EXCEPT !.out = @ \o Tagged(From(st.left, NameOf(st) + 1), Reading(st)), !.left = <<>>]
    BY <2>5, UnmarkedStep
  <2>8. SplitStep(st) = [st EXCEPT !.out = shown, !.left = <<>>]
    BY <2>6, <2>7
  <2>9. s.shown = shown
    BY <2>1, <2>3, <2>6 DEF Flows, From
  <2>10. SplitStep(st).left = <<>> /\ SplitStep(st).out = shown
    BY <2>8 DEF SplitRecords
  <2>11. Len(<<>>) = 0
    BY EmptySeq
  <2> QED
    BY <2>9, <2>10, <2>11, SplitStepTypes
<1> QED
  BY <1>2, <1>3 DEF Agrees

Splits(f, n, atoms) ==
    /\ f \in [0..n -> SplitRecords] /\ f[0] = StartOf(atoms)
    /\ \A k \in 1..n : f[k] = SplitStep(f[k - 1])

LEMMA SplitIs ==
    ASSUME NEW atoms \in Seq(Atoms), NEW n \in Nat, n = Len(atoms) + 1
    PROVE  \E f : Splits(f, n, atoms) /\ Split(atoms) = f[n].out
<1> DEFINE h == [x \in SplitRecords |-> SplitStep(x)]
           IsSplit(f) == f = [k \in 0..n |-> IF k = 0 THEN StartOf(atoms) ELSE SplitStep(f[k - 1])]
<1>1. h \in [SplitRecords -> SplitRecords]
  BY SplitStepTypes
<1>2. PICK e : e \in [0..n -> SplitRecords] /\ e[0] = StartOf(atoms) /\ \A k \in 1..n : e[k] = h[e[k - 1]]
  <2> HIDE DEF h, IsSplit
  <2>1. PICK u : u = StartOf(atoms)
    OBVIOUS
  <2>2. u \in SplitRecords
    BY <2>1, StartTypes
  <2>3. \E f : Iterated(f, h, u, SplitRecords, n)
    BY <1>1, <2>2, Iterates
  <2> QED
    BY <2>1, <2>3 DEF Iterated
<1>3. ASSUME NEW k \in 1..n PROVE e[k] = SplitStep(e[k - 1])
  <2>1. PICK j : j = k - 1
    OBVIOUS
  <2>2. j \in 0..n
    BY <2>1
  <2>3. e[j] \in SplitRecords /\ e[k] = h[e[j]]
    BY <1>2, <2>1, <2>2
  <2> QED
    BY <2>1, <2>3
<1>4. IsSplit(e)
  <2>1. ASSUME NEW k \in 0..n PROVE e[k] = IF k = 0 THEN StartOf(atoms) ELSE SplitStep(e[k - 1])
    <3>1. k # 0 => k \in 1..n
      OBVIOUS
    <3> QED
      BY <1>2, <1>3, <3>1
  <2> QED
    BY <1>2, <2>1
<1>5. PICK f : f = CHOOSE x : IsSplit(x)
  OBVIOUS
<1>6. IsSplit(f)
  <2> HIDE DEF IsSplit
  <2> QED
    BY <1>4, <1>5
<1>7. Split(atoms) = f[n].out
  BY <1>5 DEF Split, StartOf
<1>8. \A k \in 0..n : f[k] = IF k = 0 THEN StartOf(atoms) ELSE SplitStep(f[k - 1])
  BY <1>6
<1> DEFINE N == {k \in 0..n : f[k] = e[k]}
<1>9. ASSUME NEW k \in 0..n, k \in N, k < n PROVE k + 1 \in N
  <2>1. PICK j : j = k + 1
    OBVIOUS
  <2>2. j \in 0..n /\ j # 0 /\ j - 1 = k /\ j \in 1..n
    BY <1>9, <2>1
  <2>3. f[j] = SplitStep(f[k]) /\ e[j] = SplitStep(e[k])
    BY <1>3, <1>8, <2>2
  <2> QED
    BY <1>9, <2>1, <2>2, <2>3
<1>10. 0 \in N /\ 0 \in Nat
  <2>1. 0 \in 0..n
    OBVIOUS
  <2>2. f[0] = StartOf(atoms) /\ e[0] = StartOf(atoms)
    BY <1>2, <1>8, <2>1
  <2> QED
    BY <2>1, <2>2
<1>11. \A k \in 0..n : k \in N
  <2> HIDE DEF N, h, IsSplit
  <2> QED
    BY <1>9, <1>10, Climbing
<1>12. n \in 0..n
  OBVIOUS
<1>13. Split(atoms) = e[n].out
  BY <1>7, <1>11, <1>12
<1>14. Splits(e, n, atoms)
  BY <1>2, <1>3 DEF Splits
<1> QED
  BY <1>13, <1>14

LEMMA SplitReached ==
    ASSUME NEW atoms \in Seq(Atoms), NEW s \in StreamRecords, Paced(atoms, s, TRUE),
           Len(s.pending) = 0
    PROVE  Split(atoms) = s.shown
<1>1. PICK n \in Nat : \E f : Chain(f, n, atoms) /\ Agrees(f[n], s, TRUE)
  BY DEF Paced
<1>2. PICK f : Chain(f, n, atoms) /\ Agrees(f[n], s, TRUE)
  BY <1>1
<1>3. f \in [0..n -> SplitRecords] /\ f[0] = StartOf(atoms)
      /\ \A k \in 1..n : FirstMarker(f[k - 1].left) # 0 /\ f[k] = SplitStep(f[k - 1])
  BY <1>2 DEF Chain
<1>4. PICK l : l = Len(atoms)
  OBVIOUS
<1>5. l \in Nat /\ n \in 0..n /\ 0 \in 0..n /\ 0 \in Nat
  BY <1>4, LenProperties
<1>6. \A k \in 0..n : f[k] \in SplitRecords /\ f[k].left \in Seq(Atoms) /\ Len(f[k].left) \in Nat
  BY <1>3, LenProperties DEF SplitRecords
<1>7. n <= l
  <2> DEFINE N == {k \in 0..n : Len(f[k].left) + k <= l}
  <2>1. 0 \in N
    <3>1. Len(f[0].left) = l
      BY <1>3, <1>4 DEF StartOf
    <3>2. l + 0 <= l
      BY <1>5
    <3> QED
      BY <1>5, <3>1, <3>2
  <2>2. ASSUME NEW k \in 0..n, k \in N, k < n PROVE k + 1 \in N
    <3>1. PICK j, x, y : j = k + 1 /\ x = f[k] /\ y = f[j]
      OBVIOUS
    <3>2. j \in 1..n /\ j \in 0..n /\ j - 1 = k
      BY <1>5, <2>2, <3>1
    <3>3. x \in SplitRecords /\ FirstMarker(x.left) # 0 /\ y = SplitStep(x)
      BY <1>3, <3>1, <3>2
    <3>4. Len(y.left) < Len(x.left)
      BY <3>3, SplitStepTypes
    <3>5. PICK a, b : a = Len(x.left) /\ b = Len(y.left)
      OBVIOUS
    <3>6. a \in Nat /\ b \in Nat /\ b < a /\ a + k <= l
      BY <1>6, <2>2, <3>1, <3>2, <3>4, <3>5
    <3>7. b + j <= l
      BY <1>5, <3>1, <3>6
    <3> QED
      BY <3>1, <3>2, <3>5, <3>7
  <2>3. \A k \in 0..n : k \in N
    <3> HIDE DEF N
    <3> QED
      BY <1>5, <2>1, <2>2, Climbing
  <2>4. Len(f[n].left) + n <= l
    BY <1>5, <2>3
  <2> QED
    BY <1>5, <1>6, <2>4
<1>8. PICK m : m = l + 1
  OBVIOUS
<1>9. m \in Nat /\ m = Len(atoms) + 1
  BY <1>4, <1>5, <1>8
<1>10. PICK g : Splits(g, m, atoms) /\ Split(atoms) = g[m].out
  <2>1. \E g : Splits(g, m, atoms) /\ Split(atoms) = g[m].out
    BY <1>9, SplitIs
  <2> QED
    BY <2>1
<1>11. g \in [0..m -> SplitRecords] /\ g[0] = StartOf(atoms)
       /\ \A k \in 1..m : g[k] = SplitStep(g[k - 1])
  BY <1>10 DEF Splits
<1>12. PICK o : o = n + 1
  OBVIOUS
<1>13. o \in 0..m /\ o \in Nat /\ o \in 1..m /\ o - 1 = n /\ n \in 0..m
  BY <1>5, <1>7, <1>8, <1>12
<1>14. g[n] = f[n]
  <2> DEFINE N == {k \in 0..n : g[k] = f[k]}
  <2>1. 0 \in N
    BY <1>3, <1>5, <1>11
  <2>2. ASSUME NEW k \in 0..n, k \in N, k < n PROVE k + 1 \in N
    <3>1. PICK j : j = k + 1
      OBVIOUS
    <3>2. j \in 1..n /\ j \in 0..n /\ j - 1 = k /\ j \in 1..m
      BY <1>5, <1>7, <1>8, <2>2, <3>1
    <3>3. f[j] = SplitStep(f[k]) /\ g[j] = SplitStep(g[k])
      BY <1>3, <1>11, <3>2
    <3> QED
      BY <2>2, <3>1, <3>2, <3>3
  <2>3. \A k \in 0..n : k \in N
    <3> HIDE DEF N
    <3> QED
      BY <1>5, <2>1, <2>2, Climbing
  <2> QED
    BY <1>5, <2>3
<1>15. g[o] \in SplitRecords /\ Len(g[o].left) = 0 /\ g[o].out = s.shown
  <2>1. PICK st : st = f[n]
    OBVIOUS
  <2>2. st \in SplitRecords /\ Agrees(st, s, TRUE)
    BY <1>2, <1>5, <1>6, <2>1
  <2>3. SplitStep(st) \in SplitRecords /\ Len(SplitStep(st).left) = 0 /\ SplitStep(st).out = s.shown
    BY <2>2, AllShown
  <2>4. g[o] = SplitStep(st)
    BY <1>11, <1>13, <1>14, <2>1
  <2> QED
    BY <2>3, <2>4
<1>16. g[m].out = s.shown
  <2> DEFINE N == {k \in o..m : Len(g[k].left) = 0 /\ g[k].out = s.shown}
  <2>1. o \in N
    <3>1. o \in o..m
      BY <1>13
    <3> QED
      BY <1>15, <3>1
  <2>2. ASSUME NEW k \in o..m, k \in N, k < m PROVE k + 1 \in N
    <3>1. PICK j, x : j = k + 1 /\ x = g[k]
      OBVIOUS
    <3>2. j \in 1..m /\ j \in o..m /\ j - 1 = k /\ k \in 0..m
      BY <1>9, <1>13, <2>2, <3>1
    <3>3. x \in SplitRecords /\ Len(x.left) = 0 /\ x.out = s.shown /\ g[j] = SplitStep(x)
      BY <1>11, <2>2, <3>1, <3>2
    <3>4. Len(g[j].left) = 0 /\ g[j].out = s.shown
      BY <3>3, NothingLeft
    <3> QED
      BY <3>1, <3>2, <3>4
  <2>3. \A k \in o..m : k \in N
    <3> HIDE DEF N
    <3> QED
      BY <1>9, <1>13, <2>1, <2>2, Climbing
  <2>4. m \in o..m
    BY <1>9, <1>13
  <2> QED
    BY <2>3, <2>4
<1> QED
  BY <1>10, <1>16

-----------------------------------------------------------------------------
(* The stream keeps up with the text in every state.                       *)

LEMMA OrphanCloseIs == OrphanClose <=> Orphan(text)
BY DEF OrphanClose, Orphan

LEMMA LongMarkerIs ==
    ASSUME text \in Seq(Atoms)
    PROVE  LongMarker <=> Long(text)
<1>1. DOMAIN text = 1..Len(text)
  BY LenProperties
<1> QED
  BY <1>1 DEF LongMarker, Long

LEMMA TagsStart ==
    ASSUME TagsInit
    PROVE  TagsInv
<1>1. <<>> \in Seq(Atoms) /\ <<>> \in Seq(Fragments) /\ Len(<<>>) = 0 /\ MaxAtoms \in Nat
  BY EmptySeq, TagBounds
<1>2. text = <<>> /\ stream \in StreamRecords /\ TagsTypeOK
  BY <1>1 DEF TagsInit, StreamRecords, Awaitable, TagsTypeOK
<1>3. PICK atoms, st : atoms = <<>> /\ st = StartOf(atoms)
  OBVIOUS
<1>4. atoms \in Seq(Atoms) /\ Len(atoms) = 0 /\ st \in SplitRecords
  BY <1>1, <1>3, StartTypes
<1>5. PICK f : f = [k \in 0..0 |-> st]
  OBVIOUS
<1>6. Chain(f, 0, atoms) /\ f[0] = st
  BY <1>3, <1>4, <1>5 DEF Chain
<1>7. /\ st.awaited = "other" /\ st.left = atoms /\ st.thinking = FALSE /\ st.sawMarker = FALSE
      /\ st.out = <<>> /\ NameOf(st) = 0 /\ Reading(st) = FALSE
  BY <1>3 DEF StartOf, NameOf, Reading
<1>8. Flows(st, stream, 0)
  <2>1. stream.pending = <<>> /\ stream.thinking = FALSE /\ stream.awaited = "other" /\ stream.shown = <<>>
    BY DEF TagsInit
  <2>2. From(atoms, 1) = atoms
    <3>1. From(atoms, 1) = atoms /\ From(atoms, Len(atoms) + 1) = <<>>
      BY <1>4, FromAll
    <3> QED
      BY <3>1
  <2>3. SubSeq(atoms, 0 + 1, 0) \in Seq(Atoms) /\ Len(SubSeq(atoms, 0 + 1, 0)) = 0
    BY <1>4, CutIs
  <2>4. <<>> \o Tagged(SubSeq(atoms, 0 + 1, 0), FALSE) = <<>>
    BY <1>1, <2>3, TaggedNothing
  <2>5. 0 \in 0..Len(atoms) /\ 1..0 = {}
    BY <1>4
  <2>6. 0 \in NameOf(st)..Len(st.left) /\ \A i \in 1..0 : ~MarkAt(st.left, i)
    BY <1>3, <1>4, <1>7, <2>5
  <2>7. stream.pending = From(st.left, 0 + 1)
    BY <1>3, <1>7, <2>1, <2>2
  <2>8. stream.shown = st.out \o Tagged(SubSeq(st.left, NameOf(st) + 1, 0), Reading(st))
    BY <1>3, <1>7, <2>1, <2>4
  <2>9. stream.awaited = "other" /\ stream.thinking = Reading(st)
    BY <1>7, <2>1
  <2> QED
    BY <2>6, <2>7, <2>8, <2>9 DEF Flows
<1>9. Settled(st, 0)
  BY <1>7 DEF Settled
<1>10. stream.sawMarker = st.sawMarker
  BY <1>7 DEF TagsInit
<1>11. Agrees(f[0], stream, FALSE)
  BY <1>6, <1>8, <1>9, <1>10 DEF Agrees
<1>12. Paced(text, stream, FALSE)
  BY <1>2, <1>3, <1>6, <1>11 DEF Paced
<1> QED
  BY <1>2, <1>12 DEF TagsInv

LEMMA PiecesAre == Pieces \subseteq Seq(Atoms)
<1>1. ASSUME NEW a \in Atoms, NEW b \in Atoms PROVE <<a>> \in Seq(Atoms) /\ <<a, b>> \in Seq(Atoms)
  OBVIOUS
<1>2. ASSUME NEW piece \in Pieces PROVE piece \in Seq(Atoms)
  <2>1. (\E a \in Atoms : piece = <<a>>) \/ \E a, b \in Atoms : piece = <<a, b>>
    <3>1. piece \in {<<a>> : a \in Atoms} \/ piece \in {<<a, b>> : a \in Atoms, b \in Atoms}
      BY <1>2 DEF Pieces
    <3>2. CASE piece \in {<<a>> : a \in Atoms}
      BY <3>2
    <3>3. CASE piece \in {<<a, b>> : a \in Atoms, b \in Atoms}
      BY <3>3
    <3> QED
      BY <3>1, <3>2, <3>3
  <2>2. CASE \E a \in Atoms : piece = <<a>>
    BY <1>1, <2>2
  <2>3. CASE \E a, b \in Atoms : piece = <<a, b>>
    BY <1>1, <2>3
  <2> QED
    BY <2>1, <2>2, <2>3
<1> QED
  BY <1>2

LEMMA TagsKeep ==
    ASSUME TagsInv, [TagsNext]_tagVars
    PROVE  TagsInv'
<1>1. CASE UNCHANGED tagVars
  BY <1>1 DEF TagsInv, TagsTypeOK, OrphanClose, LongMarker, tagVars
<1>2. CASE PieceArrives
  <2>1. PICK piece \in Pieces :
            /\ Len(text) + Len(piece) <= MaxAtoms
            /\ text' = text \o piece
            /\ stream' = Pushed(stream, piece, FALSE)
    BY <1>2 DEF PieceArrives
  <2>2. /\ text \in Seq(Atoms) /\ stream \in StreamRecords
        /\ ~Orphan(text) /\ ~Long(text) => Paced(text, stream, FALSE)
    BY OrphanCloseIs, LongMarkerIs DEF TagsInv, TagsTypeOK
  <2>3. piece \in Seq(Atoms)
    BY <2>1, PiecesAre
  <2>4. PICK s, s1, s2, t, u : /\ s = stream /\ s1 = Added(s, piece) /\ s2 = Pushed(s, piece, FALSE)
                               /\ t = text /\ u = t \o piece
    OBVIOUS
  <2>5. s \in StreamRecords /\ t \in Seq(Atoms) /\ FALSE \in BOOLEAN
    BY <2>2, <2>4
  <2>6. u \in Seq(Atoms) /\ Len(u) <= MaxAtoms
    BY <2>1, <2>3, <2>4, <2>5, ConcatProperties
  <2>7. /\ s2 \in StreamRecords
        /\ \A atoms \in Seq(Atoms) : ~Orphan(atoms) /\ Paced(atoms, s1, FALSE) => Paced(atoms, s2, FALSE)
    BY <2>3, <2>4, <2>5, PushedFits
  <2>8. ASSUME ~Orphan(u), ~Long(u) PROVE Paced(u, s2, FALSE)
    <3>1. ~Orphan(t) /\ ~Long(t)
      <4>1. Orphan(t) => Orphan(t \o piece)
        BY <2>3, <2>5, OrphanStays
      <4>2. Long(t) => Long(t \o piece)
        BY <2>3, <2>5, LongStays
      <4> QED
        BY <2>4, <2>8, <4>1, <4>2
    <3>2. Paced(t, s, FALSE)
      BY <2>2, <2>4, <3>1
    <3>3. Paced(t \o piece, s1, FALSE)
      BY <2>3, <2>4, <2>5, <2>8, <3>2, TextGrows
    <3> QED
      BY <2>4, <2>6, <2>7, <2>8, <3>3
  <2>9. text' = u /\ stream' = s2
    BY <2>1, <2>4
  <2>10. s2.pending \in Seq(Atoms) /\ s2.thinking \in BOOLEAN /\ s2.sawMarker \in BOOLEAN
         /\ s2.awaited \in Awaitable
    BY <2>7, StreamTypes
  <2>11. TagsTypeOK'
    BY <2>6, <2>9, <2>10 DEF TagsTypeOK, Awaitable
  <2>12. OrphanClose' <=> Orphan(u)
    BY <2>9 DEF OrphanClose, Orphan
  <2>13. LongMarker' <=> Long(u)
    <3>1. DOMAIN u = 1..Len(u)
      BY <2>6, LenProperties
    <3> QED
      BY <2>9, <3>1 DEF LongMarker, Long
  <2>14. ~OrphanClose' /\ ~LongMarker' => Paced(text', stream', FALSE)
    BY <2>8, <2>9, <2>12, <2>13
  <2> QED
    BY <2>7, <2>9, <2>11, <2>14 DEF TagsInv
<1> QED
  BY <1>1, <1>2 DEF TagsNext

LEMMA TagsShow ==
    ASSUME TagsInv
    PROVE  ShownAsStored
<1>1. /\ text \in Seq(Atoms) /\ stream \in StreamRecords
      /\ ~Orphan(text) /\ ~Long(text) => Paced(text, stream, FALSE)
  BY OrphanCloseIs, LongMarkerIs DEF TagsInv, TagsTypeOK
<1>2. PICK t, s, piece, s1, s2 : /\ t = text /\ s = stream /\ piece = <<>> /\ s1 = Added(s, piece)
                                 /\ s2 = Pushed(s, piece, TRUE)
  OBVIOUS
<1>3. t \in Seq(Atoms) /\ s \in StreamRecords /\ piece \in Seq(Atoms) /\ TRUE \in BOOLEAN
  BY <1>1, <1>2, EmptySeq
<1>4. t \o piece = t
  BY <1>2, <1>3, ConcatEmptySeq
<1>5. /\ s2 \in StreamRecords /\ Len(s2.pending) = 0
      /\ \A atoms \in Seq(Atoms) : ~Orphan(atoms) /\ Paced(atoms, s1, TRUE) => Paced(atoms, s2, TRUE)
  BY <1>2, <1>3, PushedFits
<1>6. ASSUME ~Orphan(t), ~Long(t) PROVE Split(t) = s2.shown
  <2>1. Paced(t, s, FALSE)
    BY <1>1, <1>2, <1>6
  <2>2. Paced(t \o piece, s1, FALSE)
    BY <1>2, <1>3, <1>4, <1>6, <2>1, TextGrows
  <2>3. Paced(t, s1, TRUE)
    BY <1>4, <2>2 DEF Paced, Agrees
  <2>4. Paced(t, s2, TRUE)
    BY <1>3, <1>5, <1>6, <2>3
  <2> QED
    BY <1>3, <1>5, <2>4, SplitReached
<1>7. ~OrphanClose /\ ~LongMarker => Pushed(stream, <<>>, TRUE).shown = Split(text)
  BY <1>1, <1>2, <1>6, OrphanCloseIs, LongMarkerIs
<1> QED
  BY <1>7 DEF ShownAsStored

=============================================================================
