---------------------------- MODULE Notifications ----------------------------
(***************************************************************************)
(* The notification center (adapters/filestore/notification_repository.go, *)
(* application/admin.go): runs, approvals and updates leave notices, which *)
(* are kept in memory and, unless they speak of a session that must not    *)
(* reach the disk, in one file.  The file is written whole after every     *)
(* change; only DeleteSession takes its change back when that fails.       *)
(*                                                                         *)
(* A notice is made by the goroutine it tells of and saved under the lock  *)
(* of the repository, so notices may be saved in another order than their  *)
(* dates, which here are their identifiers.                                *)
(***************************************************************************)
EXTENDS Naturals, FiniteSets

CONSTANTS
    Subjects,          \* what notices are about: the DedupeKeys
    SubjectOf,         \* the session of each, or the empty one of an update
    VolatileSessions,  \* the sessions of memory-isolated projects
    MaxStored,         \* maxStoredNotifications
    MaxNotices         \* bound: notices made

ASSUME NoticeBounds == MaxStored \in Nat \ {0} /\ MaxNotices \in Nat

VARIABLES
    notices,           \* NotificationRepository.items
    noticeFile,      \* durable: notifications.json
    coming,          \* notices made and not yet saved
    noticesEnabled,  \* Service.notificationsEnabled
    made,            \* notices made so far
    unwritten,       \* history: the last write of the file failed
    posted, excused  \* history: stored notices that were saved, that a user gave up
                     \* or a crash lost after a failed write

noticeVars == <<notices, noticeFile, coming, noticesEnabled, made, unwritten, posted, excused>>

Notice(id, key) == [id |-> id, key |-> key, read |-> FALSE]

IsVolatile(n) == SubjectOf[n.key] \in VolatileSessions

LastingNotices(ns) == {n \in ns : ~IsVolatile(n)}
IdsOf(ns)   == {n.id : n \in ns}

-----------------------------------------------------------------------------
\* Bug: one limit for the notices that are stored and those that are not.
TrimmedTogether(ns) ==
    {n \in ns : Cardinality({m \in ns : m.id > n.id}) < MaxStored}

\* trimLocked, for either group: the newest are kept.
Trimmed(ns) ==
    {n \in ns : Cardinality({m \in ns : IsVolatile(m) = IsVolatile(n) /\ m.id > n.id}) < MaxStored}

\* persistLocked: the memory is as it is, whether the write succeeds or not.
PersistLocked(ns, ok) ==
    /\ notices' = ns
    /\ noticeFile' = IF ok THEN LastingNotices(ns) ELSE noticeFile
    /\ unwritten' = ~ok

\* addNotification, up to the repository.
MakeNotice(key) ==
    /\ noticesEnabled /\ made < MaxNotices
    /\ made' = made + 1
    /\ coming' = coming \cup {Notice(made + 1, key)}
    /\ UNCHANGED <<notices, noticeFile, noticesEnabled, unwritten, posted, excused>>

Save(n, ok) ==
    /\ coming' = coming \ {n}
    /\ IF \E m \in notices : m.key = n.key
       THEN UNCHANGED <<notices, noticeFile, unwritten, posted>>
       ELSE /\ PersistLocked(Trimmed(notices \cup {n}), ok)
            /\ posted' = posted \cup IdsOf(LastingNotices({n}))
    /\ UNCHANGED <<noticesEnabled, made, excused>>

SetNotificationsEnabled(on) ==
    /\ noticesEnabled' = on
    /\ UNCHANGED <<notices, noticeFile, coming, made, unwritten, posted, excused>>

Read(ns) == {[n EXCEPT !.read = TRUE] : n \in ns}

MarkRead(n, ok) ==
    /\ PersistLocked((notices \ {n}) \cup Read({n}), ok)
    /\ UNCHANGED <<coming, noticesEnabled, made, posted, excused>>

MarkAllRead(ok) ==
    /\ PersistLocked(Read(notices), ok)
    /\ UNCHANGED <<coming, noticesEnabled, made, posted, excused>>

DeleteRead(ok) ==
    LET gone == {n \in notices : n.read} IN
    /\ PersistLocked(notices \ gone, ok)
    /\ excused' = excused \cup IdsOf(gone)
    /\ UNCHANGED <<coming, noticesEnabled, made, posted>>

\* DeleteSession: with nothing to delete, nothing is written.
DeleteNoticesOf(session, ok) ==
    LET gone == {n \in notices : SubjectOf[n.key] = session} IN
    /\ gone # {}
    /\ IF ok THEN /\ PersistLocked(notices \ gone, TRUE)
                  /\ excused' = excused \cup IdsOf(gone)
             ELSE UNCHANGED <<notices, noticeFile, unwritten, excused>>
    /\ UNCHANGED <<coming, noticesEnabled, made, posted>>

\* The process ends, and load reads the file again.
RestartNotices ==
    /\ notices' = noticeFile
    /\ excused' = IF unwritten THEN excused \cup IdsOf(notices) ELSE excused
    /\ coming' = {} /\ unwritten' = FALSE
    /\ UNCHANGED <<noticeFile, noticesEnabled, made, posted>>

-----------------------------------------------------------------------------
NoticesInit ==
    /\ notices = {} /\ noticeFile = {} /\ coming = {} /\ noticesEnabled \in BOOLEAN
    /\ made = 0 /\ unwritten = FALSE /\ posted = {} /\ excused = {}

NoticesNext ==
    \/ \E key \in Subjects : MakeNotice(key)
    \/ \E on \in BOOLEAN : SetNotificationsEnabled(on)
    \/ \E ok \in BOOLEAN :
         \/ \E n \in coming : Save(n, ok)
         \/ \E n \in notices : MarkRead(n, ok)
         \/ MarkAllRead(ok)
         \/ DeleteRead(ok)
         \/ \E key \in Subjects : DeleteNoticesOf(SubjectOf[key], ok)
    \/ RestartNotices

NoticesSpec == NoticesInit /\ [][NoticesNext]_noticeVars

-----------------------------------------------------------------------------
NoticeRecords == [id : 1..MaxNotices, key : Subjects, read : BOOLEAN]

NoticesTypeOK ==
    /\ made \in 0..MaxNotices /\ noticesEnabled \in BOOLEAN /\ unwritten \in BOOLEAN
    /\ notices \cup noticeFile \cup coming \subseteq NoticeRecords
    /\ posted \cup excused \subseteq 1..made

\* What a memory-isolated session said is never on the disk, and the file is
\* what the center shows but for that, unless its last write failed.
DiskIsClean ==
    /\ \A n \in noticeFile : ~IsVolatile(n)
    /\ ~unwritten => noticeFile = LastingNotices(notices)

\* Nobody is told twice of one thing, also after a restart, and neither group
\* grows beyond its limit.
ToldOnce ==
    /\ \A n, m \in notices : n.key = m.key => n = m
    /\ \A v \in BOOLEAN : Cardinality({n \in notices : IsVolatile(n) = v}) <= MaxStored

\* A notice that was saved to last is there until the user gives it up, or as
\* many newer ones have come that last as well.
StoredNoticesStay ==
    \A id \in posted \ excused :
        \/ id \in IdsOf(notices)
        \/ Cardinality({m \in posted : m > id}) >= MaxStored

NoticesHold == DiskIsClean /\ ToldOnce /\ StoredNoticesStay
=============================================================================
