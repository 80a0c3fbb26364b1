-------------------------------- MODULE Backup --------------------------------
(***************************************************************************)
(* Safe backups and their restore (bootstrap/admin_data.go), and the check *)
(* of what is stored at a start (validateStoredStructure).  A backup walks *)
(* the directories one after the other while the service goes on; a        *)
(* restore puts file after file in place beside the repositories, which    *)
(* keep what they have read: sessions are files of their own, workspaces   *)
(* and projects one file each, which a restore replaces and the next       *)
(* change of the service writes from memory.                               *)
(*                                                                         *)
(* A session is in a workspace and perhaps in a project of it.  The other  *)
(* directories have no part in the check; an archive that is not one, and  *)
(* names that are not allowed in it, are refused before anything changes.  *)
(***************************************************************************)
EXTENDS Naturals, Sequences, FiniteSets

CONSTANTS
    Spaces,         \* workspaces
    Folders,        \* projects
    Talks,          \* sessions
    MaxWrites,      \* bound: changes by the service
    MaxRestores     \* bound: restores begun

ASSUME BackupBounds == Spaces # {} /\ {MaxWrites, MaxRestores} \subseteq Nat

VARIABLES
    disk,       \* the data directory: "sessions", "projects" and "workspaces"
    kept,       \* the repositories' copies of the projects and workspaces
    archive,    \* the backup: its directories so far
    walk,       \* what Backup has yet to visit
    unpack,     \* what Restore has yet to put in place
    halted,     \* history: a restore ended with an error between two files
    inPieces,   \* history: the backup need not be of one piece
    changed,    \* history: this directory has changed since the backup was begun
    service,    \* "up", "down", or "refused" at the last start
    writes, restores

backupVars == <<disk, kept, archive, walk, unpack, halted, inPieces, changed, service,
                writes, restores>>

None     == "none"
Contents == [workspaces : SUBSET Spaces,
             projects   : UNION {[F -> Spaces] : F \in SUBSET Folders},
             sessions   : UNION {[T -> Spaces \X (Folders \cup {None})] : T \in SUBSET Talks}]

NoData == [workspaces |-> {}, projects |-> <<>>, sessions |-> <<>>]
First   == CHOOSE w \in Spaces : TRUE

(* Bug: the owners are copied before what they own.                        *)
OwnersFirst == <<"workspaces", "projects", "sessions">>

(* backupDirectories; a zip file has its entries in the same order.        *)
Directories == <<"sessions", "projects", "workspaces">>

(* Build makes the first workspace.                                        *)
BackupInit ==
    /\ disk = [NoData EXCEPT !.workspaces = {First}]
    /\ kept = [workspaces |-> {First}, projects |-> <<>>]
    /\ archive = NoData /\ walk = <<>> /\ unpack = <<>> /\ halted = FALSE /\ inPieces = FALSE
    /\ changed = FALSE /\ service = "up" /\ writes = 0 /\ restores = 0

-----------------------------------------------------------------------------
Excluding(f, x) == [y \in DOMAIN f \ {x} |-> f[y]]
Including(f, x, v) == [y \in DOMAIN f \cup {x} |-> IF y = x THEN v ELSE f[y]]

(* What the repositories read at the start is what the files say; after a  *)
(* restore it is not, until the restart that Restore asks for.             *)
InStep == kept = [workspaces |-> disk.workspaces, projects |-> disk.projects]

(* A change by the service, one at a time with nothing else of its kind.   *)
Changes(removes) ==
    /\ service = "up" /\ writes < MaxWrites /\ writes' = writes + 1
    /\ changed' = TRUE /\ inPieces' = (inPieces \/ (walk # <<>> /\ (removes \/ ~InStep)))
    /\ UNCHANGED <<archive, walk, unpack, halted, service, restores>>

(* persistLocked: the whole file, from memory.                             *)
SaveSpaces(ws) ==
    /\ kept' = [kept EXCEPT !.workspaces = ws] /\ disk' = [disk EXCEPT !.workspaces = ws]

SaveFolders(ps) ==
    /\ kept' = [kept EXCEPT !.projects = ps] /\ disk' = [disk EXCEPT !.projects = ps]

AddSpace(w) ==
    /\ w \notin kept.workspaces /\ SaveSpaces(kept.workspaces \cup {w}) /\ Changes(FALSE)

AddFolder(p, w) ==
    /\ p \notin DOMAIN kept.projects /\ w \in kept.workspaces
    /\ SaveFolders(Including(kept.projects, p, w)) /\ Changes(FALSE)

(* CreateSession looks for its owners, and writes a file of its own.       *)
AddTalk(t, w, p) ==
    /\ t \notin DOMAIN disk.sessions /\ w \in kept.workspaces
    /\ p # None => p \in DOMAIN kept.projects /\ kept.projects[p] = w
    /\ disk' = [disk EXCEPT !.sessions = Including(@, t, <<w, p>>)]
    /\ UNCHANGED kept /\ Changes(FALSE)

RemoveTalk(t) ==
    /\ t \in DOMAIN disk.sessions /\ disk' = [disk EXCEPT !.sessions = Excluding(@, t)]
    /\ UNCHANGED kept /\ Changes(TRUE)

(* Owners go when nothing is left in them.                                 *)
RemoveFolder(p) ==
    /\ p \in DOMAIN kept.projects /\ \A t \in DOMAIN disk.sessions : disk.sessions[t][2] # p
    /\ SaveFolders(Excluding(kept.projects, p)) /\ Changes(TRUE)

RemoveSpace(w) ==
    /\ w \in kept.workspaces /\ \A t \in DOMAIN disk.sessions : disk.sessions[t][1] # w
    /\ \A p \in DOMAIN kept.projects : kept.projects[p] # w
    /\ SaveSpaces(kept.workspaces \ {w}) /\ Changes(TRUE)

-----------------------------------------------------------------------------
(* Backup.  (What a restore has put there may be broken already.)          *)
BeginBackup ==
    /\ service = "up" /\ walk = <<>> /\ unpack = <<>>
    /\ walk' = Directories /\ archive' = NoData
    /\ inPieces' = (restores > 0 /\ (inPieces \/ changed \/ halted))
    /\ changed' = (changed /\ restores > 0)
    /\ UNCHANGED <<disk, kept, unpack, halted, service, writes, restores>>

Copy ==
    /\ service = "up" /\ walk # <<>> /\ walk' = Tail(walk)
    /\ archive' = [archive EXCEPT ![Head(walk)] = disk[Head(walk)]]
    /\ UNCHANGED <<disk, kept, unpack, halted, inPieces, changed, service, writes, restores>>

(* Restore saves a backup of its own first; that changes nothing here.     *)
BeginRestore ==
    /\ service = "up" /\ walk = <<>> /\ unpack = <<>> /\ archive # NoData
    /\ restores < MaxRestores /\ restores' = restores + 1 /\ unpack' = Directories
    /\ UNCHANGED <<disk, kept, archive, walk, halted, inPieces, changed, service, writes>>

(* Sessions are added to those that are there; a file takes the place of   *)
(* the one of its name.                                                    *)
Unpacked(d) ==
    IF d = "sessions"
    THEN [t \in DOMAIN disk.sessions \cup DOMAIN archive.sessions |->
            IF t \in DOMAIN archive.sessions THEN archive.sessions[t] ELSE disk.sessions[t]]
    ELSE archive[d]

Unpack ==
    /\ service = "up" /\ unpack # <<>> /\ unpack' = Tail(unpack)
    /\ disk' = [disk EXCEPT ![Head(unpack)] = Unpacked(Head(unpack))]
    /\ UNCHANGED <<kept, archive, walk, halted, inPieces, changed, service, writes, restores>>

(* A file that cannot be written ends it; what is in place stays.          *)
HaltRestore ==
    /\ service = "up" /\ unpack # <<>> /\ unpack' = <<>> /\ halted' = TRUE
    /\ UNCHANGED <<disk, kept, archive, walk, inPieces, changed, service, writes, restores>>

-----------------------------------------------------------------------------
(* validateStoredStructure.                                                *)
IsSound(d) ==
    /\ \A p \in DOMAIN d.projects : d.projects[p] \in d.workspaces
    /\ \A t \in DOMAIN d.sessions :
         LET w == d.sessions[t][1]  p == d.sessions[t][2]
         IN  w \in d.workspaces /\ (p # None => p \in DOMAIN d.projects /\ d.projects[p] = w)

StopService ==
    /\ service = "up" /\ service' = "down" /\ walk' = <<>> /\ unpack' = <<>>
    /\ halted' = (halted \/ unpack # <<>>)
    /\ archive' = IF walk # <<>> THEN NoData ELSE archive
    /\ UNCHANGED <<disk, kept, inPieces, changed, writes, restores>>

(* Another computer, or a data directory that was lost.                    *)
EmptyDirectory ==
    /\ service = "down" /\ disk' = [NoData EXCEPT !.workspaces = {First}]
    /\ halted' = FALSE /\ changed' = FALSE
    /\ UNCHANGED <<kept, archive, walk, unpack, inPieces, service, writes, restores>>

StartBackend ==
    /\ service = "down"
    /\ service' = IF IsSound(disk) THEN "up" ELSE "refused"
    /\ kept' = [workspaces |-> disk.workspaces, projects |-> disk.projects]
    /\ UNCHANGED <<disk, archive, walk, unpack, halted, inPieces, changed, writes, restores>>

BackupNext ==
    \/ \E w \in Spaces : AddSpace(w) \/ RemoveSpace(w)
    \/ \E p \in Folders : RemoveFolder(p) \/ \E w \in Spaces : AddFolder(p, w)
    \/ \E t \in Talks :
         RemoveTalk(t) \/ \E w \in Spaces, p \in Folders \cup {None} : AddTalk(t, w, p)
    \/ BeginBackup \/ Copy \/ BeginRestore \/ Unpack \/ HaltRestore
    \/ StopService \/ EmptyDirectory \/ StartBackend

BackupSpec == BackupInit /\ [][BackupNext]_backupVars

-----------------------------------------------------------------------------
BackupTypeOK ==
    /\ disk \in Contents /\ archive \in Contents
    /\ kept.workspaces \subseteq Spaces /\ DOMAIN kept.projects \subseteq Folders
    /\ walk \in Seq(DOMAIN disk) /\ unpack \in Seq(DOMAIN disk)
    /\ {halted, inPieces, changed} \subseteq BOOLEAN /\ service \in {"up", "down", "refused"}
    /\ writes \in 0..MaxWrites /\ restores \in 0..MaxRestores

(* A backup is of one piece although the service went on while it was      *)
(* made, as long as nothing was removed: restored in full into an empty    *)
(* directory, or into its own with no change since, it lets the service    *)
(* start (admin_data.go:18-20, 74-135, 191-263; runtime.go:805-853).  Over *)
(* later sessions it does not: they keep owners that the restore removes.  *)
RestoredStarts == service = "refused" => inPieces \/ changed \/ halted
=============================================================================
