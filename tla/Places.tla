-------------------------------- MODULE Places --------------------------------
(***************************************************************************)
(* Workspaces, the projects in them, the sessions in those, and what a     *)
(* session leaves in other stores (application/service.go, with the        *)
(* repositories of adapters/filestore).  Everything about projects and     *)
(* sessions holds startMu; workspaces and the settings of the providers    *)
(* are changed without it.  An operation looks first and writes later, and *)
(* a deletion goes through the stores one after another.                   *)
(*                                                                         *)
(* A memory-isolated (ephemeral) project keeps its sessions on a RAM disk. *)
(* A session, project or workspace is made once: names are never reused.   *)
(* A workspace has one provider, its default.  Titles, positions, roots,   *)
(* permissions and models are left out.                                    *)
(***************************************************************************)
EXTENDS Naturals, Sequences

CONSTANTS
    Workspaces, Projects, Sessions, Providers,
    Ephemeral,       \* the memory-isolated projects
    Stored,          \* the workspaces that are there at first
    Scenarios,       \* the sets of projects and sessions to be made
    MaxPlaceFaults,  \* bound: writes, mounts and deletions that fail
    MaxRestarts,     \* bound: restarts
    MaxUnlocked      \* bound: operations without startMu

New  == "new"
Gone == "gone"
NoProject == "no project"

ASSUME PlacesAssumption ==
    /\ Ephemeral \subseteq Projects /\ Stored \subseteq Workspaces
    /\ {New, Gone} \cap Workspaces = {} /\ NoProject \notin Projects \cup Sessions
    /\ {MaxPlaceFaults, MaxRestarts, MaxUnlocked} \subseteq Nat

VARIABLES
    up,         \* the service has started
    workspace,  \* the provider of each workspace, or New or Gone
    project,    \* the workspace of each project, or New or Gone
    session,    \* where each session is, and its provider
    leaves,     \* the stores that hold something of each session
    running,    \* the sessions with an active run
    disks,      \* RAMDiskPool.disks
    enabled,    \* the providers of the model router
    startMu,    \* the operation that holds it
    remover,    \* DeleteWorkspace
    editor,     \* CreateWorkspace or UpdateWorkspace
    settings,   \* UpdateProviderSettings
    placeFaults, restarts, unlockedOps

placeVars  == <<up, workspace, project, session, leaves, running, disks, enabled, startMu,
                remover, editor, settings, placeFaults, restarts, unlockedOps>>
unlocked   == <<remover, editor, settings, restarts, up, unlockedOps>>

Nowhere(how) == [in |-> how, project |-> NoProject, provider |-> how]

NoOperation == [op |-> "idle"]
Steps == <<"plans", "notifications", "events", "runs", "session">>

IsWorkspace(w) == workspace[w] \notin {New, Gone}
IsProject(p)   == project[p] \notin {New, Gone}
IsSession(s)   == session[s].in \notin {New, Gone}
SessionsIn(p)  == {s \in Sessions : IsSession(s) /\ session[s].project = p}

PlacesInit ==
    /\ up = TRUE /\ enabled = Providers /\ disks = {} /\ running = {}
    /\ \E v \in Providers :
         workspace = [w \in Workspaces |-> IF w \in Stored THEN v ELSE New]
    /\ \E made \in Scenarios :
         /\ project = [p \in Projects |-> IF p \in made THEN New ELSE Gone]
         /\ session = [s \in Sessions |-> Nowhere(IF s \in made THEN New ELSE Gone)]
    /\ leaves = [s \in Sessions |-> {}]
    /\ startMu = NoOperation /\ remover = NoOperation /\ editor = NoOperation /\ settings = NoOperation
    /\ placeFaults = 0 /\ restarts = 0 /\ unlockedOps = 0

PlaceFault == placeFaults < MaxPlaceFaults /\ placeFaults' = placeFaults + 1

(* RAMDiskPool.Prepare: a disk that is there is used.                      *)
Prepare(p) ==
    disks' = IF p \in Ephemeral THEN disks \cup {p} ELSE disks

-----------------------------------------------------------------------------
(* Sessions.                                                               *)

(* validateSessionPlacement and validateSessionProvider.                   *)
MayBePlaced(w, p, v) ==
    IsWorkspace(w) /\ (p # NoProject => project[p] = w) /\ v \in enabled

BeginCreateSession(s, w, p, v) ==
    /\ startMu = NoOperation /\ session[s].in = New /\ MayBePlaced(w, p, v) /\ Prepare(p)
    /\ startMu' = [op |-> "place", session |-> s, at |-> [in |-> w, project |-> p, provider |-> v]]
    /\ UNCHANGED <<workspace, project, session, leaves, running, enabled, unlocked, placeFaults>>

(* A session does not move out of or into a memory-isolated project.       *)
BeginMoveSession(s, w, p, v) ==
    /\ startMu = NoOperation /\ IsSession(s) /\ s \notin running /\ MayBePlaced(w, p, v)
    /\ p # session[s].project => {p, session[s].project} \cap Ephemeral = {}
    /\ startMu' = [op |-> "place", session |-> s, at |-> [in |-> w, project |-> p, provider |-> v]]
    /\ UNCHANGED <<workspace, project, session, leaves, running, disks, enabled, unlocked,
                   placeFaults>>

PlaceSession ==
    /\ startMu.op = "place" /\ startMu' = NoOperation
    /\ \/ /\ session' = [session EXCEPT ![startMu.session] = startMu.at]
          /\ UNCHANGED placeFaults
       \/ PlaceFault /\ UNCHANGED session
    /\ UNCHANGED <<workspace, project, leaves, running, disks, enabled, unlocked>>

StartSessionRun(s) ==
    /\ startMu = NoOperation /\ IsSession(s) /\ s \notin running
    /\ MayBePlaced(session[s].in, session[s].project, session[s].provider)
    /\ Prepare(session[s].project)
    /\ running' = running \cup {s}
    /\ leaves' = [leaves EXCEPT ![s] = @ \cup {"events", "runs"}]
    /\ UNCHANGED <<workspace, project, session, enabled, startMu, unlocked, placeFaults>>

(* A run's plan tools, its approvals and its end write at any time, while  *)
(* it is active and so before clearActive.                                 *)
RunLeaves(s, store) ==
    /\ s \in running /\ store \in {"plans", "notifications"} \ leaves[s]
    /\ leaves' = [leaves EXCEPT ![s] = @ \cup {store}]
    /\ UNCHANGED <<workspace, project, session, running, disks, enabled, startMu, unlocked,
                   placeFaults>>

EndSessionRun(s) ==
    /\ s \in running /\ running' = running \ {s}
    /\ UNCHANGED <<workspace, project, session, leaves, disks, enabled, startMu, unlocked,
                   placeFaults>>

-----------------------------------------------------------------------------
(* Projects, and the deletions.                                            *)

BeginCreateProject(p, w) ==
    /\ startMu = NoOperation /\ project[p] = New /\ IsWorkspace(w)
    /\ startMu' = [op |-> "project", project |-> p, at |-> w]
    /\ UNCHANGED <<workspace, project, session, leaves, running, disks, enabled, unlocked,
                   placeFaults>>

WriteProject ==
    /\ startMu.op = "project"
    /\ LET p == startMu.project
       IN  \/ /\ project' = [project EXCEPT ![p] = startMu.at]
              /\ startMu' = IF p \in Ephemeral THEN [op |-> "prepare", project |-> p] ELSE NoOperation
              /\ UNCHANGED placeFaults
           \/ PlaceFault /\ startMu' = NoOperation /\ UNCHANGED project
    /\ UNCHANGED <<workspace, session, leaves, running, disks, enabled, unlocked>>

(* A project whose disk cannot be mounted is taken back.                   *)
PrepareProject ==
    /\ startMu.op = "prepare" /\ startMu' = NoOperation
    /\ \/ Prepare(startMu.project) /\ UNCHANGED <<project, placeFaults>>
       \/ /\ PlaceFault /\ project' = [project EXCEPT ![startMu.project] = Gone]
          /\ UNCHANGED disks
    /\ UNCHANGED <<workspace, session, leaves, running, enabled, unlocked>>

Deleting(todo, p) ==
    startMu' = [op |-> "delete", todo |-> todo, now |-> NoProject, step |-> 1, project |-> p]

BeginDeleteSession(s) ==
    /\ startMu = NoOperation /\ IsSession(s) /\ s \notin running
    /\ Deleting({s}, NoProject)
    /\ UNCHANGED <<workspace, project, session, leaves, running, disks, enabled, unlocked,
                   placeFaults>>

(* Bug: the sessions that work are left out.                               *)
BeginDeleteIdle(p, force) ==
    /\ startMu = NoOperation /\ IsProject(p)
    /\ force \/ SessionsIn(p) = {}
    /\ Deleting(SessionsIn(p) \ running, p)
    /\ UNCHANGED <<workspace, project, session, leaves, running, disks, enabled, unlocked,
                   placeFaults>>

BeginDeleteProject(p, force) ==
    /\ startMu = NoOperation /\ IsProject(p)
    /\ IF force THEN SessionsIn(p) \cap running = {} ELSE SessionsIn(p) = {}
    /\ Deleting(SessionsIn(p), p)
    /\ UNCHANGED <<workspace, project, session, leaves, running, disks, enabled, unlocked,
                   placeFaults>>

(* Bug: the session goes first, and nobody asks for the rest again.        *)
SessionFirst(s, step) ==
    /\ session' = IF step = 1 THEN [session EXCEPT ![s] = Nowhere(Gone)] ELSE session
    /\ leaves' = IF step = 1 THEN leaves ELSE [leaves EXCEPT ![s] = @ \ {Steps[step - 1]}]

(* deleteSessionLocked: plans, notifications, events, runs, the session.   *)
DeleteStep(s, step) ==
    /\ session' = IF step = Len(Steps) THEN [session EXCEPT ![s] = Nowhere(Gone)] ELSE session
    /\ leaves' = [leaves EXCEPT ![s] = @ \ {Steps[step]}]

DeleteSessionLocked(s) ==
    /\ startMu.op = "delete" /\ s \in startMu.todo /\ startMu.now \in {NoProject, s}
    /\ \/ /\ DeleteStep(s, startMu.step)
          /\ startMu' = IF startMu.step < Len(Steps)
                        THEN [startMu EXCEPT !.now = s, !.step = @ + 1]
                        ELSE [startMu EXCEPT !.now = NoProject, !.step = 1, !.todo = @ \ {s}]
          /\ UNCHANGED placeFaults
       \/ PlaceFault /\ startMu' = NoOperation /\ UNCHANGED <<session, leaves>>
    /\ UNCHANGED <<workspace, project, running, disks, enabled, unlocked>>

(* The disk is released, and the project deleted.                          *)
ReleaseDisk ==
    /\ startMu.op = "delete" /\ startMu.todo = {} /\ startMu.project \in disks
    /\ \/ disks' = disks \ {startMu.project} /\ UNCHANGED <<startMu, placeFaults>>
       \/ PlaceFault /\ startMu' = NoOperation /\ UNCHANGED disks
    /\ UNCHANGED <<workspace, project, session, leaves, running, enabled, unlocked>>

EndDelete ==
    /\ startMu.op = "delete" /\ startMu.todo = {} /\ startMu.project \notin disks
    /\ startMu' = NoOperation
    /\ \/ /\ project' = [p \in Projects |-> IF p = startMu.project THEN Gone ELSE project[p]]
          /\ UNCHANGED placeFaults
       \/ startMu.project # NoProject /\ PlaceFault /\ UNCHANGED project
    /\ UNCHANGED <<workspace, session, leaves, running, disks, enabled, unlocked>>

-----------------------------------------------------------------------------
(* Workspaces and providers: each looks, and looks again, and writes.      *)

locked == <<project, session, leaves, running, disks, startMu, placeFaults, restarts, up>>

Unlocked == unlockedOps < MaxUnlocked /\ unlockedOps' = unlockedOps + 1

BeginEditWorkspace(w, v) ==
    /\ Unlocked
    /\ editor = NoOperation /\ workspace[w] \notin {Gone, v} /\ v \in enabled
    /\ editor' = [op |-> "write", workspace |-> w, provider |-> v]
    /\ UNCHANGED <<workspace, enabled, remover, settings, locked>>

WriteWorkspace ==
    /\ editor.op = "write" /\ editor' = NoOperation
    /\ workspace' = [workspace EXCEPT ![editor.workspace] =
                       IF @ = Gone THEN Gone ELSE editor.provider]
    /\ UNCHANGED <<enabled, remover, settings, locked, unlockedOps>>

LookAtProjects(w) ==
    /\ Unlocked
    /\ remover = NoOperation /\ IsWorkspace(w) /\ \A p \in Projects : project[p] # w
    /\ remover' = [op |-> "sessions", workspace |-> w]
    /\ UNCHANGED <<workspace, enabled, editor, settings, locked>>

LookAtSessions ==
    /\ remover.op = "sessions"
    /\ remover' = IF \E s \in Sessions : session[s].in = remover.workspace THEN NoOperation
                  ELSE [remover EXCEPT !.op = "delete"]
    /\ UNCHANGED <<workspace, enabled, editor, settings, locked, unlockedOps>>

(* The last workspace stays.                                               *)
DeleteWorkspace ==
    /\ remover.op = "delete" /\ remover' = NoOperation
    /\ workspace' = IF \E w \in Workspaces \ {remover.workspace} : IsWorkspace(w)
                    THEN [workspace EXCEPT ![remover.workspace] = Gone] ELSE workspace
    /\ UNCHANGED <<enabled, editor, settings, locked, unlockedOps>>

CheckWorkspaces(keep) ==
    /\ Unlocked
    /\ settings = NoOperation /\ \A w \in Workspaces : IsWorkspace(w) => workspace[w] \in keep
    /\ settings' = [op |-> "sessions", keep |-> keep]
    /\ UNCHANGED <<workspace, enabled, editor, remover, locked>>

CheckSessions ==
    /\ settings.op = "sessions"
    /\ settings' = IF \E s \in Sessions : IsSession(s) /\ session[s].provider \notin settings.keep
                   THEN NoOperation ELSE [settings EXCEPT !.op = "replace"]
    /\ UNCHANGED <<workspace, enabled, editor, remover, locked, unlockedOps>>

ReplaceProviders ==
    /\ settings.op = "replace" /\ settings' = NoOperation /\ enabled' = settings.keep
    /\ UNCHANGED <<workspace, editor, remover, locked, unlockedOps>>

-----------------------------------------------------------------------------
(* What validateStoredStructure asks of the files before the service runs. *)
Structured ==
    /\ \A w \in Workspaces : IsWorkspace(w) => workspace[w] \in enabled
    /\ \A p \in Projects : IsProject(p) => IsWorkspace(project[p])
    /\ \A s \in Sessions : IsSession(s) =>
         /\ IsWorkspace(session[s].in) /\ session[s].provider \in enabled
         /\ session[s].project # NoProject => project[session[s].project] = session[s].in

OnDisk(s) == session[s].project \in Ephemeral

(* Build: the sessions on RAM disks are purged, the disks mounted again,   *)
(* and files that are not in order stop the start.                         *)
RestartPlaces ==
    /\ up /\ restarts < MaxRestarts /\ restarts' = restarts + 1
    /\ session' = [s \in Sessions |-> IF OnDisk(s) THEN Nowhere(Gone) ELSE session[s]]
    /\ leaves' = [s \in Sessions |-> IF OnDisk(s) THEN {} ELSE leaves[s]]
    /\ disks' = {p \in Ephemeral : IsProject(p)} /\ running' = {}
    /\ startMu' = NoOperation /\ remover' = NoOperation /\ editor' = NoOperation /\ settings' = NoOperation
    /\ UNCHANGED <<workspace, project, enabled, placeFaults, unlockedOps>>
    /\ up' = Structured'

Operation ==
    \/ \E s \in Sessions :
         \/ \E w \in Workspaces, p \in Projects \cup {NoProject}, v \in Providers :
              BeginCreateSession(s, w, p, v) \/ BeginMoveSession(s, w, p, v)
         \/ StartSessionRun(s) \/ EndSessionRun(s)
         \/ \E store \in {"plans", "notifications"} : RunLeaves(s, store)
         \/ BeginDeleteSession(s) \/ DeleteSessionLocked(s)
    \/ \E p \in Projects :
         \/ \E w \in Workspaces : BeginCreateProject(p, w)
         \/ \E force \in BOOLEAN : BeginDeleteProject(p, force)
    \/ PlaceSession \/ WriteProject \/ PrepareProject \/ ReleaseDisk \/ EndDelete

OperationUnlocked ==
    \/ \E w \in Workspaces : LookAtProjects(w)
    \/ \E w \in Workspaces, v \in Providers : BeginEditWorkspace(w, v)
    \/ WriteWorkspace \/ LookAtSessions \/ DeleteWorkspace
    \/ \E keep \in SUBSET Providers : keep # {} /\ CheckWorkspaces(keep)
    \/ CheckSessions \/ ReplaceProviders

PlacesNext == (up /\ (Operation \/ OperationUnlocked)) \/ RestartPlaces

PlacesSpec == PlacesInit /\ [][PlacesNext]_placeVars

PlacesTypeOK ==
    /\ workspace \in [Workspaces -> Providers \cup {New, Gone}]
    /\ project \in [Projects -> Workspaces \cup {New, Gone}]
    /\ \A s \in Sessions :
         session[s] \in [in : Workspaces, project : Projects \cup {NoProject}, provider : Providers]
                        \cup {Nowhere(New), Nowhere(Gone)}
    /\ leaves \in [Sessions -> SUBSET {"plans", "notifications", "events", "runs"}]
    /\ running \subseteq Sessions /\ disks \subseteq Ephemeral /\ enabled \subseteq Providers
    /\ startMu.op \in {"idle", "place", "project", "prepare", "delete"}
    /\ remover.op \in {"idle", "sessions", "delete"} /\ editor.op \in {"idle", "write"}
    /\ settings.op \in {"idle", "sessions", "replace"} /\ up \in BOOLEAN
    /\ placeFaults \in 0..MaxPlaceFaults /\ restarts \in 0..MaxRestarts
    /\ unlockedOps \in 0..MaxUnlocked

(* A session is never left without its project, and one that works, or     *)
(* only lies, on a RAM disk has that disk mounted, whatever deletion of    *)
(* the project fails half-way (service.go:562-602).                        *)
OwnersStay ==
    \A s \in Sessions : IsSession(s) /\ session[s].project # NoProject =>
        /\ project[session[s].project] = session[s].in
        /\ OnDisk(s) => session[s].project \in disks

(* Nothing outlives its session in another store, so a deletion that fails *)
(* in between can be asked for again (service.go:313-348).                 *)
NoLeftovers == \A s \in Sessions : ~IsSession(s) => leaves[s] = {} /\ s \notin running

(* Neither a session without its owner nor the leaves of one without it.   *)
NothingIsOrphaned == OwnersStay /\ NoLeftovers

(* The files are always such that the service starts again: nothing that   *)
(* has something in it is deleted, and no provider in use is switched off  *)
(* (docs/ai-agent/SECURITY.md:46, HTTP_API.md:266).                        *)
StructureIsValid == Structured
=============================================================================
