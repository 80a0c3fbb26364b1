------------------------------ MODULE RamDisks ------------------------------
(***************************************************************************)
(* The RAM disks of memory-isolated projects (bootstrap/ramdisk_pool.go,   *)
(* ramdisk.go, ramdisk_linux.go), what is written on them, and what a      *)
(* start and an end of the service do with them (ephemeral_sessions.go,    *)
(* Build and Close of runtime.go).  Several services may run on one host,  *)
(* each with a pool and a data directory of its own.  A disk is a directory*)
(* with a file that says whose it is, and a file system of limited size    *)
(* mounted on it.                                                          *)
(***************************************************************************)
EXTENDS Integers, FiniteSets

CONSTANTS
    Services,           \* services on the host
    Isolated,           \* memory-isolated projects
    PoolCapacity,       \* disks that fit into 75 % of the memory
    MaxDisks,           \* bound: directories made
    MaxProcesses,       \* bound: starts of services
    MaxDiskFaults       \* bound: calls that fail, and crashes

ASSUME RamDisksAssumption ==
    /\ Services # {} /\ PoolCapacity \in Nat /\ MaxDisks \in Nat
    /\ MaxProcesses \in Nat /\ MaxDiskFaults \in Nat

VARIABLES
    process,        \* per service, its process: 0 while it is down
    phase,          \* per service: down, starting, serving, closing
    host,           \* per directory made: who made it, for whom, and what is there
    pool,           \* per service and project, RAMDiskPool.disks
    task,           \* per service, what it does under the lock of the pool
    writer,         \* per service, a write of the stores that has found its root
    dataDir,        \* per service, the processes that left isolated data in sessions/
    processes,      \* processes so far
    diskFaults      \* faults so far

diskVars == <<process, phase, host, pool, task, writer, dataDir, processes, diskFaults>>
serviceVars == <<process, phase, processes>>

-----------------------------------------------------------------------------
NoDisk == 0
Disks == 1..MaxDisks
Missing == [is |-> "missing"]
Removed == [is |-> "removed"]      \* a name that was used: names are random
NoStep == [at |-> "idle"]
Exists(d) == host[d] \notin {Missing, Removed}

(* The file that says whose a disk is: on the directory, and once more on  *)
(* what is mounted over it.                                                *)
IsMarked(d) == host[d].is \in {"marked", "ready"}
IsMounted(d) == host[d].is \in {"mounted", "ready"}

DiskFault == diskFaults < MaxDiskFaults /\ diskFaults' = diskFaults + 1

Pooled(s) == {pool[s][p] : p \in Isolated} \ {NoDisk}

RamDisksInit ==
    /\ process = [s \in Services |-> 0] /\ phase = [s \in Services |-> "down"]
    /\ host = [d \in Disks |-> Missing]
    /\ pool = [s \in Services |-> [p \in Isolated |-> NoDisk]]
    /\ task = [s \in Services |-> NoStep] /\ writer = [s \in Services |-> NoStep]
    \* An older version fell back to the data directory.
    /\ dataDir = [s \in Services |-> {0}]
    /\ processes = 0 /\ diskFaults = 0

-----------------------------------------------------------------------------
(* Prepare: a project that has a disk keeps it; the sizes of all disks must*)
(* fit.  What dead processes left behind is removed before a disk is made. *)
PrepareDisk(s, p) ==
    /\ phase[s] \in {"starting", "serving"} /\ task[s] = NoStep
    /\ pool[s][p] = NoDisk /\ Cardinality(Pooled(s)) < PoolCapacity
    /\ task' = [task EXCEPT ![s] = [at |-> "clean", project |-> p, disk |-> NoDisk]]
    /\ UNCHANGED <<serviceVars, host, pool, writer, dataDir, diskFaults>>

(* A number of a process may have been given to another one since.         *)
IsAlive(n) == \E s \in Services : process[s] = n

IsStale(d) == Exists(d) /\ IsMarked(d) /\ ~IsAlive(host[d].process)

(* Bug: whatever carries the mark is removed.                              *)
CleanAnyMarked(s) ==
    /\ task[s].at = "clean"
    /\ host' = [d \in Disks |-> IF Exists(d) /\ IsMarked(d) THEN Removed ELSE host[d]]
    /\ task' = [task EXCEPT ![s].at = "make"]
    /\ UNCHANGED <<serviceVars, pool, writer, dataDir, diskFaults>>

Clean(s) ==
    /\ task[s].at = "clean"
    /\ \E kept \in SUBSET {d \in Disks : IsStale(d)} :
        /\ IF kept = {} THEN UNCHANGED diskFaults ELSE DiskFault
        /\ host' = [d \in Disks |-> IF IsStale(d) /\ d \notin kept THEN Removed ELSE host[d]]
    /\ task' = [task EXCEPT ![s].at = "make"]
    /\ UNCHANGED <<serviceVars, pool, writer, dataDir>>

(* newPlatformRAMDisk: the directory, its mark, the mount, the mark on the *)
(* mount, and the directories of the layout.                               *)
NextIs == [bare |-> "marked", marked |-> "mounted", mounted |-> "ready"]

MakeDirectory(s) ==
    /\ task[s].at = "make"
    /\ \E d \in Disks :
        /\ host[d] = Missing /\ \A e \in Disks : e < d => host[e] # Missing
        /\ host' = [host EXCEPT ![d] = [is |-> "bare", process |-> process[s],
                                        project |-> task[s].project, data |-> {}]]
        /\ task' = [task EXCEPT ![s].at = "build", ![s].disk = d]
    /\ UNCHANGED <<serviceVars, pool, writer, dataDir, diskFaults>>

BuildDisk(s) ==
    /\ task[s].at = "build" /\ host[task[s].disk].is \in DOMAIN NextIs
    /\ host' = [host EXCEPT ![task[s].disk].is = NextIs[@]]
    /\ UNCHANGED <<serviceVars, pool, task, writer, dataDir, diskFaults>>

EnterPool(s) ==
    /\ task[s].at = "build" /\ host[task[s].disk].is = "ready"
    /\ pool' = [pool EXCEPT ![s][task[s].project] = task[s].disk]
    /\ task' = [task EXCEPT ![s] = NoStep]
    /\ UNCHANGED <<serviceVars, host, writer, dataDir, diskFaults>>

(* Any of the steps fails: what was made is taken back, unless the unmount *)
(* fails as well.                                                          *)
UndoDisk(s) ==
    /\ task[s].at = "build" /\ DiskFault
    /\ \/ host' = [host EXCEPT ![task[s].disk] = Removed]
       \/ IsMounted(task[s].disk) /\ diskFaults + 1 < MaxDiskFaults /\ UNCHANGED host
    /\ task' = [task EXCEPT ![s] = NoStep]
    /\ UNCHANGED <<serviceVars, pool, writer, dataDir>>

-----------------------------------------------------------------------------
(* Release, when a project is deleted, and Close for every disk: unmount,  *)
(* remove the directory, forget the disk.  A disk whose unmount fails (a   *)
(* tool still has a file open), or whose directory cannot be removed, stays*)
(* in the pool, and in the second case without its file system.            *)
Release(s, p) ==
    /\ phase[s] \in {"serving", "closing"} /\ task[s] = NoStep /\ pool[s][p] # NoDisk
    /\ LET d == pool[s][p] IN
       \/ /\ host' = [host EXCEPT ![d] = Removed]
          /\ pool' = [pool EXCEPT ![s][p] = NoDisk] /\ UNCHANGED diskFaults
       \/ DiskFault /\ UNCHANGED <<host, pool>>
       \/ /\ DiskFault /\ UNCHANGED pool
          /\ host' = [host EXCEPT ![d] = [@ EXCEPT !.is = "marked", !.data = {}]]
    /\ UNCHANGED <<serviceVars, task, writer, dataDir>>

-----------------------------------------------------------------------------
(* A store asks for the root of a session by the id of its project, which  *)
(* is part of the id of the session, and writes there later, making the    *)
(* directories it misses.  A project without a disk is no reason to write  *)
(* into the data directory.                                                *)
(* Bug: the default root when there is no disk.                            *)
ResolveOrDefault(s, p) ==
    /\ phase[s] = "serving" /\ task[s] = NoStep /\ writer[s] = NoStep
    /\ writer' = [writer EXCEPT ![s] = [at |-> "resolved", project |-> p, root |-> pool[s][p]]]
    /\ UNCHANGED <<serviceVars, host, pool, task, dataDir, diskFaults>>

ResolveRoot(s, p) ==
    /\ phase[s] = "serving" /\ task[s] = NoStep /\ writer[s] = NoStep
    /\ pool[s][p] # NoDisk
    /\ writer' = [writer EXCEPT ![s] = [at |-> "resolved", project |-> p, root |-> pool[s][p]]]
    /\ UNCHANGED <<serviceVars, host, pool, task, dataDir, diskFaults>>

(* The disk may be gone by then: the directory is made again, without a    *)
(* mark, and no start will find it.                                        *)
WriteRoot(s) ==
    /\ writer[s].at = "resolved"
    /\ LET d == writer[s].root IN
       IF d = NoDisk
       THEN dataDir' = [dataDir EXCEPT ![s] = @ \cup {process[s]}] /\ UNCHANGED host
       ELSE /\ UNCHANGED dataDir
            /\ host' = IF Exists(d) THEN [host EXCEPT ![d].data = @ \cup {process[s]}]
                       ELSE [host EXCEPT ![d] =
                               [is |-> "bare", process |-> 0, project |-> writer[s].project,
                                data |-> {process[s]}]]
    /\ writer' = [writer EXCEPT ![s] = NoStep]
    /\ UNCHANGED <<serviceVars, pool, task, diskFaults>>

-----------------------------------------------------------------------------
(* Build: a disk for every isolated project there is, then the data of     *)
(* earlier processes is purged, then requests are served.                  *)
StartService(s) ==
    /\ phase[s] = "down" /\ processes < MaxProcesses
    /\ processes' = processes + 1
    /\ process' = [process EXCEPT ![s] = processes + 1]
    /\ phase' = [phase EXCEPT ![s] = "starting"]
    /\ UNCHANGED <<host, pool, task, writer, dataDir, diskFaults>>

Emptied(s) ==
    [d \in Disks |-> IF d \in Pooled(s) THEN [host[d] EXCEPT !.data = {}] ELSE host[d]]

PurgeResidue(s) ==
    /\ phase[s] = "starting" /\ task[s] = NoStep
    /\ dataDir' = [dataDir EXCEPT ![s] = {}]
    /\ host' = Emptied(s)
    /\ phase' = [phase EXCEPT ![s] = "serving"]
    /\ UNCHANGED <<process, processes, pool, task, writer, diskFaults>>

(* Runtime.Close: runs are given time to end, and may not; the sessions are*)
(* purged, the disks released, and the process ends in any case.           *)
CloseRuntime(s) ==
    /\ phase[s] = "serving" /\ task[s] = NoStep
    /\ phase' = [phase EXCEPT ![s] = "closing"]
    /\ dataDir' = [dataDir EXCEPT ![s] = {}]
    /\ host' = Emptied(s)
    /\ UNCHANGED <<process, processes, pool, task, writer, diskFaults>>

Ends(s) ==
    /\ process' = [process EXCEPT ![s] = 0] /\ phase' = [phase EXCEPT ![s] = "down"]
    /\ pool' = [pool EXCEPT ![s] = [p \in Isolated |-> NoDisk]]
    /\ task' = [task EXCEPT ![s] = NoStep] /\ writer' = [writer EXCEPT ![s] = NoStep]
    /\ UNCHANGED <<host, dataDir, processes>>

EndProcess(s) == phase[s] = "closing" /\ Ends(s) /\ UNCHANGED diskFaults
Killed(s) == phase[s] # "down" /\ Ends(s) /\ DiskFault

RamDisksNext ==
    \E s \in Services :
        \/ \E p \in Isolated : PrepareDisk(s, p) \/ Release(s, p) \/ ResolveRoot(s, p)
        \/ Clean(s) \/ MakeDirectory(s) \/ BuildDisk(s) \/ EnterPool(s) \/ UndoDisk(s)
        \/ WriteRoot(s)
        \/ StartService(s) \/ PurgeResidue(s) \/ CloseRuntime(s) \/ EndProcess(s) \/ Killed(s)

RamDisksSpec == RamDisksInit /\ [][RamDisksNext]_diskVars

-----------------------------------------------------------------------------
RamDisksTypeOK ==
    /\ process \in [Services -> 0..MaxProcesses]
    /\ phase \in [Services -> {"down", "starting", "serving", "closing"}]
    /\ \A d \in Disks : Exists(d) => /\ host[d].is \in {"bare", "marked", "mounted", "ready"}
                                     /\ host[d].project \in Isolated
                                     /\ host[d].data \subseteq 0..MaxProcesses
    /\ pool \in [Services -> [Isolated -> Disks \cup {NoDisk}]]
    /\ \A s \in Services : task[s].at \in {"idle", "clean", "make", "build"}
    /\ \A s \in Services : writer[s].at \in {"idle", "resolved"}
    /\ dataDir \in [Services -> SUBSET (0..MaxProcesses)]
    /\ processes \in 0..MaxProcesses /\ diskFaults \in 0..MaxDiskFaults

(* A disk in use is there and is nobody else's: no clean-up of this or of  *)
(* another service takes it, however many start and end meanwhile.         *)
DisksInUseStay ==
    \A s \in Services : \A p \in Isolated : pool[s][p] # NoDisk =>
        /\ Exists(pool[s][p]) /\ IsMarked(pool[s][p])
        /\ host[pool[s][p]].process = process[s] /\ host[pool[s][p]].project = p

(* What an isolated project leaves is never in the data directory, and what*)
(* is shown of it was written by the process that shows it.                *)
NothingReturns ==
    \A s \in Services :
        /\ dataDir[s] \subseteq {0}
        /\ phase[s] = "serving" =>
            dataDir[s] \cup UNION {host[d].data : d \in Pooled(s)} \subseteq {process[s]}

IsolationOfDisks == DisksInUseStay /\ NothingReturns
=============================================================================
