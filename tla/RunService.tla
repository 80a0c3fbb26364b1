------------------------------ MODULE RunService ------------------------------
(***************************************************************************)
(* The run lifecycle of the application service (src/src/application):     *)
(* every run is a durable record plus a goroutine, executeRun; the control *)
(* API (StartRun, CancelRun, PauseRun, ResumeRun, DecideRun, Close) works  *)
(* on both from other goroutines.  Three locks are involved:               *)
(*                                                                         *)
(*   startMu  serialises the control operations      -> the variable ctl   *)
(*   mu       guards the in-memory maps, and is held across the critical   *)
(*            run-store writes                        -> one atomic action *)
(*   eventMu  is held across "read the status, append an event"            *)
(*                                                    -> evLock            *)
(*                                                                         *)
(* One action is one critical section, so everything Go can schedule       *)
(* between two critical sections can happen between two actions.           *)
(***************************************************************************)
EXTENDS Naturals, Sequences, FiniteSets

CONSTANTS
    Runs,        \* run identifiers, none of them used at the start
    Sessions,    \* conversations
    SessionOf,   \* the session each run is created in
    None,        \* "no run"
    Cancelable,  \* bound: the runs somebody may cancel
    Pausable,    \* bound: the runs somebody may pause
    MaxCalls,    \* bound: events the engine of each run reports
    MaxFaults,   \* bound: writes to the run store or event log that fail
    MaxCrashes   \* bound: process crashes

ASSUME SessionAssumption == SessionOf \in [Runs -> Sessions]
ASSUME NoneAssumption    == None \notin Runs
ASSUME ControlAssumption == "control" \notin Runs \cup {None}
ASSUME BoundAssumption   == /\ Cancelable \subseteq Runs /\ Pausable \subseteq Runs
                            /\ MaxCalls \in [Runs -> Nat]
                            /\ MaxFaults \in Nat /\ MaxCrashes \in Nat

VARIABLES
    status,          \* durable run record: RunStatus, "none" before it exists
    log,             \* durable event log, runs of progress events collapsed
    active,          \* Service.active: runs with a registered goroutine
    cancelRequested, \* activeRun.cancelRequested
    ctxDone,         \* runs whose context is canceled
    pausedRuns,      \* Service.pausedRuns
    token,           \* sessions whose gate channel holds its token
    holding,         \* runs whose "release" function is not nil
    pausedSessions,  \* Service.pausedSessions: the run a session is reserved for
    decided,         \* runs whose pending approval has a decision in its channel
    pc, arg,         \* where executeRun is, and the event or outcome in hand
    ctl,             \* the control operation that holds startMu
    evLock,          \* eventMu: a run, the control operation, or None
    sequence,        \* Service.eventSequences against the log on disk
    closed,          \* Service.closed
    calls, faults, crashes

durable == <<status, log>>
flags   == <<active, cancelRequested, ctxDone, pausedRuns>>
gates   == <<token, holding, pausedSessions>>
code    == <<pc, arg>>
appends == <<evLock, sequence>>
bounds  == <<calls, faults, crashes>>
vars    == <<durable, flags, gates, decided, code, ctl, appends, closed, bounds>>

-----------------------------------------------------------------------------
Terminal  == {"completed", "failed", "canceled"}
Open      == {"queued", "running", "paused", "waiting_approval"}
Status    == Terminal \cup Open \cup {"none"}

CallEvents == {"output", "approval_required", "approval_resolved"}
Events     == CallEvents \cup Terminal \cup {"started", "paused", "resumed"}
LogEntry   == Terminal \cup {"progress"}

\* Values of arg besides events: why acquireSession is called, how Run ended.
Args == Events \cup {"none", "begin", "ok", "err", "panic"}

Locations == {"none", "wait1", "look", "take", "recheck", "wait2", "setRunning",
              "append", "write", "engine", "callback", "saveWaiting", "reserve",
              "letGo", "decision", "unreserve", "saveRunning", "wait3",
              "returned", "wait4", "complete", "finish", "release",
              "unpauseSession", "recover", "clear", "done"}

CtlStages == {"flag", "stop", "save", "append", "write"}
Idle      == [stage |-> "idle", run |-> None, event |-> "none"]
Control   == "control"

DurableType ==
    /\ status \in [Runs -> Status]
    /\ log \in [Runs -> Seq(LogEntry)]

FlagsType ==
    /\ active \subseteq Runs
    /\ cancelRequested \subseteq active
    /\ ctxDone \subseteq Runs
    /\ pausedRuns \subseteq Runs
    /\ decided \subseteq Runs

GatesType ==
    /\ token \subseteq Sessions
    /\ holding \subseteq Runs
    /\ pausedSessions \in [Sessions -> Runs \cup {None}]

\* What the locations that use an argument expect it to be.
Fits(l, a) ==
    /\ l \in {"append", "write"} => a \in Events
    /\ l = "callback" => a \in CallEvents
    /\ l = "saveWaiting" => a = "approval_required"
    /\ l \in {"unreserve", "saveRunning"} => a = "approval_resolved"
    /\ l \in {"look", "take", "recheck"} => a \in {"begin", "approval_resolved"}
    /\ l = "returned" => a \in {"ok", "err"}
    /\ l = "finish" => a \in Terminal

CodeType ==
    /\ pc \in [Runs -> Locations]
    /\ arg \in [Runs -> Args]
    /\ \A r \in Runs : Fits(pc[r], arg[r])

ControlType ==
    /\ ctl \in [stage: CtlStages, run: Runs, event: Events] \cup {Idle}
    /\ evLock \in Runs \cup {Control, None}
    /\ sequence \in [Runs -> {"none", "exact", "behind"}]
    /\ closed \in BOOLEAN

BoundsType ==
    /\ calls \in [Runs -> Nat]
    /\ \A r \in Runs : calls[r] <= MaxCalls[r]
    /\ faults \in 0..MaxFaults
    /\ crashes \in 0..MaxCrashes

TypeOK ==
    DurableType /\ FlagsType /\ GatesType /\ CodeType /\ ControlType /\ BoundsType

Init ==
    /\ status = [r \in Runs |-> "none"]
    /\ log = [r \in Runs |-> <<>>]
    /\ active = {} /\ cancelRequested = {} /\ ctxDone = {} /\ pausedRuns = {}
    /\ token = Sessions
    /\ holding = {}
    /\ pausedSessions = [s \in Sessions |-> None]
    /\ decided = {}
    /\ pc = [r \in Runs |-> "none"]
    /\ arg = [r \in Runs |-> "none"]
    /\ ctl = Idle /\ evLock = None /\ closed = FALSE
    /\ sequence = [r \in Runs |-> "none"]
    /\ calls = [r \in Runs |-> 0] /\ faults = 0 /\ crashes \in {0, MaxCrashes}

-----------------------------------------------------------------------------
(* Helpers.                                                                *)

Goto(r, l)        == pc' = [pc EXCEPT ![r] = l] /\ arg' = arg
GotoWith(r, l, a) == pc' = [pc EXCEPT ![r] = l] /\ arg' = [arg EXCEPT ![r] = a]

\* A write to the run store: it succeeds, or fails and changes nothing.
Save(r, st)  == status' = [status EXCEPT ![r] = st] /\ faults' = faults
SaveFails    == status' = status /\ faults < MaxFaults /\ faults' = faults + 1

\* Mutant: looks at the first entry of the log instead of the last.
IsClosedByFirst(l) == l # <<>> /\ l[1] \in Terminal

IsClosed(l) == l # <<>> /\ l[Len(l)] \in Terminal

\* What appending an event does to the log; consecutive progress is one entry.
Logged(l, e) ==
    IF e \in Terminal THEN Append(l, e)
    ELSE IF l # <<>> /\ l[Len(l)] = "progress" THEN l
    ELSE Append(l, "progress")

\* Mutant: an event is appended whatever the run's status.
NeverRefused(r, e) == FALSE

\* appendEventLocked refuses an event of a finished run, its own one excepted.
Refused(r, e) == status[r] \in Terminal /\ e # status[r]

\* The event is numbered one above the last event in the log: executeRun goes
\* by the last number acknowledged in this process, and so does a control
\* operation, which reads the log when there is none (latestRunSequence).
InOrder(r, byControl) ==
    \/ sequence[r] = "exact"
    \/ sequence[r] = "none" /\ (byControl \/ log[r] = <<>>)

\* RunEventRepository.Append when the write and the sync succeed.
Acknowledged(r, e) ==
    /\ log' = [log EXCEPT ![r] = Logged(@, e)]
    /\ sequence' = [sequence EXCEPT ![r] = "exact"]
    /\ UNCHANGED faults

\* When one of them fails: the next reader drops an unfinished last line, and
\* keeps a finished one, of which the service's number knows nothing.
NotAcknowledged(r, e) ==
    /\ faults < MaxFaults /\ faults' = faults + 1
    /\ \/ UNCHANGED <<log, sequence>>
       \/ /\ log' = [log EXCEPT ![r] = Logged(@, e)]
          /\ sequence' = [sequence EXCEPT ![r] = IF @ = "exact" THEN "behind" ELSE @]

-----------------------------------------------------------------------------
(* Control operations.  Each begins with startMu free (ctl = Idle).        *)

StartRun(r) ==
    /\ ctl = Idle /\ ~closed
    /\ status[r] = "none"
    /\ \/ /\ Save(r, "queued")
          /\ active' = active \cup {r}
          /\ Goto(r, "wait1")
       \/ /\ SaveFails
          /\ UNCHANGED <<active, code>>
    /\ UNCHANGED <<log, cancelRequested, ctxDone, pausedRuns, gates, decided,
                   ctl, appends, closed, calls, crashes>>

\* cancelRunLocked reads active, then marks the entry if it is still there.
CancelRun(r) ==
    /\ ctl = Idle /\ r \in Cancelable
    /\ r \in active
    /\ ctl' = [stage |-> "flag", run |-> r, event |-> "canceled"]
    /\ UNCHANGED <<durable, flags, gates, decided, code, appends, closed, bounds>>

\* Mutant: the entry is written back although the run has been cleared.
CancelFlagUnchecked ==
    /\ ctl.stage = "flag"
    /\ cancelRequested' = cancelRequested \cup {ctl.run}
    /\ ctl' = [ctl EXCEPT !.stage = "stop"]
    /\ UNCHANGED <<durable, active, ctxDone, pausedRuns, gates, decided, code,
                   appends, closed, bounds>>

CancelFlag ==
    /\ ctl.stage = "flag"
    /\ cancelRequested' = cancelRequested \cup ({ctl.run} \cap active)
    /\ ctl' = [ctl EXCEPT !.stage = "stop"]
    /\ UNCHANGED <<durable, active, ctxDone, pausedRuns, gates, decided, code,
                   appends, closed, bounds>>

\* Mutant: the cancel is recorded but the run's context is not canceled.
CancelStopForgotten ==
    /\ ctl.stage = "stop"
    /\ ctl' = [ctl EXCEPT !.stage = "save"]
    /\ UNCHANGED <<durable, flags, gates, decided, code, appends, closed, bounds>>

CancelStop ==
    /\ ctl.stage = "stop"
    /\ ctxDone' = ctxDone \cup {ctl.run}
    /\ ctl' = [ctl EXCEPT !.stage = "save"]
    /\ UNCHANGED <<durable, active, cancelRequested, pausedRuns, gates, decided,
                   code, appends, closed, bounds>>

\* persistImmediateCancellation: only the first terminal write has an event.
CancelSave ==
    /\ ctl.stage = "save"
    /\ LET r == ctl.run IN
         \/ /\ status[r] \in Terminal
            /\ ctl' = Idle
            /\ UNCHANGED <<status, faults>>
         \/ /\ status[r] \notin Terminal
            /\ Save(r, "canceled")
            /\ ctl' = [ctl EXCEPT !.stage = "append"]
         \/ /\ status[r] \notin Terminal
            /\ SaveFails
            /\ ctl' = Idle
    /\ UNCHANGED <<log, flags, gates, decided, code, appends, closed, calls, crashes>>

PauseRun(r) ==
    /\ ctl = Idle /\ r \in Pausable
    /\ status[r] \in Open \ {"waiting_approval"}
    /\ r \in active
    /\ r \notin pausedRuns
    /\ \/ /\ Save(r, "paused")
          /\ pausedRuns' = pausedRuns \cup {r}
          /\ ctl' = [stage |-> "append", run |-> r, event |-> "paused"]
       \/ /\ SaveFails
          /\ UNCHANGED <<pausedRuns, ctl>>
    /\ UNCHANGED <<log, active, cancelRequested, ctxDone, gates, decided, code,
                   appends, closed, calls, crashes>>

ResumeRun(r) ==
    /\ ctl = Idle
    /\ status[r] = "paused"
    /\ r \in active
    /\ \/ /\ Save(r, "running")
          /\ pausedRuns' = pausedRuns \ {r}
          /\ ctl' = [stage |-> "append", run |-> r, event |-> "resumed"]
       \/ /\ SaveFails
          /\ UNCHANGED <<pausedRuns, ctl>>
    /\ UNCHANGED <<log, active, cancelRequested, ctxDone, gates, decided, code,
                   appends, closed, calls, crashes>>

\* appendControlEvent: take eventMu and read the status, then write.
ControlAppend ==
    /\ ctl.stage = "append"
    /\ evLock = None
    /\ \/ /\ Refused(ctl.run, ctl.event)
          /\ ctl' = Idle
          /\ UNCHANGED evLock
       \/ /\ ~Refused(ctl.run, ctl.event)
          /\ ctl' = [ctl EXCEPT !.stage = "write"]
          /\ evLock' = Control
    /\ UNCHANGED <<durable, flags, gates, decided, code, sequence, closed, bounds>>

ControlWrite ==
    /\ ctl.stage = "write"
    /\ \/ InOrder(ctl.run, TRUE) /\ Acknowledged(ctl.run, ctl.event)
       \/ InOrder(ctl.run, TRUE) /\ NotAcknowledged(ctl.run, ctl.event)
       \/ ~InOrder(ctl.run, TRUE) /\ UNCHANGED <<log, sequence, faults>>
    /\ ctl' = Idle
    /\ evLock' = None
    /\ UNCHANGED <<status, flags, gates, decided, code, closed, calls, crashes>>

CloseService ==
    /\ ctl = Idle /\ ~closed
    /\ closed' = TRUE
    /\ ctxDone' = Runs
    /\ UNCHANGED <<durable, active, cancelRequested, pausedRuns, gates, decided,
                   code, ctl, appends, bounds>>

\* The run's waiting_approval record names the approval from saveWaiting on;
\* DecideRun reads it without a lock, so the record may be stale by then: the
\* coordinator only asks that the approval is still pending and undecided.
DecideRun(r) ==
    /\ \/ pc[r] \in {"reserve", "letGo", "decision"}
       \/ pc[r] \in {"append", "write"} /\ arg[r] = "approval_required"
    /\ r \notin decided
    /\ decided' = decided \cup {r}
    /\ UNCHANGED <<durable, flags, gates, code, ctl, appends, closed, bounds>>

\* What the operation that holds startMu does next.
ControlStep == CancelFlag \/ CancelStop \/ CancelSave \/ ControlAppend \/ ControlWrite

ControlOperation ==
    \/ \E r \in Runs : \/ StartRun(r) \/ CancelRun(r) \/ PauseRun(r)
                       \/ ResumeRun(r) \/ DecideRun(r)
    \/ ControlStep
    \/ CloseService

-----------------------------------------------------------------------------
(* executeRun up to the engine.                                            *)

WaitLocations == {"wait1", "wait2", "wait3", "wait4"}

\* Where a wait leads: onward, or what the caller does with the context error.
AfterWait == [wait1 |-> "look", wait2 |-> "setRunning", wait3 |-> "engine",
              wait4 |-> "complete"]

WaitIfRunPaused(r) ==
    /\ pc[r] \in WaitLocations
    /\ \/ /\ r \in ctxDone
          /\ IF pc[r] = "wait3" THEN Goto(r, "engine")
                                ELSE GotoWith(r, "finish", "canceled")
       \/ /\ r \notin ctxDone
          /\ r \notin pausedRuns
          /\ GotoWith(r, AfterWait[pc[r]], IF pc[r] = "wait1" THEN "begin" ELSE arg[r])
    /\ UNCHANGED <<durable, flags, gates, decided, ctl, appends, closed, bounds>>

\* Reserved(r): another run of the session waits for an approval.
Reserved(r) == pausedSessions[SessionOf[r]] \notin {None, r}

\* acquireSession gives up on a done context; whoever called it takes over.
GiveUpAcquire(r) ==
    /\ r \in ctxDone
    /\ IF arg[r] = "begin" THEN GotoWith(r, "finish", "canceled")
                           ELSE GotoWith(r, "returned", "err")

AcquireLook(r) ==
    /\ pc[r] = "look"
    /\ \/ ~Reserved(r) /\ Goto(r, "take")
       \/ Reserved(r) /\ GiveUpAcquire(r)
    /\ UNCHANGED <<durable, flags, gates, decided, ctl, appends, closed, bounds>>

\* select picks any ready case: the token may be taken by a canceled run.
AcquireTake(r) ==
    /\ pc[r] = "take"
    /\ \/ /\ SessionOf[r] \in token
          /\ token' = token \ {SessionOf[r]}
          /\ Goto(r, "recheck")
       \/ GiveUpAcquire(r) /\ UNCHANGED token
    /\ UNCHANGED <<durable, flags, holding, pausedSessions, decided, ctl, appends,
                   closed, bounds>>

\* Mutant: the reservation is not looked at again once the token is there.
AcquireUnchecked(r) ==
    /\ pc[r] = "recheck"
    /\ holding' = holding \cup {r}
    /\ Goto(r, IF arg[r] = "begin" THEN "wait2" ELSE "unreserve")
    /\ UNCHANGED <<durable, flags, token, pausedSessions, decided, ctl, appends,
                   closed, bounds>>

AcquireRecheck(r) ==
    /\ pc[r] = "recheck"
    /\ \/ /\ ~Reserved(r)
          /\ holding' = holding \cup {r}
          /\ Goto(r, IF arg[r] = "begin" THEN "wait2" ELSE "unreserve")
          /\ UNCHANGED token
       \/ /\ Reserved(r)
          /\ token' = token \cup {SessionOf[r]}
          /\ Goto(r, "look")
          /\ UNCHANGED holding
    /\ UNCHANGED <<durable, flags, pausedSessions, decided, ctl, appends, closed, bounds>>

\* The running record is written without looking at pausedRuns.
SetRunning(r) ==
    /\ pc[r] = "setRunning"
    /\ \/ /\ r \in cancelRequested
          /\ Goto(r, "release")
          /\ UNCHANGED <<status, faults>>
       \/ /\ r \notin cancelRequested
          /\ Save(r, "running")
          /\ GotoWith(r, "append", "started")
       \/ /\ r \notin cancelRequested
          /\ SaveFails
          /\ GotoWith(r, "finish", "failed")
    /\ UNCHANGED <<log, flags, gates, decided, ctl, appends, closed, calls, crashes>>

-----------------------------------------------------------------------------
(* appendEvent, and where each event leads.                                *)

AfterEvent == [e \in Events |->
    CASE e \in {"started", "approval_resolved"} -> "engine"
      [] e = "output"                           -> "wait3"
      [] e = "approval_required"                -> "reserve"
      [] OTHER                                  -> "release"]

AppendFailed(r) ==
    LET e == arg[r] IN
    CASE e \in {"started", "completed"}                      -> GotoWith(r, "finish", "failed")
      [] e \in {"approval_required", "approval_resolved"}    -> GotoWith(r, "returned", "err")
      [] e = "output"                                        -> Goto(r, "engine")
      [] OTHER                                               -> Goto(r, "release")

AppendCheck(r) ==
    /\ pc[r] = "append"
    /\ evLock = None
    /\ \/ /\ Refused(r, arg[r])
          /\ AppendFailed(r)
          /\ UNCHANGED evLock
       \/ /\ ~Refused(r, arg[r])
          /\ evLock' = r
          /\ Goto(r, "write")
    /\ UNCHANGED <<durable, flags, gates, decided, ctl, sequence, closed, bounds>>

AppendWrite(r) ==
    /\ pc[r] = "write"
    /\ evLock' = None
    /\ \/ /\ InOrder(r, FALSE) /\ Acknowledged(r, arg[r])
          /\ Goto(r, AfterEvent[arg[r]])
       \/ /\ InOrder(r, FALSE) /\ NotAcknowledged(r, arg[r])
          /\ AppendFailed(r)
       \/ /\ ~InOrder(r, FALSE) /\ UNCHANGED <<log, sequence, faults>>
          /\ AppendFailed(r)
    /\ UNCHANGED <<status, flags, gates, decided, ctl, closed, calls, crashes>>

-----------------------------------------------------------------------------
(* The engine and the callback it reports events through.                  *)

EngineEmits(r) ==
    /\ pc[r] = "engine"
    /\ calls[r] < MaxCalls[r]
    /\ calls' = [calls EXCEPT ![r] = @ + 1]
    /\ \E e \in {"output", "approval_required"} : GotoWith(r, "callback", e)
    /\ UNCHANGED <<durable, flags, gates, decided, ctl, appends, closed, faults, crashes>>

\* A panic skips to the deferred calls; a return is looked at by executeRun.
EngineReturns(r) ==
    /\ pc[r] = "engine"
    /\ \/ \E how \in {"ok", "err"} : GotoWith(r, "returned", how)
       \/ GotoWith(r, "release", "panic")
    /\ UNCHANGED <<durable, flags, gates, decided, ctl, appends, closed, bounds>>

AfterCallback == [e \in CallEvents |->
    CASE e = "output"            -> "append"
      [] e = "approval_required" -> "saveWaiting"
      [] e = "approval_resolved" -> "look"]

Callback(r) ==
    /\ pc[r] = "callback"
    /\ \/ /\ r \in ctxDone
          /\ IF arg[r] = "output" THEN Goto(r, "engine")
                                  ELSE GotoWith(r, "returned", "err")
       \/ /\ r \notin ctxDone
          /\ r \notin pausedRuns
          /\ Goto(r, AfterCallback[arg[r]])
    /\ UNCHANGED <<durable, flags, gates, decided, ctl, appends, closed, bounds>>

\* saveActiveRun: refused once a cancel is on its way or the run has ended.
SaveActive(r, st) ==
    \/ /\ r \in cancelRequested \/ status[r] \in Terminal
       /\ GotoWith(r, "returned", "err")
       /\ UNCHANGED <<status, faults>>
    \/ /\ r \notin cancelRequested /\ status[r] \notin Terminal
       /\ Save(r, st)
       /\ Goto(r, "append")
    \/ /\ r \notin cancelRequested /\ status[r] \notin Terminal
       /\ SaveFails
       /\ GotoWith(r, "returned", "err")

SaveWaiting(r) ==
    /\ pc[r] = "saveWaiting"
    /\ SaveActive(r, "waiting_approval")
    /\ UNCHANGED <<log, flags, gates, decided, ctl, appends, closed, calls, crashes>>

\* The reservation comes before the gate is returned.
Reserve(r) ==
    /\ pc[r] = "reserve"
    /\ pausedSessions' = [pausedSessions EXCEPT ![SessionOf[r]] = r]
    /\ Goto(r, "letGo")
    /\ UNCHANGED <<durable, flags, token, holding, decided, ctl, appends, closed, bounds>>

LetGo(r) ==
    /\ pc[r] = "letGo"
    /\ token' = token \cup {SessionOf[r]}
    /\ holding' = holding \ {r}
    /\ Goto(r, "decision")
    /\ UNCHANGED <<durable, flags, pausedSessions, decided, ctl, appends, closed, bounds>>

\* Coordinator.Wait: the decision, or the context; either may win.
AwaitDecision(r) ==
    /\ pc[r] = "decision"
    /\ decided' = decided \ {r}
    /\ \/ r \in decided /\ GotoWith(r, "callback", "approval_resolved")
       \/ r \in ctxDone /\ Goto(r, "engine")
    /\ UNCHANGED <<durable, flags, gates, ctl, appends, closed, bounds>>

ClearReservation(r) ==
    pausedSessions' = [pausedSessions EXCEPT ![SessionOf[r]] = IF @ = r THEN None ELSE @]

Unreserve(r) ==
    /\ pc[r] = "unreserve"
    /\ ClearReservation(r)
    /\ Goto(r, "saveRunning")
    /\ UNCHANGED <<durable, flags, token, holding, decided, ctl, appends, closed, bounds>>

SaveRunning(r) ==
    /\ pc[r] = "saveRunning"
    /\ SaveActive(r, "running")
    /\ UNCHANGED <<log, flags, gates, decided, ctl, appends, closed, calls, crashes>>

-----------------------------------------------------------------------------
(* The end of a run.                                                       *)

Returned(r) ==
    /\ pc[r] = "returned"
    /\ \/ r \in ctxDone /\ GotoWith(r, "finish", "canceled")
       \/ r \notin ctxDone /\ arg[r] = "err"
            /\ \E st \in {"failed", "canceled"} : GotoWith(r, "finish", st)
       \/ r \notin ctxDone /\ arg[r] = "ok" /\ Goto(r, "wait4")
    /\ UNCHANGED <<durable, flags, gates, decided, ctl, appends, closed, bounds>>

\* Mutant: the result is recorded without looking for a requested cancel.
CompleteUnchecked(r) ==
    /\ pc[r] = "complete"
    /\ r \notin pausedRuns
    /\ Save(r, "completed")
    /\ GotoWith(r, "append", "completed")
    /\ UNCHANGED <<log, flags, gates, decided, ctl, appends, closed, calls, crashes>>

\* The completed record shares mu with PauseRun and with the cancel flag.
Complete(r) ==
    /\ pc[r] = "complete"
    /\ \/ /\ r \in cancelRequested
          /\ GotoWith(r, "finish", "canceled")
          /\ UNCHANGED <<status, faults>>
       \/ /\ r \notin cancelRequested /\ r \notin pausedRuns
          /\ Save(r, "completed")
          /\ GotoWith(r, "append", "completed")
       \/ /\ r \notin cancelRequested /\ r \notin pausedRuns
          /\ SaveFails
          /\ GotoWith(r, "finish", "failed")
       \/ /\ r \notin cancelRequested /\ r \in pausedRuns /\ r \in ctxDone
          /\ GotoWith(r, "finish", "canceled")
          /\ UNCHANGED <<status, faults>>
    /\ UNCHANGED <<log, flags, gates, decided, ctl, appends, closed, calls, crashes>>

\* saveTerminalRun: the first terminal write wins, a requested cancel names it.
TerminalStatus(r) == IF r \in cancelRequested THEN "canceled" ELSE arg[r]

Finish(r) ==
    /\ pc[r] = "finish"
    /\ \/ /\ status[r] \in Terminal
          /\ Goto(r, "release")
          /\ UNCHANGED <<status, faults>>
       \/ /\ status[r] \notin Terminal
          /\ Save(r, TerminalStatus(r))
          /\ GotoWith(r, "append", TerminalStatus(r))
       \/ /\ status[r] \notin Terminal
          /\ SaveFails
          /\ Goto(r, "release")
    /\ UNCHANGED <<log, flags, gates, decided, ctl, appends, closed, calls, crashes>>

\* The deferred calls: return the gate, drop the reservation, recover, clear.
Release(r) ==
    /\ pc[r] = "release"
    /\ token' = IF r \in holding THEN token \cup {SessionOf[r]} ELSE token
    /\ holding' = holding \ {r}
    /\ Goto(r, "unpauseSession")
    /\ UNCHANGED <<durable, flags, pausedSessions, decided, ctl, appends, closed, bounds>>

\* Mutant: a run that ends while it waits for an approval stays reserved.
ReservationKept(r) ==
    /\ pc[r] = "unpauseSession"
    /\ Goto(r, IF arg[r] = "panic" THEN "recover" ELSE "clear")
    /\ UNCHANGED <<durable, flags, gates, decided, ctl, appends, closed, bounds>>

UnpauseSession(r) ==
    /\ pc[r] = "unpauseSession"
    /\ ClearReservation(r)
    /\ Goto(r, IF arg[r] = "panic" THEN "recover" ELSE "clear")
    /\ UNCHANGED <<durable, flags, token, holding, decided, ctl, appends, closed, bounds>>

\* Mutant: the panic is swallowed.
RecoverSilently(r) ==
    /\ pc[r] = "recover"
    /\ Goto(r, "clear")
    /\ UNCHANGED <<durable, flags, gates, decided, ctl, appends, closed, bounds>>

\* After a panic finishFailed runs here, with nothing left to return.
Recover(r) ==
    /\ pc[r] = "recover"
    /\ IF status[r] \in Terminal THEN Goto(r, "clear")
                                 ELSE GotoWith(r, "finish", "failed")
    /\ UNCHANGED <<durable, flags, gates, decided, ctl, appends, closed, bounds>>

ClearActive(r) ==
    /\ pc[r] = "clear"
    /\ active' = active \ {r}
    /\ cancelRequested' = cancelRequested \ {r}
    /\ ctxDone' = ctxDone \cup {r}
    /\ pausedRuns' = pausedRuns \ {r}
    /\ Goto(r, "done")
    /\ UNCHANGED <<durable, gates, decided, ctl, appends, closed, bounds>>

RunStep(r) ==
    \/ WaitIfRunPaused(r) \/ AcquireLook(r) \/ AcquireTake(r) \/ AcquireRecheck(r)
    \/ SetRunning(r) \/ AppendCheck(r) \/ AppendWrite(r)
    \/ EngineEmits(r) \/ EngineReturns(r) \/ Callback(r)
    \/ SaveWaiting(r) \/ Reserve(r) \/ LetGo(r) \/ AwaitDecision(r)
    \/ Unreserve(r) \/ SaveRunning(r)
    \/ Returned(r) \/ Complete(r) \/ Finish(r)
    \/ Release(r) \/ UnpauseSession(r) \/ Recover(r) \/ ClearActive(r)

-----------------------------------------------------------------------------
(* Crash and restart.  The memory is gone; loading the run store fails the *)
(* interrupted runs, then reconcileTerminalEvents closes the logs that lack *)
(* their terminal event, except those whose append fails.                  *)

Interrupted(r) == IF status[r] \in Open THEN "failed" ELSE status[r]

CrashAndRestart ==
    /\ crashes < MaxCrashes
    /\ crashes' = crashes + 1
    /\ status' = [r \in Runs |-> Interrupted(r)]
    /\ LET unfinished == {r \in Runs : Interrupted(r) \in Terminal /\ ~IsClosed(log[r])} IN
       \E missed \in SUBSET unfinished :
         /\ missed # {} => faults < MaxFaults
         /\ faults' = IF missed = {} THEN faults ELSE faults + 1
         /\ log' = [r \in Runs |-> IF r \in unfinished \ missed
                                   THEN Logged(log[r], Interrupted(r)) ELSE log[r]]
    /\ active' = {} /\ cancelRequested' = {} /\ ctxDone' = {} /\ pausedRuns' = {}
    /\ token' = Sessions /\ holding' = {}
    /\ pausedSessions' = [s \in Sessions |-> None]
    /\ decided' = {}
    /\ pc' = [r \in Runs |-> IF status[r] = "none" THEN "none" ELSE "done"]
    /\ arg' = [r \in Runs |-> "none"]
    /\ ctl' = Idle /\ evLock' = None /\ closed' = FALSE
    /\ sequence' = [r \in Runs |-> "none"]
    /\ UNCHANGED calls

\* Nothing left to do: every run is over, or was never asked for.
Quiet ==
    /\ ctl = Idle
    /\ \A r \in Runs : pc[r] = "done" \/ (pc[r] = "none" /\ closed)
    /\ UNCHANGED vars

Next ==
    \/ \E r \in Runs : RunStep(r)
    \/ ControlOperation
    \/ CrashAndRestart
    \/ Quiet

Spec == Init /\ [][Next]_vars

-----------------------------------------------------------------------------
(* Properties.                                                             *)

\* The run's engine, or its callback, is executing on the session.
EngineLocations == {"engine", "callback", "saveWaiting", "reserve", "letGo",
                    "decision", "unreserve", "saveRunning", "wait3", "returned"}

InEngine(r) ==
    \/ pc[r] \in EngineLocations
    \/ pc[r] \in {"append", "write"} /\ arg[r] \in CallEvents
    \/ pc[r] \in {"look", "take", "recheck"} /\ arg[r] = "approval_resolved"

\* At most one run of a session is between the start and the end of its engine
\* call, although the session's gate is given back while a run waits for an
\* approval (executeRun, acquireSession, pauseSession).
SingleWriter ==
    \A r1, r2 \in Runs :
        InEngine(r1) /\ InEngine(r2) /\ SessionOf[r1] = SessionOf[r2] => r1 = r2

\* The callback of an approval event holds the gate it is about to return: the
\* engine never asks for a second approval after a wait that a cancellation
\* broke off, when "release" is nil and calling it would panic.
GateHeldAtApproval == \A r \in Runs : pc[r] = "letGo" => r \in holding

\* The event log of a run has at most one terminal event, it is the last one,
\* and it names the run's durable status, whoever wrote which of the two.
TerminalEventLast ==
    \A r \in Runs : \A i \in 1..Len(log[r]) :
        log[r][i] \in Terminal => i = Len(log[r]) /\ log[r][i] = status[r]

\* The durable part of the state behaves as RunLifecycle promises its clients.
Lifecycle     == INSTANCE RunLifecycle WITH status <- status, log <- log
LifecycleSpec == Lifecycle!Spec

\* A run that has ended never changes its status again: no late callback, no
\* pause and no second outcome overwrites it.
TerminalIsFinal ==
    [][\A r \in Runs : status[r] \in Terminal => status'[r] = status[r]]_vars

\* Once a cancel is recorded, "canceled" is the only way the run can end while
\* the process lives, even when its engine has already returned a result.
CancelWins ==
    [][\A r \in Runs :
        /\ r \in cancelRequested /\ crashes' = crashes
        /\ status[r] \notin Terminal /\ status'[r] \in Terminal
        => status'[r] = "canceled"]_vars

\* A goroutine that is gone leaves a terminal record and a closed event log,
\* unless the control operation on its run is about to write them; a restart
\* makes up for the goroutines a crash killed.  (Until a storage fault: a failed
\* terminal write is only logged.)
GoneIsRecorded ==
    faults = 0 => \A r \in Runs :
        pc[r] = "done" /\ ctl.run # r => status[r] \in Terminal /\ IsClosed(log[r])

\* Once the storage works again, so does the log: the event that ends a run is
\* written when neither the write nor the sync fails.
HealthyAppendIsLogged ==
    [][\A r \in Runs :
        /\ pc[r] = "write" /\ arg[r] \in Terminal /\ pc'[r] # "write"
        /\ faults' = faults /\ crashes' = crashes
        => IsClosed(log'[r])]_vars

\* executeRun is blocked until somebody resumes the run.
BlockedByPause(r) ==
    /\ r \in pausedRuns /\ r \notin ctxDone
    /\ pc[r] \in WaitLocations \cup {"callback", "complete"}

\* A run that has not ended and waits for a resume can be resumed: its record
\* says "paused", which is what ResumeRun asks for.
BlockedRunIsResumable ==
    \A r \in Runs : BlockedByPause(r) /\ status[r] \in Open => status[r] = "paused"

-----------------------------------------------------------------------------
(* Liveness.  The Go scheduler runs every goroutine that can run, and so   *)
(* the handler of a control operation.  sync.Mutex serves its waiters in   *)
(* order, so a run that keeps finding eventMu free gets it (strong         *)
(* fairness: pauses and resumes can take eventMu for ever); the gate is    *)
(* taken a bounded number of times, weak fairness is enough.  The engine   *)
(* returns: its budgets end it.  Nothing is assumed of users: nobody has   *)
(* to decide, resume or cancel.                                            *)

Fairness ==
    /\ \A r \in Runs : WF_vars(RunStep(r)) /\ SF_vars(AppendCheck(r))
    /\ WF_vars(ControlStep)

FairSpec == Spec /\ Fairness

\* A canceled run lets go of its goroutine, wherever the cancel found it:
\* queued at the gate, paused, waiting for an approval or in the engine.
CancelEnds == \A r \in Runs : r \in cancelRequested ~> r \notin active

\* Close returns: every goroutine it waits for ends.
CloseDrains == closed ~> active = {}

\* Whoever asks a run to stop, or the service to close, is done in the end.
StopsReachAll == CancelEnds /\ CloseDrains

\* The users answer approvals and do not leave a run paused for good.
AttentiveUsers ==
    \A r \in Runs : <>[](r \notin pausedRuns) /\ []<>(pc[r] # "decision")

\* With attentive users every run ends: the session gate is always handed on,
\* also by runs that gave it back for an approval and queue for it again.
EveryRunEnds == AttentiveUsers => \A r \in Runs : r \in active ~> r \notin active
=============================================================================
