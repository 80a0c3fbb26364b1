--------------------------- MODULE RunServiceProofs ---------------------------
(***************************************************************************)
(* Proofs about RunService, for every set of runs and sessions and for     *)
(* every bound on calls, storage faults and crashes.                       *)
(***************************************************************************)
EXTENDS RunService, TLAPS

-----------------------------------------------------------------------------
(* Type correctness.  A step of a run changes each part of the state in    *)
(* few ways, so the proof goes part by part.                               *)

\* Where the tables of executeRun lead.
LEMMA Tables ==
    /\ AfterWait["wait1"] = "look"
    /\ AfterWait["wait2"] = "setRunning" /\ AfterWait["wait3"] = "engine"
    /\ AfterWait["wait4"] = "complete"
    /\ AfterEvent \in [Events -> {"engine", "wait3", "reserve", "release"}]
    /\ AfterEvent["started"] = "engine" /\ AfterEvent["approval_resolved"] = "engine"
    /\ AfterEvent["output"] = "wait3" /\ AfterEvent["approval_required"] = "reserve"
    /\ \A e \in Events \ (CallEvents \cup {"started"}) : AfterEvent[e] = "release"
    /\ AfterCallback["output"] = "append"
    /\ AfterCallback["approval_required"] = "saveWaiting"
    /\ AfterCallback["approval_resolved"] = "look"
BY DEF AfterWait, AfterEvent, AfterCallback, Events, CallEvents, Terminal

\* What an append does, whether or not it is acknowledged.
Appends(r, e) ==
    /\ UNCHANGED log \/ log' = [log EXCEPT ![r] = Logged(@, e)]
    /\ faults' = faults \/ (faults < MaxFaults /\ faults' = faults + 1)
    /\ sequence \in [Runs -> {"none", "exact", "behind"}] =>
         sequence' \in [Runs -> {"none", "exact", "behind"}]
    /\ evLock' = None
    /\ UNCHANGED <<status, active, cancelRequested, ctxDone, pausedRuns, token, holding,
                   pausedSessions, decided, closed, calls, crashes>>

LEMMA RunAppends ==
    ASSUME NEW r \in Runs, AppendWrite(r)
    PROVE  /\ Appends(r, arg[r])
           /\ ctl' = ctl /\ pc[r] = "write"
           /\ Goto(r, AfterEvent[arg[r]]) \/ AppendFailed(r)
BY DEF AppendWrite, Acknowledged, NotAcknowledged, Appends, flags, gates

LEMMA ControlAppends ==
    ASSUME ControlWrite
    PROVE  /\ Appends(ctl.run, ctl.event)
           /\ ctl' = Idle /\ ctl.stage = "write" /\ pc' = pc /\ arg' = arg
BY DEF ControlWrite, Acknowledged, NotAcknowledged, Appends, flags, gates, code

\* Appending to a well-formed log yields a well-formed log.
LEMMA LoggedType ==
    ASSUME NEW l \in Seq(LogEntry), NEW e \in Args
    PROVE  Logged(l, e) \in Seq(LogEntry)
BY DEF Logged, LogEntry, Args, Events, Terminal, CallEvents

\* A jump to a location that the argument in hand fits.
LEMMA GotoType ==
    ASSUME CodeType, NEW r \in Runs, NEW l \in Locations,
           Fits(l, arg[r]), Goto(r, l)
    PROVE  CodeType'
BY DEF CodeType, Goto

\* A jump that brings its argument along.
LEMMA GotoWithType ==
    ASSUME CodeType, NEW r \in Runs, NEW l \in Locations, NEW a \in Args,
           Fits(l, a), GotoWith(r, l, a)
    PROVE  CodeType'
BY DEF CodeType, GotoWith

\* The initial state is well-typed.
LEMMA TypeInit == Init => TypeOK
<1> SUFFICES ASSUME Init PROVE TypeOK
  OBVIOUS
<1>1. DurableType /\ FlagsType /\ GatesType
  BY DEF Init, DurableType, FlagsType, GatesType, Status
<1>2. CodeType
  BY DEF Init, CodeType, Fits, Locations, Args
<1>3. ControlType
  BY DEF Init, ControlType
<1>4. BoundsType
  BY BoundAssumption DEF Init, BoundsType
<1> QED
  BY <1>1, <1>2, <1>3, <1>4 DEF TypeOK

\* A run moves to locations its argument fits.
LEMMA CodeStep ==
    ASSUME TypeOK, NEW r \in Runs, RunStep(r)
    PROVE  CodeType'
<1>0. /\ Fits(pc[r], arg[r])
      /\ pc[r] \in Locations /\ arg[r] \in Args
  BY DEF TypeOK, CodeType
<1> USE <1>0, GotoType, GotoWithType, Tables
    DEF TypeOK, Locations, Args, Events, CallEvents, Terminal, Fits
<1>1. CASE WaitIfRunPaused(r)
  BY <1>1 DEF WaitIfRunPaused, WaitLocations
<1>2. CASE AcquireLook(r)
  BY <1>2 DEF AcquireLook, GiveUpAcquire
<1>3. CASE AcquireTake(r)
  BY <1>3 DEF AcquireTake, GiveUpAcquire
<1>4. CASE AcquireRecheck(r)
  BY <1>4 DEF AcquireRecheck
<1>5. CASE SetRunning(r)
  BY <1>5 DEF SetRunning
<1>6. CASE AppendCheck(r)
  BY <1>6 DEF AppendCheck, AppendFailed
<1>7. CASE AppendWrite(r)
  BY <1>7 DEF AppendWrite, AppendFailed
<1>8. CASE EngineEmits(r)
  BY <1>8 DEF EngineEmits
<1>9. CASE EngineReturns(r)
  BY <1>9 DEF EngineReturns
<1>10. CASE Callback(r)
  BY <1>10 DEF Callback
<1>11. CASE SaveWaiting(r)
  BY <1>11 DEF SaveWaiting, SaveActive
<1>12. CASE Reserve(r)
  BY <1>12 DEF Reserve
<1>13. CASE LetGo(r)
  BY <1>13 DEF LetGo
<1>14. CASE AwaitDecision(r)
  BY <1>14 DEF AwaitDecision
<1>15. CASE Unreserve(r)
  BY <1>15 DEF Unreserve
<1>16. CASE SaveRunning(r)
  BY <1>16 DEF SaveRunning, SaveActive
<1>17. CASE Returned(r)
  BY <1>17 DEF Returned
<1>18. CASE Complete(r)
  BY <1>18 DEF Complete
<1>19. CASE Finish(r)
  BY <1>19 DEF Finish, TerminalStatus
<1>20. CASE Release(r)
  BY <1>20 DEF Release
<1>21. CASE UnpauseSession(r)
  BY <1>21 DEF UnpauseSession
<1>22. CASE Recover(r)
  BY <1>22 DEF Recover
<1>23. CASE ClearActive(r)
  BY <1>23 DEF ClearActive
<1> QED
  BY <1>1, <1>2, <1>3, <1>4, <1>5, <1>6, <1>7, <1>8, <1>9, <1>10, <1>11,
     <1>12, <1>13, <1>14, <1>15, <1>16, <1>17, <1>18, <1>19, <1>20, <1>21,
     <1>22, <1>23 DEF RunStep

\* A run writes statuses, and logs the event in hand.
LEMMA DurableStep ==
    ASSUME TypeOK, NEW r \in Runs, RunStep(r)
    PROVE  DurableType'
<1>1. /\ DurableType
      /\ arg[r] \in Args
      /\ pc[r] = "finish" => arg[r] \in Terminal
  BY DEF TypeOK, CodeType, Fits
<1>2. status' \in [Runs -> Status]
  BY <1>1, RunAppends
     DEF RunStep, DurableType, durable, SaveActive, TerminalStatus, Save,
         SaveFails, Status, Open, Terminal, WaitIfRunPaused, AcquireLook,
         AcquireTake, AcquireRecheck, SetRunning, AppendCheck, Appends,
         EngineEmits, EngineReturns, Callback, SaveWaiting, Reserve, LetGo,
         AwaitDecision, Unreserve, SaveRunning, Returned, Complete, Finish,
         Release, UnpauseSession, Recover, ClearActive, appends
<1>3. UNCHANGED log \/ log' = [log EXCEPT ![r] = Logged(@, arg[r])]
  BY RunAppends
     DEF RunStep, durable, WaitIfRunPaused, AcquireLook, AcquireTake,
         AcquireRecheck, SetRunning, AppendCheck, Appends, EngineEmits,
         EngineReturns, Callback, SaveWaiting, Reserve, LetGo, AwaitDecision,
         Unreserve, SaveRunning, Returned, Complete, Finish, Release,
         UnpauseSession, Recover, ClearActive, appends
<1>4. log[r] \in Seq(LogEntry) /\ Logged(log[r], arg[r]) \in Seq(LogEntry)
  BY <1>1, LoggedType DEF DurableType
<1>5. log' \in [Runs -> Seq(LogEntry)]
  BY <1>1, <1>3, <1>4 DEF DurableType
<1> QED
  BY <1>2, <1>5 DEF DurableType

\* The other parts of the state under the steps of a run.
LEMMA TypeRunStep ==
    ASSUME TypeOK, NEW r \in Runs, RunStep(r)
    PROVE  TypeOK'
<1>1. FlagsType'
  BY RunAppends
     DEF RunStep, TypeOK, FlagsType, flags, WaitIfRunPaused, AcquireLook,
         AcquireTake, AcquireRecheck, SetRunning, AppendCheck, Appends,
         EngineEmits, EngineReturns, Callback, SaveWaiting, Reserve, LetGo,
         AwaitDecision, Unreserve, SaveRunning, Returned, Complete, Finish,
         Release, UnpauseSession, Recover, ClearActive, appends
<1>2. GatesType'
  BY SessionAssumption, RunAppends
     DEF RunStep, TypeOK, GatesType, gates, ClearReservation, WaitIfRunPaused,
         AcquireLook, AcquireTake, AcquireRecheck, SetRunning, AppendCheck,
         Appends, EngineEmits, EngineReturns, Callback, SaveWaiting, Reserve,
         LetGo, AwaitDecision, Unreserve, SaveRunning, Returned, Complete,
         Finish, Release, UnpauseSession, Recover, ClearActive, appends
<1>3. ControlType'
  BY RunAppends
     DEF RunStep, TypeOK, ControlType, WaitIfRunPaused, AcquireLook,
         AcquireTake, AcquireRecheck, SetRunning, AppendCheck, Appends,
         EngineEmits, EngineReturns, Callback, SaveWaiting, Reserve, LetGo,
         AwaitDecision, Unreserve, SaveRunning, Returned, Complete, Finish,
         Release, UnpauseSession, Recover, ClearActive, appends
<1>4. BoundsType'
  BY BoundAssumption, RunAppends
     DEF RunStep, TypeOK, BoundsType, bounds, SaveActive, Save, SaveFails,
         WaitIfRunPaused, AcquireLook, AcquireTake, AcquireRecheck, SetRunning,
         AppendCheck, Appends, EngineEmits, EngineReturns, Callback,
         SaveWaiting, Reserve, LetGo, AwaitDecision, Unreserve, SaveRunning,
         Returned, Complete, Finish, Release, UnpauseSession, Recover,
         ClearActive, appends
<1> QED
  BY <1>1, <1>2, <1>3, <1>4, CodeStep, DurableStep DEF TypeOK

\* The control operations, and the steps of the one that holds startMu.
LEMMA TypeControl ==
    ASSUME TypeOK, ControlOperation
    PROVE  TypeOK'
<1>1. ctl = Idle \/ (ctl.run \in Runs /\ ctl.event \in Events)
  BY DEF TypeOK, ControlType
<1>2. CodeType'
  BY GotoType, ControlAppends
     DEF TypeOK, CodeType, Fits, Locations, code, ControlOperation, StartRun,
         CancelRun, PauseRun, ResumeRun, DecideRun, ControlStep, CancelFlag,
         CancelStop, CancelSave, ControlAppend, Appends, CloseService, appends
<1>3. status' \in [Runs -> Status]
  BY <1>1, ControlAppends
     DEF TypeOK, DurableType, durable, Save, SaveFails, Status, Open, Terminal,
         Idle, ControlOperation, StartRun, CancelRun, PauseRun, ResumeRun,
         DecideRun, ControlStep, CancelFlag, CancelStop, CancelSave,
         ControlAppend, Appends, CloseService, appends
<1>4. \/ UNCHANGED log
      \/ /\ ctl.run \in Runs /\ ctl.event \in Args
         /\ log' = [log EXCEPT ![ctl.run] = Logged(@, ctl.event)]
  BY <1>1, ControlAppends
     DEF durable, Idle, Args, ControlOperation, StartRun, CancelRun, PauseRun,
         ResumeRun, DecideRun, ControlStep, CancelFlag, CancelStop, CancelSave,
         ControlAppend, Appends, CloseService, appends
<1>5. log' \in [Runs -> Seq(LogEntry)]
  <2>1. CASE UNCHANGED log
    BY <2>1 DEF TypeOK, DurableType
  <2>2. CASE ctl.run \in Runs /\ ctl.event \in Args
             /\ log' = [log EXCEPT ![ctl.run] = Logged(@, ctl.event)]
    <3>1. Logged(log[ctl.run], ctl.event) \in Seq(LogEntry)
      BY <2>2, LoggedType DEF TypeOK, DurableType
    <3> QED
      BY <2>2, <3>1 DEF TypeOK, DurableType
  <2> QED
    BY <1>4, <2>1, <2>2
<1>6. FlagsType' /\ GatesType'
  BY <1>1, ControlAppends
     DEF TypeOK, FlagsType, GatesType, flags, gates, Idle, ControlOperation,
         StartRun, CancelRun, PauseRun, ResumeRun, DecideRun, ControlStep,
         CancelFlag, CancelStop, CancelSave, ControlAppend, Appends,
         CloseService, appends
<1>7. ControlType'
  <2>1. ASSUME NEW st \in CtlStages, NEW q \in Runs, NEW e \in Events
        PROVE  [stage |-> st, run |-> q, event |-> e]
                 \in [stage: CtlStages, run: Runs, event: Events]
    OBVIOUS
  <2>2. ctl # Idle => \A st \in CtlStages :
          [ctl EXCEPT !.stage = st] \in [stage: CtlStages, run: Runs, event: Events]
    BY DEF TypeOK, ControlType
  <2>3. /\ {"flag", "stop", "save", "append", "write"} \subseteq CtlStages
        /\ {"canceled", "paused", "resumed"} \subseteq Events
        /\ Idle.stage = "idle"
    BY DEF CtlStages, Events, Terminal, Idle
  <2> QED
    BY <2>1, <2>2, <2>3, ControlAppends
       DEF TypeOK, ControlType, ControlOperation, StartRun, CancelRun,
           PauseRun, ResumeRun, DecideRun, ControlStep, CancelFlag, CancelStop,
           CancelSave, ControlAppend, Appends, CloseService, appends
<1>8. BoundsType'
  BY BoundAssumption, ControlAppends
     DEF TypeOK, BoundsType, bounds, Save, SaveFails, ControlOperation,
         StartRun, CancelRun, PauseRun, ResumeRun, DecideRun, ControlStep,
         CancelFlag, CancelStop, CancelSave, ControlAppend, Appends,
         CloseService, appends
<1> QED
  BY <1>2, <1>3, <1>5, <1>6, <1>7, <1>8 DEF TypeOK, DurableType

\* A crash, and the state the restart builds.
LEMMA TypeCrash ==
    ASSUME TypeOK, CrashAndRestart
    PROVE  TypeOK'
<1>1. \A r \in Runs : Interrupted(r) \in Status
  BY DEF TypeOK, DurableType, Interrupted, Status, Open, Terminal
<1>2. \A r \in Runs : Interrupted(r) \in Terminal =>
        Logged(log[r], Interrupted(r)) \in Seq(LogEntry)
  BY LoggedType DEF TypeOK, DurableType, Args, Events
<1>3. DurableType'
  BY <1>1, <1>2 DEF TypeOK, DurableType, CrashAndRestart
<1>4. FlagsType' /\ GatesType'
  BY DEF CrashAndRestart, FlagsType, GatesType
<1>5. CodeType'
  BY DEF CrashAndRestart, CodeType, Fits, Locations, Args
<1>6. ControlType'
  BY DEF CrashAndRestart, ControlType
<1>7. BoundsType'
  BY BoundAssumption DEF CrashAndRestart, TypeOK, BoundsType
<1> QED
  BY <1>3, <1>4, <1>5, <1>6, <1>7 DEF TypeOK

\* Every step keeps the types.
LEMMA TypeNext == TypeOK /\ [Next]_vars => TypeOK'
<1> SUFFICES ASSUME TypeOK, [Next]_vars PROVE TypeOK'
  OBVIOUS
<1>1. ASSUME NEW r \in Runs, RunStep(r) PROVE TypeOK'
  BY <1>1, TypeRunStep
<1>2. CASE ControlOperation
  BY <1>2, TypeControl
<1>3. CASE CrashAndRestart
  BY <1>3, TypeCrash
<1>4. CASE UNCHANGED vars
  BY <1>4
     DEF vars, durable, flags, gates, code, bounds, TypeOK, DurableType,
         FlagsType, GatesType, CodeType, ControlType, BoundsType, appends
<1> QED
  BY <1>1, <1>2, <1>3, <1>4 DEF Next, Quiet

\* Every reachable state is well-typed; in particular every location executeRun
\* reaches comes with the event or outcome that location needs.
THEOREM TypeCorrect == Spec => []TypeOK
BY TypeInit, TypeNext, PTL DEF Spec

-----------------------------------------------------------------------------
(* The inductive invariants behind SingleWriter and TerminalIsFinal.       *)

\* The gate's token of r's session is out, and r has it.
HasToken(r) == r \in holding \/ pc[r] = "recheck"

\* Between giving the gate back for an approval and having it again.
Awaiting(r) ==
    \/ pc[r] = "decision"
    \/ pc[r] \in {"callback", "look", "take", "recheck"} /\ arg[r] = "approval_resolved"

\* Past acquireSession, not yet in the engine.
Starting(r) ==
    \/ pc[r] \in {"wait2", "setRunning"}
    \/ pc[r] \in {"append", "write"} /\ arg[r] = "started"

AsksApproval(r) ==
    \/ pc[r] \in {"saveWaiting", "reserve", "letGo"}
    \/ pc[r] \in {"append", "write"} /\ arg[r] = "approval_required"

\* The token is in the gate or with one run; a run holds it only while its
\* session is not reserved for another; an engine works under one of the two.
TokenInv ==
    \A r \in Runs : HasToken(r) =>
        /\ SessionOf[r] \notin token
        /\ \A q \in Runs : HasToken(q) /\ SessionOf[q] = SessionOf[r] => q = r

ReservedInv ==
    \A r \in Runs :
        /\ r \in holding => ~Reserved(r)
        /\ InEngine(r) => r \in holding \/ pausedSessions[SessionOf[r]] = r
        /\ pc[r] = "letGo" => pausedSessions[SessionOf[r]] = r

PlaceInv ==
    \A r \in Runs :
        /\ Starting(r) \/ AsksApproval(r) \/ pc[r] = "unreserve" => r \in holding
        /\ Awaiting(r) => r \notin holding
        /\ pc[r] \in {"none", "wait1", "look", "take", "recheck"} => r \notin holding
        /\ InEngine(r) => r \in holding \/ Awaiting(r) \/ r \in ctxDone

\* executeRun only exists for a run that has a record.
BornInv == \A r \in Runs : status[r] = "none" => pc[r] = "none"

GateInv == TokenInv /\ ReservedInv /\ PlaceInv

\* executeRun may still write a status without looking at the stored one.
MayStillSave(r) ==
    /\ pc[r] \notin {"none", "finish", "release", "unpauseSession", "recover",
                     "clear", "done"}
    /\ ~(pc[r] \in {"append", "write"} /\ arg[r] \in Terminal)

\* If such a run has ended, a cancel ended it, and executeRun looks for that.
FinalInv ==
    /\ \A r \in Runs : pc[r] \notin {"none", "done"} => r \in active
    /\ \A r \in Runs : status[r] \in Terminal /\ MayStillSave(r) => r \in cancelRequested
    /\ ctl.stage \in {"stop", "save"} => ctl.run \in cancelRequested \/ ctl.run \notin active
-----------------------------------------------------------------------------
(* One run at a time in a session's engine.                                *)

LEMMA GateInit == Init => GateInv
BY DEF Init, GateInv, TokenInv, ReservedInv, PlaceInv, HasToken, Awaiting,
       Starting, AsksApproval, InEngine, EngineLocations

\* The token stays in order when nobody gains it and its gate stays empty.
LEMMA TokenKept ==
    ASSUME TokenInv,
           \A q \in Runs : HasToken(q)' => HasToken(q) /\ SessionOf[q] \notin token'
    PROVE  TokenInv'
BY DEF TokenInv

\* The steps of one run keep the gate in order.
LEMMA GateRunStep ==
    ASSUME TypeOK, GateInv, NEW r \in Runs, RunStep(r)
    PROVE  GateInv'
<1> USE SessionAssumption, NoneAssumption
    DEF TypeOK, FlagsType, GatesType, CodeType, Fits, GateInv, TokenInv, ReservedInv,
        PlaceInv, HasToken, Awaiting, Starting, AsksApproval, InEngine, EngineLocations,
        Reserved, Goto, GotoWith, flags, gates, CallEvents, Events, Terminal
<1>1. CASE WaitIfRunPaused(r)
  BY <1>1 DEF WaitIfRunPaused, WaitLocations, AfterWait
<1>2. CASE AcquireLook(r)
  BY <1>2 DEF AcquireLook, GiveUpAcquire
<1>3. CASE AcquireTake(r)
  BY <1>3 DEF AcquireTake, GiveUpAcquire
<1>4. CASE AcquireRecheck(r)
  BY <1>4 DEF AcquireRecheck
<1>5. CASE SetRunning(r)
  BY <1>5 DEF SetRunning
<1>6. CASE AppendCheck(r)
  BY <1>6 DEF AppendCheck, AppendFailed
<1>7. CASE AppendWrite(r)
  <2>1. /\ arg[r] \in Events
        /\ UNCHANGED <<gates, ctxDone>>
        /\ \/ Goto(r, AfterEvent[arg[r]])
           \/ AppendFailed(r)
    BY <1>7 DEF AppendWrite
  <2> QED
    BY <2>1, Tables, <1>7 DEF AppendWrite, AppendFailed
<1>8. CASE EngineEmits(r)
  BY <1>8 DEF EngineEmits
<1>9. CASE EngineReturns(r)
  BY <1>9 DEF EngineReturns
<1>10. CASE Callback(r)
  BY <1>10 DEF Callback, AfterCallback
<1>11. CASE SaveWaiting(r)
  BY <1>11 DEF SaveWaiting, SaveActive
<1>12. CASE Reserve(r)
  BY <1>12 DEF Reserve
<1>13. CASE LetGo(r)
  <2>0. r \in holding
    BY <1>13 DEF LetGo
  <2>1. TokenInv'
    <3>1. \A q \in Runs : HasToken(q)' => HasToken(q) /\ SessionOf[q] \notin token'
      BY <2>0, <1>13 DEF LetGo
    <3> HIDE DEF HasToken, TokenInv
    <3> QED
      BY <3>1, TokenKept
  <2>2. ReservedInv'
    BY <1>13 DEF LetGo
  <2>3. PlaceInv'
    BY <1>13 DEF LetGo
  <2> QED
    BY <2>1, <2>2, <2>3
<1>14. CASE AwaitDecision(r)
  BY <1>14 DEF AwaitDecision
<1>15. CASE Unreserve(r)
  <2>1. TokenInv'
    <3>1. \A q \in Runs : HasToken(q)' => HasToken(q) /\ SessionOf[q] \notin token'
      BY <1>15 DEF Unreserve
    <3> HIDE DEF HasToken, TokenInv
    <3> QED
      BY <3>1, TokenKept
  <2>2. ReservedInv'
    BY <1>15 DEF Unreserve, ClearReservation
  <2>3. PlaceInv'
    BY <1>15 DEF Unreserve
  <2> QED
    BY <2>1, <2>2, <2>3
<1>16. CASE SaveRunning(r)
  BY <1>16 DEF SaveRunning, SaveActive
<1>17. CASE Returned(r)
  BY <1>17 DEF Returned
<1>18. CASE Complete(r)
  BY <1>18 DEF Complete
<1>19. CASE Finish(r)
  <2>1. TerminalStatus(r) \in Terminal
    BY <1>19 DEF Finish, TerminalStatus
  <2> QED
    BY <2>1, <1>19 DEF Finish
<1>20. CASE Release(r)
  BY <1>20 DEF Release
<1>21. CASE UnpauseSession(r)
  BY <1>21 DEF UnpauseSession, ClearReservation
<1>22. CASE Recover(r)
  BY <1>22 DEF Recover
<1>23. CASE ClearActive(r)
  BY <1>23 DEF ClearActive
<1> QED
  BY <1>1, <1>2, <1>3, <1>4, <1>5, <1>6, <1>7, <1>8, <1>9, <1>10, <1>11,
     <1>12, <1>13, <1>14, <1>15, <1>16, <1>17, <1>18, <1>19, <1>20, <1>21,
     <1>22, <1>23 DEF RunStep

\* No step of a run makes its record disappear.
LEMMA BornRunStep ==
    ASSUME TypeOK, BornInv, NEW r \in Runs, RunStep(r)
    PROVE  BornInv'
<1>1. /\ \A q \in Runs \ {r} : status'[q] = status[q] /\ pc'[q] = pc[q]
      /\ status[r] # "none" => status'[r] # "none"
      /\ pc[r] # "none"
  BY RunAppends
     DEF TypeOK, DurableType, CodeType, Fits, Terminal, RunStep, durable, Goto,
         GotoWith, code, Save, SaveFails, SaveActive, TerminalStatus,
         GiveUpAcquire, AppendFailed, WaitIfRunPaused, WaitLocations,
         AcquireLook, AcquireTake, AcquireRecheck, SetRunning, AppendCheck,
         Appends, EngineEmits, EngineReturns, Callback, SaveWaiting, Reserve,
         LetGo, AwaitDecision, Unreserve, SaveRunning, Returned, Complete,
         Finish, Release, UnpauseSession, Recover, ClearActive, appends
<1> QED
  BY <1>1 DEF BornInv

\* The control operations leave gates and locations alone; StartRun finds a
\* run that has never been anywhere.
LEMMA GateControl ==
    ASSUME TypeOK, GateInv, BornInv, ControlOperation
    PROVE  GateInv' /\ BornInv'
<1>1. UNCHANGED gates /\ ctxDone \subseteq ctxDone'
  BY ControlAppends
     DEF ControlOperation, StartRun, CancelRun, PauseRun, ResumeRun, DecideRun,
         ControlStep, CancelFlag, CancelStop, CancelSave, ControlAppend,
         Appends, CloseService, flags, gates, TypeOK, FlagsType, appends
<1>2. \/ UNCHANGED code
      \/ \E r \in Runs : status[r] = "none" /\ Goto(r, "wait1")
  BY ControlAppends
     DEF ControlOperation, StartRun, CancelRun, PauseRun, ResumeRun, DecideRun,
         ControlStep, CancelFlag, CancelStop, CancelSave, ControlAppend,
         Appends, CloseService, appends, code
<1>3. GateInv'
  <2>1. CASE UNCHANGED code
    BY <1>1, <2>1
       DEF gates, code, GateInv, TokenInv, ReservedInv, PlaceInv, HasToken,
           Awaiting, Starting, AsksApproval, InEngine, Reserved
  <2>2. ASSUME NEW r \in Runs, status[r] = "none", Goto(r, "wait1")
        PROVE  GateInv'
    BY <1>1, <2>2
       DEF TypeOK, CodeType, BornInv, Goto, gates, GateInv, TokenInv,
           ReservedInv, PlaceInv, HasToken, Awaiting, Starting, AsksApproval,
           InEngine, EngineLocations, Reserved
  <2> QED
    BY <1>2, <2>1, <2>2
<1>4. BornInv'
  BY ControlAppends
     DEF TypeOK, DurableType, CodeType, ControlType, Idle, BornInv, Terminal,
         Open, durable, code, Goto, Save, SaveFails, ControlOperation,
         StartRun, CancelRun, PauseRun, ResumeRun, DecideRun, ControlStep,
         CancelFlag, CancelStop, CancelSave, ControlAppend, Appends,
         CloseService, appends
<1> QED
  BY <1>3, <1>4

\* A restart begins with full gates and nobody running.
LEMMA GateCrash ==
    ASSUME TypeOK, BornInv, CrashAndRestart
    PROVE  GateInv' /\ BornInv'
<1>1. \A r \in Runs : pc'[r] \in {"none", "done"} /\ arg'[r] = "none"
  BY DEF CrashAndRestart
<1>2. GateInv'
  BY <1>1
     DEF CrashAndRestart, GateInv, TokenInv, ReservedInv, PlaceInv, HasToken,
         Awaiting, Starting, AsksApproval, InEngine, EngineLocations
<1>3. BornInv'
  BY DEF CrashAndRestart, BornInv, Interrupted, TypeOK, DurableType
<1> QED
  BY <1>2, <1>3

\* Every step keeps the gates in order.
LEMMA GateNext ==
    TypeOK /\ GateInv /\ BornInv /\ [Next]_vars => GateInv' /\ BornInv'
<1> SUFFICES ASSUME TypeOK, GateInv, BornInv, [Next]_vars
             PROVE  GateInv' /\ BornInv'
  OBVIOUS
<1>1. ASSUME NEW r \in Runs, RunStep(r) PROVE GateInv' /\ BornInv'
  BY <1>1, GateRunStep, BornRunStep
<1>2. CASE ControlOperation
  BY <1>2, GateControl
<1>3. CASE CrashAndRestart
  BY <1>3, GateCrash
<1>4. CASE UNCHANGED vars
  BY <1>4 DEF vars, durable, flags, gates, code, GateInv, TokenInv,
              ReservedInv, PlaceInv, HasToken, Awaiting, Starting,
              AsksApproval, InEngine, Reserved, BornInv
<1> QED
  BY <1>1, <1>2, <1>3, <1>4 DEF Next, Quiet

\* The gates are in order in every reachable state.
LEMMA GateCorrect == Spec => [](GateInv /\ BornInv)
<1>1. Init => GateInv /\ BornInv
  BY GateInit DEF Init, BornInv
<1> QED
  BY <1>1, GateNext, TypeCorrect, PTL DEF Spec

\* Two runs of a session are never between the start and the end of their
\* engine calls together: not when one gives the gate back for an approval and
\* another takes it, nor when both queue for it again.
\* An engine that does not hold its gate is inside the wait the session is
\* reserved for, and an engine that does holds it unreserved.
THEOREM OneWriter == Spec => []SingleWriter
<1>1. GateInv => SingleWriter
  <2> SUFFICES ASSUME GateInv, NEW r1 \in Runs, NEW r2 \in Runs,
                      InEngine(r1), InEngine(r2), SessionOf[r1] = SessionOf[r2],
                      r1 # r2
               PROVE  FALSE
    BY DEF SingleWriter
  <2>1. CASE r1 \in holding /\ r2 \in holding
    BY <2>1 DEF GateInv, TokenInv, HasToken
  <2>2. CASE r1 \notin holding /\ r2 \notin holding
    BY <2>2 DEF GateInv, ReservedInv
  <2>3. CASE r1 \in holding /\ r2 \notin holding
    BY <2>3, NoneAssumption DEF GateInv, ReservedInv, Reserved
  <2>4. CASE r1 \notin holding /\ r2 \in holding
    BY <2>4, NoneAssumption DEF GateInv, ReservedInv, Reserved
  <2> QED
    BY <2>1, <2>2, <2>3, <2>4
<1> QED
  BY <1>1, GateCorrect, PTL

\* The release function is never nil when an approval event calls it.
THEOREM ReleaseIsSafe == Spec => []GateHeldAtApproval
<1>1. GateInv => GateHeldAtApproval
  BY DEF GateInv, PlaceInv, AsksApproval, GateHeldAtApproval
<1> QED
  BY <1>1, GateCorrect, PTL

-----------------------------------------------------------------------------
(* The end of a run is final.                                              *)

\* A step of a run only changes its own status, and not once it has ended.
LEMMA FinalRunStep ==
    ASSUME TypeOK, FinalInv, NEW r \in Runs, RunStep(r)
    PROVE  /\ FinalInv'
           /\ \A q \in Runs : status[q] \in Terminal => status'[q] = status[q]
<1>0. /\ arg[r] \in Args /\ Fits(pc[r], arg[r])
      /\ arg[r] \in Events => AfterEvent[arg[r]] \in {"engine", "wait3", "reserve", "release"}
  BY Tables DEF TypeOK, CodeType
<1>1. /\ \A q \in Runs \ {r} :
           status'[q] = status[q] /\ pc'[q] = pc[q] /\ arg'[q] = arg[q]
      /\ pc[r] \notin {"none", "done"}
      /\ ctl' = ctl
  BY RunAppends
     DEF TypeOK, DurableType, CodeType, durable, Goto, GotoWith, code, Save,
         SaveFails, SaveActive, GiveUpAcquire, AppendFailed, RunStep,
         WaitIfRunPaused, WaitLocations, AcquireLook, AcquireTake,
         AcquireRecheck, SetRunning, AppendCheck, Appends, EngineEmits,
         EngineReturns, Callback, SaveWaiting, Reserve, LetGo, AwaitDecision,
         Unreserve, SaveRunning, Returned, Complete, Finish, Release,
         UnpauseSession, Recover, ClearActive, appends
<1>2. \/ active' = active /\ cancelRequested' = cancelRequested
      \/ /\ active' = active \ {r} /\ cancelRequested' = cancelRequested \ {r}
         /\ pc'[r] = "done"
  BY RunAppends
     DEF TypeOK, CodeType, flags, Goto, RunStep, WaitIfRunPaused, AcquireLook,
         AcquireTake, AcquireRecheck, SetRunning, AppendCheck, Appends,
         EngineEmits, EngineReturns, Callback, SaveWaiting, Reserve, LetGo,
         AwaitDecision, Unreserve, SaveRunning, Returned, Complete, Finish,
         Release, UnpauseSession, Recover, ClearActive, appends
<1>3. status[r] \in Terminal => status'[r] = status[r]
  BY RunAppends
     DEF FinalInv, MayStillSave, Terminal, durable, Save, SaveFails,
         SaveActive, RunStep, WaitIfRunPaused, AcquireLook, AcquireTake,
         AcquireRecheck, SetRunning, AppendCheck, Appends, EngineEmits,
         EngineReturns, Callback, SaveWaiting, Reserve, LetGo, AwaitDecision,
         Unreserve, SaveRunning, Returned, Complete, Finish, Release,
         UnpauseSession, Recover, ClearActive, appends
<1>4. MayStillSave(r)' => MayStillSave(r)
  <2>1. CASE pc[r] \in {"append", "write"} /\ arg[r] \in Terminal
    <3>1. AppendCheck(r) \/ AppendWrite(r)
      BY <2>1, RunAppends
         DEF RunStep, WaitIfRunPaused, WaitLocations, AcquireLook, AcquireTake,
             AcquireRecheck, SetRunning, AppendCheck, Appends, EngineEmits,
             EngineReturns, Callback, SaveWaiting, Reserve, LetGo,
             AwaitDecision, Unreserve, SaveRunning, Returned, Complete, Finish,
             Release, UnpauseSession, Recover, ClearActive, appends
    <3>2. AfterEvent[arg[r]] = "release"
      BY <2>1, Tables DEF Events, CallEvents, Terminal
    <3> QED
      BY <2>1, <3>1, <3>2, RunAppends
         DEF TypeOK, CodeType, AppendCheck, Appends, AppendFailed, Goto,
             GotoWith, MayStillSave, Terminal, appends
  <2>2. CASE pc[r] \in {"finish", "release", "unpauseSession", "recover", "clear"}
    <3>1. \/ Finish(r) \/ Release(r) \/ UnpauseSession(r)
          \/ Recover(r) \/ ClearActive(r)
      BY <2>2, RunAppends
         DEF RunStep, WaitIfRunPaused, WaitLocations, AcquireLook, AcquireTake,
             AcquireRecheck, SetRunning, AppendCheck, Appends, EngineEmits,
             EngineReturns, Callback, SaveWaiting, Reserve, LetGo,
             AwaitDecision, Unreserve, SaveRunning, Returned, Complete, Finish,
             Release, UnpauseSession, Recover, ClearActive, appends
    <3> QED
      BY <1>0, <2>2, <3>1
         DEF TypeOK, CodeType, Fits, Finish, TerminalStatus, Terminal, Release,
             UnpauseSession, Recover, ClearActive, Goto, GotoWith, MayStillSave
  <2> QED
    BY <1>1, <2>1, <2>2 DEF MayStillSave
<1>5. status'[r] \in Terminal /\ MayStillSave(r)' => status[r] \in Terminal
  BY RunAppends
     DEF TypeOK, DurableType, CodeType, Terminal, MayStillSave, durable, Goto,
         GotoWith, Save, SaveFails, SaveActive, RunStep, WaitIfRunPaused,
         AcquireLook, AcquireTake, AcquireRecheck, SetRunning, AppendCheck,
         Appends, EngineEmits, EngineReturns, Callback, SaveWaiting, Reserve,
         LetGo, AwaitDecision, Unreserve, SaveRunning, Returned, Complete,
         Finish, TerminalStatus, Fits, Release, UnpauseSession, Recover,
         ClearActive, appends
<1> QED
  BY <1>1, <1>2, <1>3, <1>4, <1>5 DEF FinalInv, MayStillSave

\* Control operations only write the status of runs that have not ended.
LEMMA FinalControl ==
    ASSUME TypeOK, FinalInv, ControlOperation
    PROVE  /\ FinalInv'
           /\ \A q \in Runs : status[q] \in Terminal => status'[q] = status[q]
<1> USE DEF TypeOK, DurableType, FlagsType, CodeType, ControlType, FinalInv,
            MayStillSave, durable, flags, code, Idle, Goto, Save, SaveFails,
            Terminal, Open
<1>1. ASSUME NEW r \in Runs, StartRun(r)
      PROVE  FinalInv' /\ \A q \in Runs : status[q] \in Terminal => status'[q] = status[q]
  BY <1>1 DEF StartRun
<1>2. ASSUME NEW r \in Runs, CancelRun(r) \/ DecideRun(r)
      PROVE  FinalInv' /\ UNCHANGED status
  BY <1>2 DEF CancelRun, DecideRun
<1>3. ASSUME NEW r \in Runs, PauseRun(r) \/ ResumeRun(r)
      PROVE  FinalInv' /\ \A q \in Runs : status[q] \in Terminal => status'[q] = status[q]
  BY <1>3 DEF PauseRun, ResumeRun
<1>4. CASE CancelFlag \/ CancelStop
  BY <1>4 DEF CancelFlag, CancelStop, CtlStages
<1>5. CASE CancelSave
  BY <1>5 DEF CancelSave, CtlStages
<1>6. CASE ControlAppend \/ ControlWrite \/ CloseService
  BY <1>6, ControlAppends
     DEF ControlAppend, Appends, CloseService, CtlStages, appends
<1> QED
  BY <1>1, <1>2, <1>3, <1>4, <1>5, <1>6 DEF ControlOperation, ControlStep

\* A restart only writes the status of open runs.
LEMMA FinalCrash ==
    ASSUME TypeOK, CrashAndRestart
    PROVE  /\ FinalInv'
           /\ \A q \in Runs : status[q] \in Terminal => status'[q] = status[q]
BY DEF CrashAndRestart, FinalInv, MayStillSave, Interrupted, Idle, Open, Terminal

\* Every step keeps FinalInv, and what has ended.
LEMMA FinalNext ==
    TypeOK /\ FinalInv /\ [Next]_vars =>
      /\ FinalInv'
      /\ \A q \in Runs : status[q] \in Terminal => status'[q] = status[q]
<1> SUFFICES ASSUME TypeOK, FinalInv, [Next]_vars
             PROVE  /\ FinalInv'
                    /\ \A q \in Runs : status[q] \in Terminal => status'[q] = status[q]
  OBVIOUS
<1>1. CASE \E r \in Runs : RunStep(r)
  BY <1>1, FinalRunStep
<1>2. CASE ControlOperation
  BY <1>2, FinalControl
<1>3. CASE CrashAndRestart
  BY <1>3, FinalCrash
<1>4. CASE UNCHANGED vars
  BY <1>4 DEF vars, durable, flags, code, FinalInv, MayStillSave
<1> QED
  BY <1>1, <1>2, <1>3, <1>4 DEF Next, Quiet

LEMMA FinalInit == Init => FinalInv
BY DEF Init, FinalInv, MayStillSave, Idle, Terminal

\* No late callback, pause, resume, cancel, second outcome or restart changes
\* the status of a run that has ended.  The argument: executeRun writes without
\* reading only while a cancel is the only other way to end, and it looks for
\* that cancel in the critical section of the write.
THEOREM EndIsFinal == Spec => TerminalIsFinal
<1>1. ASSUME TypeOK, FinalInv, [Next]_vars
      PROVE  [\A r \in Runs : status[r] \in Terminal => status'[r] = status[r]]_vars
  BY <1>1, FinalNext
<1>2. Spec => []FinalInv
  BY FinalInit, FinalNext, TypeCorrect, PTL DEF Spec
<1> QED
  BY <1>1, <1>2, TypeCorrect, PTL DEF Spec, TerminalIsFinal

\* A recorded cancel names the outcome: whoever writes the terminal status of
\* the run, the cancel operation, executeRun with its result in hand or its
\* error path, writes "canceled".
THEOREM CanceledIfCancelRequested == Spec => CancelWins
<1>1. ASSUME TypeOK, [Next]_vars
      PROVE  [\A r \in Runs :
                /\ r \in cancelRequested /\ crashes' = crashes
                /\ status[r] \notin Terminal /\ status'[r] \in Terminal
                => status'[r] = "canceled"]_vars
  <2> SUFFICES ASSUME Next, crashes' = crashes, NEW r \in Runs,
                      r \in cancelRequested,
                      status[r] \notin Terminal, status'[r] \in Terminal
               PROVE  status'[r] = "canceled"
    BY <1>1
  <2>1. ASSUME NEW q \in Runs, RunStep(q) PROVE status'[r] = "canceled"
    BY <1>1, <2>1, RunAppends
       DEF TypeOK, DurableType, Terminal, durable, Save, SaveFails, SaveActive,
           TerminalStatus, RunStep, WaitIfRunPaused, AcquireLook, AcquireTake,
           AcquireRecheck, SetRunning, AppendCheck, Appends, EngineEmits,
           EngineReturns, Callback, SaveWaiting, Reserve, LetGo, AwaitDecision,
           Unreserve, SaveRunning, Returned, Complete, Finish, Release,
           UnpauseSession, Recover, ClearActive, appends
  <2>2. CASE ControlOperation
    BY <1>1, <2>2, ControlAppends
       DEF TypeOK, DurableType, ControlType, Terminal, Idle, durable, Save,
           SaveFails, ControlOperation, StartRun, CancelRun, PauseRun,
           ResumeRun, DecideRun, ControlStep, CancelFlag, CancelStop,
           CancelSave, ControlAppend, Appends, CloseService, appends
  <2>3. CASE CrashAndRestart
    BY <1>1, <2>3, BoundAssumption DEF CrashAndRestart, TypeOK, BoundsType
  <2>4. CASE UNCHANGED vars
    BY <2>4 DEF vars, durable
  <2> QED
    BY <2>1, <2>2, <2>3, <2>4 DEF Next, Quiet
<1> QED
  BY <1>1, TypeCorrect, PTL DEF Spec, CancelWins

-----------------------------------------------------------------------------
(* RunService implements RunLifecycle: what is durable about a run, its    *)
(* status and its event log, changes only as the abstract specification    *)
(* allows.                                                                 *)

-----------------------------------------------------------------------------
(* The inductive invariant: who is about to close a log, and when it is    *)
(* still open.                                                             *)

\* executeRun of r, or the control operation on r, is about to append the
\* terminal event of r.
RunCloses(r) == pc[r] \in {"append", "write"} /\ arg[r] \in Terminal
ControlCloses(r) ==
    ctl.stage \in {"append", "write"} /\ ctl.run = r /\ ctl.event \in Terminal

NoRecordInv ==
    \A r \in Runs : status[r] = "none" => r \notin active /\ ctl.run # r

QueuedInv ==
    \A r \in Runs : status[r] = "queued" =>
        ~InEngine(r) /\ ~(pc[r] \in {"append", "write"} /\ arg[r] = "started")

\* Whoever has passed the check of the status has eventMu, and the log is open.
WriterInv ==
    /\ \A r \in Runs : pc[r] = "write" => evLock = r /\ ~IsClosed(log[r])
    /\ ctl.stage = "write" => evLock = Control /\ ~IsClosed(log[ctl.run])

\* Only the one who wrote the terminal status closes the log.
CloserInv ==
    /\ \A r \in Runs : IsClosed(log[r]) => status[r] \in Terminal
    /\ \A r \in Runs : RunCloses(r) => status[r] = arg[r] /\ ~IsClosed(log[r])
    /\ \A r \in Runs : ControlCloses(r) =>
         status[r] = ctl.event /\ ~IsClosed(log[r]) /\ ~RunCloses(r)
    /\ ctl.stage \in {"flag", "stop", "save"} => ctl.event = "canceled"

LogInv == NoRecordInv /\ QueuedInv /\ WriterInv /\ CloserInv /\ TerminalEventLast

-----------------------------------------------------------------------------
(* Logs.                                                                   *)

\* No terminal event but the last, and that one names the status.
Shape(l, st) == \A i \in 1..Len(l) : l[i] \in Terminal => i = Len(l) /\ l[i] = st

\* An open log of the right shape stays so under progress, and a terminal
\* event closes it.
LEMMA LoggedShape ==
    ASSUME NEW l \in Seq(LogEntry), NEW e \in Args, NEW st,
           Shape(l, st), ~IsClosed(l)
    PROVE  /\ e \notin Terminal =>
                /\ Logged(l, e) \in {l, Append(l, "progress")}
                /\ ~IsClosed(Logged(l, e)) /\ \A s : Shape(Logged(l, e), s)
           /\ e \in Terminal =>
                /\ Logged(l, e) = Append(l, e)
                /\ IsClosed(Logged(l, e)) /\ Shape(Logged(l, e), e)
<1>1. \A i \in 1..Len(l) : l[i] \notin Terminal
  BY DEF Shape, IsClosed
<1>2. ASSUME NEW x \in LogEntry
      PROVE  /\ Len(Append(l, x)) = Len(l) + 1 /\ Len(l) \in Nat
             /\ Append(l, x)[Len(l) + 1] = x
             /\ \A i \in 1..Len(l) : Append(l, x)[i] = l[i]
             /\ Append(l, x) # <<>>
  OBVIOUS
<1>3. CASE e \in Terminal
  <2>1. e \in LogEntry /\ Logged(l, e) = Append(l, e)
    BY <1>3 DEF LogEntry, Logged
  <2>2. IsClosed(Append(l, e)) /\ Shape(Append(l, e), e)
    BY <1>1, <1>2, <1>3, <2>1 DEF IsClosed, Shape
  <2> QED
    BY <1>3, <2>1, <2>2
<1>4. CASE e \notin Terminal
  <2>1. "progress" \in LogEntry /\ "progress" \notin Terminal
    BY DEF LogEntry, Terminal
  <2>2. Logged(l, e) \in {l, Append(l, "progress")}
    BY <1>4 DEF Logged
  <2>3. \A s : Shape(l, s)
    BY <1>1 DEF Shape
  <2>4. ~IsClosed(Append(l, "progress")) /\ \A s : Shape(Append(l, "progress"), s)
    BY <1>1, <1>2, <2>1 DEF IsClosed, Shape
  <2> QED
    BY <1>4, <2>2, <2>3, <2>4
<1> QED
  BY <1>3, <1>4

\* LoggedShape, for the log of a run.
LEMMA LogOf ==
    ASSUME TypeOK, LogInv, NEW r \in Runs, NEW e \in Events, ~IsClosed(log[r])
    PROVE  /\ e \notin Terminal =>
                /\ Logged(log[r], e) \in {log[r], Append(log[r], "progress")}
                /\ ~IsClosed(Logged(log[r], e))
                /\ \A s : Shape(Logged(log[r], e), s)
           /\ e \in Terminal =>
                /\ Logged(log[r], e) = Append(log[r], e)
                /\ IsClosed(Logged(log[r], e))
                /\ Shape(Logged(log[r], e), e)
<1>1. log[r] \in Seq(LogEntry) /\ e \in Args
  BY DEF TypeOK, DurableType, Args
<1>2. Shape(log[r], status[r])
  BY DEF LogInv, TerminalEventLast, Shape
<1> QED
  BY <1>1, <1>2, LoggedShape

LEMMA LogInit == Init => LogInv
<1> SUFFICES ASSUME Init PROVE LogInv
  OBVIOUS
<1>1. NoRecordInv /\ QueuedInv
  BY NoneAssumption DEF Init, NoRecordInv, QueuedInv, Idle
<1>2. WriterInv /\ CloserInv
  BY NoneAssumption DEF Init, WriterInv, CloserInv, RunCloses, ControlCloses,
                        IsClosed, Idle
<1>3. TerminalEventLast
  BY DEF Init, TerminalEventLast
<1> QED
  BY <1>1, <1>2, <1>3 DEF LogInv

-----------------------------------------------------------------------------
(* The steps of a run.                                                     *)

\* What a step of r leaves alone, and what an action other than AppendWrite
\* leaves alone besides.
LEMMA RunFrame ==
    ASSUME TypeOK, NEW r \in Runs, RunStep(r)
    PROVE  /\ \A q \in Runs \ {r} :
                /\ status'[q] = status[q] /\ log'[q] = log[q]
                /\ pc'[q] = pc[q] /\ arg'[q] = arg[q]
           /\ ctl' = ctl /\ active' \subseteq active
           /\ ~AppendWrite(r) => log' = log
           /\ ~AppendWrite(r) /\ ~AppendCheck(r) =>
                evLock' = evLock /\ pc[r] \notin {"append", "write"} /\ pc'[r] # "write"
<1>1. /\ \A q \in Runs \ {r} :
           /\ status'[q] = status[q] /\ log'[q] = log[q]
           /\ pc'[q] = pc[q] /\ arg'[q] = arg[q]
      /\ ctl' = ctl /\ active' \subseteq active
  BY RunAppends
     DEF TypeOK, DurableType, FlagsType, CodeType, durable, flags, Goto,
         GotoWith, code, Save, SaveFails, SaveActive, GiveUpAcquire,
         AppendFailed, RunStep, WaitIfRunPaused, WaitLocations, AcquireLook,
         AcquireTake, AcquireRecheck, SetRunning, AppendCheck, Appends,
         EngineEmits, EngineReturns, Callback, SaveWaiting, Reserve, LetGo,
         AwaitDecision, Unreserve, SaveRunning, Returned, Complete, Finish,
         Release, UnpauseSession, Recover, ClearActive, appends
<1>2. ~AppendWrite(r) => log' = log
  BY DEF durable, RunStep, WaitIfRunPaused, WaitLocations, AcquireLook,
         AcquireTake, AcquireRecheck, SetRunning, AppendCheck, 
         EngineEmits, EngineReturns, Callback, SaveWaiting, Reserve, LetGo,
         AwaitDecision, Unreserve, SaveRunning, Returned, Complete, Finish,
         Release, UnpauseSession, Recover, ClearActive
<1>3. ~AppendWrite(r) /\ ~AppendCheck(r) =>
        evLock' = evLock /\ pc[r] \notin {"append", "write"} /\ pc'[r] # "write"
  BY Tables
     DEF TypeOK, CodeType, Fits, CallEvents, Goto, GotoWith, SaveActive,
         GiveUpAcquire, RunStep, WaitIfRunPaused, WaitLocations, AcquireLook,
         AcquireTake, AcquireRecheck, SetRunning, 
         EngineEmits, EngineReturns, Callback, SaveWaiting, Reserve, LetGo,
         AwaitDecision, Unreserve, SaveRunning, Returned, Complete, Finish,
         Release, UnpauseSession, Recover, ClearActive, appends
<1> QED
  BY <1>1, <1>2, <1>3

\* Steps of a run that do not touch the log: the status moves as RunLifecycle
\* allows, and a terminal status comes with the duty to append its event.
LEMMA StatusStep ==
    ASSUME TypeOK, BornInv, FinalInv, LogInv, NEW r \in Runs, RunStep(r)
    PROVE  /\ status[r] \in Terminal => status'[r] = status[r]
           /\ status'[r] # status[r] =>
                /\ status[r] \in Open
                /\ \/ status'[r] \in Terminal /\ RunCloses(r)' /\ arg'[r] = status'[r]
                   \/ status'[r] \in Lifecycle!Moves[status[r]]
           /\ RunCloses(r)' => \/ RunCloses(r) /\ arg'[r] = arg[r]
                               \/ status'[r] # status[r] /\ arg'[r] = status'[r]
<1>1. status[r] \in Terminal => status'[r] = status[r]
  BY FinalRunStep
<1>2. status'[r] # status[r] =>
        \/ status'[r] \in Terminal /\ RunCloses(r)' /\ arg'[r] = status'[r]
        \/ pc[r] \in {"setRunning", "saveRunning"} /\ status'[r] = "running"
        \/ pc[r] = "saveWaiting" /\ status'[r] = "waiting_approval"
  BY RunAppends
     DEF TypeOK, DurableType, CodeType, Fits, Terminal, durable, Save,
         SaveFails, SaveActive, TerminalStatus, RunCloses, GotoWith, RunStep,
         WaitIfRunPaused, WaitLocations, AcquireLook, AcquireTake,
         AcquireRecheck, SetRunning, AppendCheck, Appends, EngineEmits,
         EngineReturns, Callback, SaveWaiting, Reserve, LetGo, AwaitDecision,
         Unreserve, SaveRunning, Returned, Complete, Finish, Release,
         UnpauseSession, Recover, ClearActive, appends
<1>3. status'[r] # status[r] => status[r] \in Open
  <2>1. pc[r] # "none"
    BY RunAppends
       DEF RunStep, WaitIfRunPaused, WaitLocations, AcquireLook, AcquireTake,
           AcquireRecheck, SetRunning, AppendCheck, Appends, EngineEmits,
           EngineReturns, Callback, SaveWaiting, Reserve, LetGo, AwaitDecision,
           Unreserve, SaveRunning, Returned, Complete, Finish, Release,
           UnpauseSession, Recover, ClearActive, appends
  <2> QED
    BY <1>1, <2>1 DEF BornInv, TypeOK, DurableType, Status
<1>4. pc[r] = "saveWaiting" => status[r] # "queued"
  BY DEF LogInv, QueuedInv, InEngine, EngineLocations
<1>5. \A st \in Open :
        /\ st # "running" => "running" \in Lifecycle!Moves[st]
        /\ st \notin {"queued", "waiting_approval"} =>
             "waiting_approval" \in Lifecycle!Moves[st]
  BY DEF Open, Lifecycle!Moves
<1>6. RunCloses(r)' => \/ RunCloses(r) /\ arg'[r] = arg[r]
                       \/ status'[r] # status[r] /\ arg'[r] = status'[r]
  BY Tables, RunAppends
     DEF TypeOK, DurableType, CodeType, Fits, FinalInv, MayStillSave, Terminal,
         CallEvents, durable, Save, SaveFails, SaveActive, TerminalStatus,
         AppendFailed, GiveUpAcquire, RunCloses, Goto, GotoWith, RunStep,
         WaitIfRunPaused, WaitLocations, AcquireLook, AcquireTake,
         AcquireRecheck, SetRunning, AppendCheck, Appends, EngineEmits,
         EngineReturns, Callback, SaveWaiting, Reserve, LetGo, AwaitDecision,
         Unreserve, SaveRunning, Returned, Complete, Finish, Release,
         UnpauseSession, Recover, ClearActive, appends
<1>7. status'[r] # status[r] /\ status'[r] \notin Terminal =>
        status'[r] \in Lifecycle!Moves[status[r]]
  BY <1>2, <1>3, <1>4, <1>5
<1> QED
  BY <1>1, <1>2, <1>3, <1>6, <1>7 DEF Terminal

\* AppendWrite appends the event in hand to an open log, or nothing.
LEMMA LogWriteStep ==
    ASSUME TypeOK, LogInv, NEW r \in Runs, RunStep(r), AppendWrite(r)
    PROVE  WriterInv' /\ CloserInv' /\ TerminalEventLast'
<1>1. /\ pc[r] = "write" /\ arg[r] \in Events /\ evLock' = None
      /\ evLock = r /\ ~IsClosed(log[r])
      /\ status' = status
  BY DEF TypeOK, CodeType, Fits, LogInv, WriterInv, AppendWrite
<1>2. pc'[r] \notin {"append", "write"}
  BY <1>1, Tables DEF TypeOK, CodeType, AppendWrite, AppendFailed, Goto, GotoWith
<1>3. log'[r] = log[r] \/ log'[r] = Logged(log[r], arg[r])
  BY RunAppends DEF TypeOK, DurableType, Appends
<1>4. /\ IsClosed(log'[r]) => RunCloses(r)
      /\ Shape(log'[r], status[r])
  <2>1. Shape(log[r], status[r])
    BY DEF LogInv, TerminalEventLast, Shape
  <2>2. arg[r] \in Terminal => RunCloses(r) /\ status[r] = arg[r]
    BY <1>1 DEF RunCloses, LogInv, CloserInv
  <2> QED
    BY <1>1, <1>3, <2>1, <2>2, LogOf
<1>5. WriterInv'
  BY <1>1, <1>2, RunFrame, NoneAssumption, ControlAssumption
     DEF LogInv, WriterInv, TypeOK, ControlType, Control, Idle
<1>6. CloserInv'
  BY <1>1, <1>2, <1>4, RunFrame DEF LogInv, CloserInv, RunCloses, ControlCloses
<1>7. TerminalEventLast'
  BY <1>1, <1>4, RunFrame DEF LogInv, TerminalEventLast, Shape
<1> QED
  BY <1>5, <1>6, <1>7

\* AppendCheck takes eventMu for an event of a run whose log is open.
LEMMA LogCheckStep ==
    ASSUME TypeOK, BornInv, FinalInv, LogInv, NEW r \in Runs, RunStep(r), AppendCheck(r)
    PROVE  WriterInv' /\ CloserInv' /\ TerminalEventLast'
<1>1. log' = log /\ status' = status
  BY DEF AppendCheck, durable
<1>2. pc'[r] = "write" => ~IsClosed(log[r]) /\ evLock' = r
  BY Tables
     DEF TypeOK, CodeType, AppendCheck, AppendFailed, Goto, GotoWith, Refused,
         RunCloses, LogInv, CloserInv
<1>3. evLock = None /\ (pc'[r] # "write" => evLock' = evLock)
  BY DEF TypeOK, CodeType, AppendCheck, Goto
<1>4. WriterInv'
  BY <1>1, <1>2, <1>3, RunFrame, NoneAssumption, ControlAssumption
     DEF LogInv, WriterInv, Control
<1>5. CloserInv'
  BY <1>1, RunFrame, StatusStep DEF LogInv, CloserInv, RunCloses, ControlCloses
<1>6. TerminalEventLast'
  BY <1>1 DEF LogInv, TerminalEventLast
<1> QED
  BY <1>4, <1>5, <1>6

\* As long as the logs and the statuses of ended runs stay, the terminal events
\* stay right.
LEMMA LastKept ==
    ASSUME LogInv, log' = log,
           \A q \in Runs : status[q] \in Terminal => status'[q] = status[q]
    PROVE  TerminalEventLast'
<1>1. ASSUME NEW q \in Runs, NEW i \in 1..Len(log[q]), log[q][i] \in Terminal
      PROVE  i = Len(log[q]) /\ log[q][i] = status'[q]
  <2>1. i = Len(log[q]) /\ log[q][i] = status[q]
    BY <1>1 DEF LogInv, TerminalEventLast
  <2> QED
    BY <1>1, <2>1
<1> QED
  BY <1>1 DEF TerminalEventLast

\* The other steps of a run leave the logs alone.
LEMMA LogOtherStep ==
    ASSUME TypeOK, BornInv, FinalInv, LogInv, NEW r \in Runs, RunStep(r),
           ~AppendCheck(r), ~AppendWrite(r)
    PROVE  WriterInv' /\ CloserInv' /\ TerminalEventLast'
<1>1. log' = log /\ evLock' = evLock /\ ctl' = ctl /\ pc'[r] # "write"
  BY RunFrame
<1>2. WriterInv'
  BY <1>1, RunFrame DEF LogInv, WriterInv
<1>3. \A q \in Runs : status[q] \in Terminal => status'[q] = status[q]
  BY RunFrame, StatusStep
<1>4. status'[r] # status[r] => status[r] \notin Terminal
  BY <1>3
<1>5. CloserInv'
  <2>1. \A q \in Runs : IsClosed(log'[q]) => status'[q] \in Terminal
    BY <1>1, <1>3 DEF LogInv, CloserInv
  <2>2. \A q \in Runs : RunCloses(q)' => status'[q] = arg'[q] /\ ~IsClosed(log'[q])
    BY <1>1, <1>3, <1>4, RunFrame, StatusStep DEF LogInv, CloserInv, RunCloses
  <2>3. \A q \in Runs : ControlCloses(q)' =>
          status'[q] = ctl'.event /\ ~IsClosed(log'[q]) /\ ~RunCloses(q)'
    BY <1>1, <1>3, <1>4, RunFrame, StatusStep
       DEF LogInv, CloserInv, RunCloses, ControlCloses
  <2> QED
    BY <1>1, <2>1, <2>2, <2>3 DEF LogInv, CloserInv
<1>6. TerminalEventLast'
  BY <1>1, <1>3, LastKept
<1> QED
  BY <1>2, <1>5, <1>6

\* The steps of one run keep the invariant.
LEMMA LogRunStep ==
    ASSUME TypeOK, BornInv, FinalInv, LogInv, NEW r \in Runs, RunStep(r)
    PROVE  LogInv'
<1>1. status'[r] # status[r] => status'[r] \notin {"none", "queued"}
  BY StatusStep DEF Terminal, Open, Lifecycle!Moves
<1>2. NoRecordInv'
  BY <1>1, RunFrame DEF LogInv, NoRecordInv
<1>3. QueuedInv'
  <2>1. status[r] = "queued" /\ status'[r] = "queued" =>
          /\ ~InEngine(r)'
          /\ ~(pc'[r] \in {"append", "write"} /\ arg'[r] = "started")
    <3>1. ASSUME status[r] = "queued", pc[r] \in {"append", "write"}
          PROVE  /\ arg[r] \notin {"started", "output", "approval_required",
                                 "approval_resolved"}
                 /\ AfterEvent[arg[r]] = "release"
      BY <3>1, Tables
         DEF LogInv, QueuedInv, InEngine, CallEvents, TypeOK, CodeType, Fits
    <3>2. ASSUME status[r] = "queued", status'[r] = "queued",
                 AppendCheck(r) \/ AppendWrite(r)
          PROVE  pc'[r] \in {"release", "finish"} \/ (pc'[r] = "write" /\ arg'[r] = arg[r])
      BY <3>1, <3>2, RunAppends
         DEF TypeOK, CodeType, AppendCheck, Appends, AppendFailed, Goto,
             GotoWith, appends
    <3>3. ASSUME status[r] = "queued", ~AppendCheck(r), ~AppendWrite(r),
                 pc[r] \notin {"setRunning", "complete", "finish"}
          PROVE  \/ pc'[r] \in {"wait2", "wait4", "setRunning", "complete", "finish",
                                "release", "unpauseSession", "recover", "clear", "done"}
                 \/ pc'[r] \in {"look", "take", "recheck"} /\ arg'[r] = "begin"
      BY <3>3, RunFrame, Tables
         DEF LogInv, QueuedInv, InEngine, EngineLocations, TypeOK, CodeType,
             Fits, Goto, GotoWith, GiveUpAcquire, RunStep, WaitIfRunPaused,
             WaitLocations, AcquireLook, AcquireTake, AcquireRecheck,
             SetRunning, EngineEmits, EngineReturns, Callback, SaveWaiting,
             Reserve, LetGo, AwaitDecision, Unreserve, SaveRunning, Returned,
             Complete, Finish, Release, UnpauseSession, Recover, ClearActive
    <3>4. ASSUME status[r] = "queued", status'[r] = "queued",
                 pc[r] \in {"setRunning", "complete", "finish"}
          PROVE  pc'[r] \in {"finish", "release"}
      BY <3>4, RunAppends
         DEF TypeOK, DurableType, CodeType, Fits, Terminal, Save,
             TerminalStatus, Goto, GotoWith, RunStep, WaitIfRunPaused,
             WaitLocations, AcquireLook, AcquireTake, AcquireRecheck,
             SetRunning, AppendCheck, Appends, EngineEmits, EngineReturns,
             Callback, SaveWaiting, Reserve, LetGo, AwaitDecision, Unreserve,
             SaveRunning, Returned, Complete, Finish, Release, UnpauseSession,
             Recover, ClearActive, appends
    <3>5. AppendCheck(r) \/ AppendWrite(r) => pc[r] \in {"append", "write"}
      BY RunAppends
         DEF AppendCheck, Appends, appends
    <3> QED
      BY <3>1, <3>2, <3>3, <3>4, <3>5
         DEF InEngine, EngineLocations, CallEvents
  <2> QED
    BY <1>1, <2>1, RunFrame DEF LogInv, QueuedInv, InEngine
<1> QED
  BY <1>2, <1>3, LogWriteStep, LogCheckStep, LogOtherStep DEF LogInv

-----------------------------------------------------------------------------
(* The control operations, crashes, and the invariant.                     *)

\* ControlWrite appends the event of the operation to an open log, or nothing.
LEMMA LogControlWrite ==
    ASSUME TypeOK, LogInv, ControlWrite
    PROVE  LogInv'
<1>1. /\ ctl.run \in Runs /\ ctl.event \in Events /\ ctl' = Idle
      /\ evLock = Control /\ evLock' = None /\ ~IsClosed(log[ctl.run])
      /\ UNCHANGED <<status, active, pc, arg>>
  BY DEF TypeOK, ControlType, Idle, LogInv, WriterInv, ControlWrite, flags, code
<1>2. \/ log' = log
      \/ log' = [log EXCEPT ![ctl.run] = Logged(@, ctl.event)]
  BY ControlAppends DEF Appends
<1>3. /\ \A q \in Runs \ {ctl.run} : log'[q] = log[q]
      /\ IsClosed(log'[ctl.run]) => ControlCloses(ctl.run)
      /\ Shape(log'[ctl.run], status[ctl.run])
  <2>1. Shape(log[ctl.run], status[ctl.run])
    BY <1>1 DEF LogInv, TerminalEventLast, Shape
  <2>2. ctl.event \in Terminal =>
          ControlCloses(ctl.run) /\ status[ctl.run] = ctl.event
    BY <1>1 DEF ControlCloses, LogInv, CloserInv, ControlWrite
  <2>3. \/ log'[ctl.run] = log[ctl.run]
        \/ log'[ctl.run] = Logged(log[ctl.run], ctl.event)
    BY <1>1, <1>2 DEF TypeOK, DurableType
  <2>4. \A q \in Runs \ {ctl.run} : log'[q] = log[q]
    BY <1>1, <1>2 DEF TypeOK, DurableType
  <2> QED
    BY <1>1, <2>1, <2>2, <2>3, <2>4, LogOf
<1>4. NoRecordInv' /\ QueuedInv'
  BY <1>1, NoneAssumption DEF LogInv, NoRecordInv, QueuedInv, InEngine, Idle
<1>5. WriterInv'
  BY <1>1, ControlAssumption DEF LogInv, WriterInv, Control, Idle
<1>6. CloserInv'
  BY <1>1, <1>3 DEF LogInv, CloserInv, RunCloses, ControlCloses, Idle
<1>7. TerminalEventLast'
  <2>1. \A q \in Runs : Shape(log'[q], status[q])
    BY <1>3 DEF LogInv, TerminalEventLast, Shape
  <2> QED
    BY <1>1, <2>1 DEF TerminalEventLast, Shape
<1> QED
  BY <1>4, <1>5, <1>6, <1>7 DEF LogInv

\* The other control operations only write statuses.
LEMMA LogControl ==
    ASSUME TypeOK, BornInv, FinalInv, LogInv, ControlOperation, ~ControlWrite
    PROVE  LogInv'
<1>0. log' = log
  BY DEF durable, ControlOperation, StartRun, CancelRun, PauseRun, ResumeRun,
         DecideRun, ControlStep, CancelFlag, CancelStop, CancelSave,
         ControlAppend, CloseService
<1>last. TerminalEventLast'
  BY <1>0, FinalControl, LastKept
<1>open. \A q \in Runs : status[q] \notin Terminal => ~IsClosed(log[q]) /\ ~RunCloses(q)
  BY DEF LogInv, CloserInv, RunCloses
<1>final. \A q \in Runs : status[q] \in Terminal => status'[q] = status[q]
  BY FinalControl
<1> USE NoneAssumption, ControlAssumption
    DEF TypeOK, DurableType, FlagsType, CodeType, ControlType, LogInv,
        NoRecordInv, QueuedInv, WriterInv, CloserInv, RunCloses, ControlCloses,
        Idle, CtlStages, Terminal, Open, durable, flags, code, Save, SaveFails,
        Goto, InEngine, EngineLocations, appends
<1>1. ASSUME NEW r \in Runs, StartRun(r) PROVE LogInv'
  <2>1. UNCHANGED <<ctl, evLock, arg>>
    BY <1>1 DEF StartRun
  <2>2. \A q \in Runs \ {r} : status'[q] = status[q] /\ pc'[q] = pc[q]
    BY <1>1 DEF StartRun
  <2>3. \/ UNCHANGED <<status, active, pc>>
        \/ status'[r] = "queued" /\ pc'[r] = "wait1" /\ r \in active'
    BY <1>1 DEF StartRun
  <2>4. status[r] = "none" /\ active' \subseteq active \cup {r}
    BY <1>1 DEF StartRun
  <2>5. pc[r] \notin {"append", "write"}
    BY <2>4 DEF BornInv
  <2>6. NoRecordInv'
    BY <2>1, <2>2, <2>3, <2>4
  <2>7. QueuedInv'
    BY <2>1, <2>2, <2>3
  <2>8. WriterInv'
    BY <1>0, <2>1, <2>2, <2>3, <2>5
  <2>9. CloserInv'
    <3>1. \A q \in Runs \ {r} : UNCHANGED <<status[q], pc[q], arg[q], log[q], ctl>>
      BY <1>0, <2>1, <2>2
    <3>2. UNCHANGED <<status[r], pc[r], arg[r], log[r], ctl>>
          \/ (status'[r] \notin Terminal /\ pc'[r] \notin {"append", "write"})
      BY <1>0, <2>1, <2>3
    <3> QED
      BY <1>0, <2>1, <2>2, <2>3, <2>4, <3>1, <3>2
  <2> QED
    BY <1>last, <2>6, <2>7, <2>8, <2>9
<1>2. ASSUME NEW r \in Runs, CancelRun(r) \/ DecideRun(r) PROVE LogInv'
  BY <1>0, <1>last, <1>2 DEF CancelRun, DecideRun
<1>3. ASSUME NEW r \in Runs, PauseRun(r) \/ ResumeRun(r) PROVE LogInv'
  <2>1. NoRecordInv' /\ QueuedInv' /\ WriterInv'
    BY <1>0, <1>3 DEF PauseRun, ResumeRun
  <2>2. CloserInv'
    <3>1. /\ UNCHANGED <<pc, arg>>
          /\ ctl' = ctl \/ ctl'.event \notin Terminal
          /\ ctl.stage = "idle" /\ ctl'.stage \in {"idle", "append"}
      BY <1>3 DEF PauseRun, ResumeRun
    <3> HIDE DEF Terminal, TypeOK
    <3> QED
      BY <1>0, <1>final, <3>1
  <2> QED
    BY <1>last, <2>1, <2>2
<1>4. CASE CancelFlag \/ CancelStop \/ CloseService
  BY <1>0, <1>last, <1>4 DEF CancelFlag, CancelStop, CloseService
<1>5. CASE CancelSave
  <2>1. NoRecordInv' /\ QueuedInv' /\ WriterInv'
    BY <1>0, <1>5 DEF CancelSave
  <2>2. CloserInv'
    <3>1. /\ UNCHANGED <<pc, arg>>
          /\ ctl.run \in Runs /\ ctl.event = "canceled"
          /\ \/ ctl' = Idle
             \/ /\ status[ctl.run] \notin Terminal /\ status'[ctl.run] = "canceled"
                /\ ctl' = [ctl EXCEPT !.stage = "append"]
                /\ ctl'.run = ctl.run /\ ctl'.event = "canceled" /\ ctl'.stage = "append"
      BY <1>5 DEF CancelSave
    <3> HIDE DEF Terminal, TypeOK, RunCloses
    <3>2. \A q \in Runs : RunCloses(q)' <=> RunCloses(q)
      BY <3>1 DEF RunCloses
    <3> QED
      BY <1>0, <1>open, <1>final, <3>1, <3>2
  <2> QED
    BY <1>last, <2>1, <2>2
<1>6. CASE ControlAppend
  BY <1>0, <1>last, <1>6 DEF ControlAppend, Refused, Control
<1> QED
  BY <1>1, <1>2, <1>3, <1>4, <1>5, <1>6 DEF ControlOperation, ControlStep

\* A restart closes open logs with the status it leaves.
LEMMA LogCrash ==
    ASSUME TypeOK, LogInv, CrashAndRestart
    PROVE  LogInv'
<1>1. \A r \in Runs :
        /\ pc'[r] \in {"none", "done"} /\ arg'[r] = "none"
        /\ status'[r] = Interrupted(r)
        /\ \/ log'[r] = log[r]
           \/ /\ log'[r] = Logged(log[r], Interrupted(r))
              /\ Interrupted(r) \in Terminal /\ ~IsClosed(log[r])
  BY DEF CrashAndRestart
<1>2. active' = {} /\ ctl' = Idle
  BY DEF CrashAndRestart
<1>3. \A r \in Runs : status[r] \in Terminal => Interrupted(r) = status[r]
  BY DEF Interrupted, Terminal, Open
<1>4. \A r \in Runs : /\ IsClosed(log'[r]) => status'[r] \in Terminal
                    /\ Shape(log'[r], status'[r])
  <2> SUFFICES ASSUME NEW r \in Runs
               PROVE  /\ IsClosed(log'[r]) => status'[r] \in Terminal
                      /\ Shape(log'[r], status'[r])
    OBVIOUS
  <2>1. CASE log'[r] = log[r]
    <3>1. Shape(log[r], status[r]) /\ (IsClosed(log[r]) => status[r] \in Terminal)
      BY DEF LogInv, CloserInv, TerminalEventLast, Shape
    <3>2. IsClosed(log[r]) \/ \A i \in 1..Len(log[r]) : log[r][i] \notin Terminal
      BY <3>1 DEF Shape, IsClosed
    <3> QED
      BY <1>1, <1>3, <2>1, <3>1, <3>2 DEF Shape
  <2>2. CASE /\ log'[r] = Logged(log[r], Interrupted(r))
             /\ Interrupted(r) \in Terminal /\ ~IsClosed(log[r])
    BY <1>1, <2>2, LogOf DEF Events
  <2> QED
    BY <1>1, <2>1, <2>2
<1>5. NoRecordInv' /\ QueuedInv'
  BY <1>1, <1>2, NoneAssumption
     DEF NoRecordInv, QueuedInv, Idle, InEngine, EngineLocations
<1>6. WriterInv' /\ CloserInv'
  BY <1>1, <1>2, <1>4 DEF WriterInv, CloserInv, RunCloses, ControlCloses, Idle
<1>7. TerminalEventLast'
  BY <1>4 DEF TerminalEventLast, Shape
<1> QED
  BY <1>5, <1>6, <1>7 DEF LogInv

\* Every step keeps the invariant.
LEMMA LogNext ==
    TypeOK /\ BornInv /\ FinalInv /\ LogInv /\ [Next]_vars => LogInv'
<1> SUFFICES ASSUME TypeOK, BornInv, FinalInv, LogInv, [Next]_vars PROVE LogInv'
  OBVIOUS
<1>1. CASE \E r \in Runs : RunStep(r)
  BY <1>1, LogRunStep
<1>2. CASE ControlOperation
  BY <1>2, LogControl, LogControlWrite
<1>3. CASE CrashAndRestart
  BY <1>3, LogCrash
<1>4. CASE UNCHANGED vars
  BY <1>4 DEF vars, durable, flags, code, appends, LogInv, NoRecordInv, QueuedInv,
              InEngine, WriterInv, CloserInv, RunCloses, ControlCloses,
              TerminalEventLast
<1> QED
  BY <1>1, <1>2, <1>3, <1>4 DEF Next, Quiet

LEMMA LogCorrect == Spec => [](TypeOK /\ BornInv /\ FinalInv /\ LogInv)
<1>1. Spec => []FinalInv
  BY FinalInit, FinalNext, TypeCorrect, PTL DEF Spec
<1> QED
  BY <1>1, LogInit, LogNext, GateCorrect, TypeCorrect, PTL DEF Spec

\* A run's log has at most one terminal event, the last one, and it names the
\* run's durable status: executeRun, the cancel operation and the restart never
\* both write one, and no progress follows it.  The argument: only the writer
\* of the terminal status appends it, and every append holds eventMu since it
\* looked at the status.
THEOREM LogEndsOnce == Spec => []TerminalEventLast
BY LogCorrect, PTL DEF LogInv

-----------------------------------------------------------------------------
(* The refinement.                                                         *)

\* A function that differs in one place.
LEMMA OnePlace ==
    ASSUME NEW S, NEW T, NEW f \in [S -> T], NEW g \in [S -> T], NEW x \in S,
           \A y \in S \ {x} : g[y] = f[y]
    PROVE  g = [f EXCEPT ![x] = g[x]]
OBVIOUS

LEMMA LifecycleInit == Init => Lifecycle!Init
BY DEF Init, Lifecycle!Init

\* A step of a run is one of RunLifecycle, or changes nothing durable.
LEMMA LifecycleRunStep ==
    ASSUME TypeOK, BornInv, FinalInv, LogInv, NEW r \in Runs, RunStep(r)
    PROVE  Lifecycle!Next \/ UNCHANGED Lifecycle!view
<1>0. /\ status \in [Runs -> Status] /\ status' \in [Runs -> Status]
      /\ log \in [Runs -> Seq(LogEntry)] /\ log' \in [Runs -> Seq(LogEntry)]
  BY TypeRunStep DEF TypeOK, DurableType
<1>1. CASE AppendWrite(r)
  <2>1. /\ pc[r] = "write" /\ arg[r] \in Events /\ ~IsClosed(log[r])
        /\ status' = status /\ status[r] # "none"
        /\ \/ log' = log
           \/ log' = [log EXCEPT ![r] = Logged(log[r], arg[r])]
    BY <1>1, RunAppends DEF Appends, TypeOK, CodeType, Fits, LogInv, WriterInv, BornInv
  <2>2. CASE log' = log
    BY <2>1, <2>2 DEF Lifecycle!view
  <2>3. CASE /\ log' = [log EXCEPT ![r] = Logged(log[r], arg[r])]
             /\ arg[r] \in Terminal
    <3>1. status[r] = arg[r]
      BY <2>1, <2>3 DEF LogInv, CloserInv, RunCloses
    <3>2. Logged(log[r], arg[r]) = Append(log[r], status[r])
      BY <2>1, <2>3, <3>1, LogOf
    <3>3. Lifecycle!CloseLog(r)
      BY <2>1, <2>3, <3>1, <3>2
         DEF Lifecycle!CloseLog, Lifecycle!HasEnded, Lifecycle!LogClosed,
             Lifecycle!Ended, Terminal, IsClosed
    <3> QED
      BY <3>3 DEF Lifecycle!Next
  <2>4. CASE /\ log' = [log EXCEPT ![r] = Logged(log[r], arg[r])]
             /\ arg[r] \notin Terminal
    <3>1. CASE Logged(log[r], arg[r]) = log[r]
      BY <1>0, <2>1, <2>4, <3>1 DEF Lifecycle!view
    <3>2. CASE Logged(log[r], arg[r]) = Append(log[r], "progress")
      <4>1. Lifecycle!Report(r)
        BY <2>1, <2>4, <3>2
           DEF Lifecycle!Report, Lifecycle!LogClosed, Lifecycle!Ended, Terminal,
               IsClosed
      <4> QED
        BY <4>1 DEF Lifecycle!Next
    <3> QED
      BY <2>1, <2>4, <3>1, <3>2, LogOf
  <2> QED
    BY <2>1, <2>2, <2>3, <2>4
<1>2. CASE ~AppendWrite(r)
  <2>1. log' = log /\ status' = [status EXCEPT ![r] = status'[r]]
    BY <1>0, <1>2, RunFrame, OnePlace
  <2>2. CASE status'[r] = status[r]
    BY <1>0, <2>1, <2>2 DEF Lifecycle!view
  <2>3. CASE status'[r] # status[r] /\ status'[r] \in Terminal
    <3>1. status[r] \in DOMAIN Lifecycle!Moves /\ status'[r] \in Lifecycle!Ended
      BY <2>3, StatusStep DEF Lifecycle!Moves, Lifecycle!Ended, Terminal, Open
    <3>2. Lifecycle!End(r)
      BY <2>1, <3>1 DEF Lifecycle!End
    <3> QED
      BY <3>2 DEF Lifecycle!Next
  <2>4. CASE status'[r] # status[r] /\ status'[r] \notin Terminal
    <3>1. status[r] \in DOMAIN Lifecycle!Moves
      BY <2>4, StatusStep DEF Lifecycle!Moves, Open
    <3>2. Lifecycle!Move(r)
      BY <2>1, <2>4, <3>1, StatusStep DEF Lifecycle!Move
    <3> QED
      BY <3>2 DEF Lifecycle!Next
  <2> QED
    BY <2>2, <2>3, <2>4
<1> QED
  BY <1>1, <1>2

\* So is a control operation.
LEMMA LifecycleControl ==
    ASSUME TypeOK, BornInv, FinalInv, LogInv, ControlOperation
    PROVE  Lifecycle!Next \/ UNCHANGED Lifecycle!view
<1>0. /\ status \in [Runs -> Status] /\ status' \in [Runs -> Status]
      /\ log \in [Runs -> Seq(LogEntry)] /\ log' \in [Runs -> Seq(LogEntry)]
  BY TypeControl DEF TypeOK, DurableType
<1>1. CASE ControlWrite
  <2>1. /\ ctl.run \in Runs /\ ctl.event \in Events /\ ~IsClosed(log[ctl.run])
        /\ status' = status /\ status[ctl.run] # "none"
        /\ \/ log' = log
           \/ log' = [log EXCEPT ![ctl.run] = Logged(log[ctl.run], ctl.event)]
    BY <1>1, ControlAppends
       DEF Appends, TypeOK, ControlType, Idle, LogInv, WriterInv, NoRecordInv
  <2>2. CASE log' = log
    BY <2>1, <2>2 DEF Lifecycle!view
  <2>3. CASE /\ log' = [log EXCEPT ![ctl.run] = Logged(log[ctl.run], ctl.event)]
             /\ ctl.event \in Terminal
    <3>1. status[ctl.run] = ctl.event
      BY <1>1, <2>1, <2>3 DEF LogInv, CloserInv, ControlCloses, ControlWrite
    <3>2. Logged(log[ctl.run], ctl.event) = Append(log[ctl.run], status[ctl.run])
      BY <2>1, <2>3, <3>1, LogOf
    <3>3. Lifecycle!CloseLog(ctl.run)
      BY <2>1, <2>3, <3>1, <3>2
         DEF Lifecycle!CloseLog, Lifecycle!HasEnded, Lifecycle!LogClosed,
             Lifecycle!Ended, Terminal, IsClosed
    <3> QED
      BY <2>1, <3>3 DEF Lifecycle!Next
  <2>4. CASE /\ log' = [log EXCEPT ![ctl.run] = Logged(log[ctl.run], ctl.event)]
             /\ ctl.event \notin Terminal
    <3>1. CASE Logged(log[ctl.run], ctl.event) = log[ctl.run]
      BY <1>0, <2>1, <2>4, <3>1 DEF Lifecycle!view
    <3>2. CASE Logged(log[ctl.run], ctl.event) = Append(log[ctl.run], "progress")
      <4>1. Lifecycle!Report(ctl.run)
        BY <2>1, <2>4, <3>2
           DEF Lifecycle!Report, Lifecycle!LogClosed, Lifecycle!Ended, Terminal,
               IsClosed
      <4> QED
        BY <2>1, <4>1 DEF Lifecycle!Next
    <3> QED
      BY <2>1, <2>4, <3>1, <3>2, LogOf
  <2> QED
    BY <2>1, <2>2, <2>3, <2>4
<1>2. CASE ~ControlWrite
  <2>1. log' = log
    BY <1>2 DEF durable, ControlOperation, StartRun, CancelRun, PauseRun,
                ResumeRun, DecideRun, ControlStep, CancelFlag, CancelStop,
                CancelSave, ControlAppend, CloseService
  <2>2. \/ status' = status
        \/ \E r \in Runs :
             \/ status[r] = "none" /\ status' = [status EXCEPT ![r] = "queued"]
             \/ /\ status[r] \in Open
                /\ status' = [status EXCEPT ![r] = "canceled"]
             \/ /\ status[r] \in Open \ {"waiting_approval"}
                /\ status' = [status EXCEPT ![r] = "paused"]
             \/ status[r] = "paused" /\ status' = [status EXCEPT ![r] = "running"]
    BY <1>0, <1>2
       DEF TypeOK, ControlType, Idle, LogInv, NoRecordInv, Status, durable,
           Save, SaveFails, ControlOperation, StartRun, CancelRun, PauseRun,
           ResumeRun, DecideRun, ControlStep, CancelFlag, CancelStop,
           CancelSave, ControlAppend, CloseService
  <2>3. CASE status' = status
    BY <2>1, <2>3 DEF Lifecycle!view
  <2>4. ASSUME NEW r \in Runs, status[r] = "none",
               status' = [status EXCEPT ![r] = "queued"]
        PROVE  Lifecycle!Next
    BY <2>1, <2>4 DEF Lifecycle!Create, Lifecycle!Next
  <2>5. ASSUME NEW r \in Runs, status[r] \in Open,
               status' = [status EXCEPT ![r] = "canceled"]
        PROVE  Lifecycle!Next
    <3>1. status[r] \in DOMAIN Lifecycle!Moves /\ "canceled" \in Lifecycle!Ended
      BY <2>5 DEF Lifecycle!Moves, Lifecycle!Ended, Open
    <3> QED
      BY <2>1, <2>5, <3>1 DEF Lifecycle!End, Lifecycle!Next
  <2>6. ASSUME NEW r \in Runs, status[r] \in Open \ {"waiting_approval"},
               status' = [status EXCEPT ![r] = "paused"], status' # status
        PROVE  Lifecycle!Next
    <3>1. status[r] \in DOMAIN Lifecycle!Moves /\ "paused" \in Lifecycle!Moves[status[r]]
      BY <1>0, <2>6 DEF Lifecycle!Moves, Open
    <3> QED
      BY <2>1, <2>6, <3>1 DEF Lifecycle!Move, Lifecycle!Next
  <2>7. ASSUME NEW r \in Runs, status[r] = "paused",
               status' = [status EXCEPT ![r] = "running"]
        PROVE  Lifecycle!Next
    <3>1. status[r] \in DOMAIN Lifecycle!Moves /\ "running" \in Lifecycle!Moves[status[r]]
      BY <2>7 DEF Lifecycle!Moves
    <3> QED
      BY <2>1, <2>7, <3>1 DEF Lifecycle!Move, Lifecycle!Next
  <2> QED
    BY <2>2, <2>3, <2>4, <2>5, <2>6, <2>7
<1> QED
  BY <1>1, <1>2

\* A crash and restart is the Restart of RunLifecycle.
LEMMA LifecycleCrash ==
    ASSUME TypeOK, LogInv, CrashAndRestart
    PROVE  Lifecycle!Next
<1>1. PICK missed \in SUBSET {r \in Runs : Interrupted(r) \in Terminal /\ ~IsClosed(log[r])} :
        log' = [r \in Runs |->
                  IF r \in {q \in Runs : Interrupted(q) \in Terminal /\ ~IsClosed(log[q])} \ missed
                  THEN Logged(log[r], Interrupted(r)) ELSE log[r]]
  BY DEF CrashAndRestart
<1> DEFINE closing ==
      {q \in Runs : Interrupted(q) \in Terminal /\ ~IsClosed(log[q])} \ missed
<1>2. /\ status' = [r \in Runs |-> Interrupted(r)]
      /\ \A r \in Runs : status'[r] = Interrupted(r)
  BY DEF CrashAndRestart
<1>3. \A r \in Runs :
        Interrupted(r) = IF status[r] \in DOMAIN Lifecycle!Moves THEN "failed" ELSE status[r]
  BY DEF Interrupted, Lifecycle!Moves, Open
<1>4. status' = [r \in Runs |-> IF status[r] \in DOMAIN Lifecycle!Moves
                                 THEN "failed" ELSE status[r]]
  BY <1>2, <1>3
<1>5. closing \in SUBSET {r \in Runs : status'[r] \in Lifecycle!Ended /\ ~Lifecycle!LogClosed(r)}
  BY <1>2 DEF Lifecycle!Ended, Lifecycle!LogClosed, Terminal, IsClosed
<1>6. \A r \in closing : Logged(log[r], Interrupted(r)) = Append(log[r], status'[r])
  BY <1>2, LogOf DEF Events
<1>7. log' = [r \in Runs |-> IF r \in closing THEN Append(log[r], status'[r]) ELSE log[r]]
  BY <1>1, <1>6
<1>8. Lifecycle!Restart
  BY <1>4, <1>5, <1>7 DEF Lifecycle!Restart
<1> QED
  BY <1>8 DEF Lifecycle!Next

\* RunService implements RunLifecycle: whatever the locks, flags, faults and
\* crashes, a client only sees a run be created, move among its open statuses
\* as the table allows, end once, and have its log closed once.
THEOREM Refinement == Spec => LifecycleSpec
<1>1. TypeOK /\ BornInv /\ FinalInv /\ LogInv /\ [Next]_vars
        => [Lifecycle!Next]_Lifecycle!view
  <2> SUFFICES ASSUME TypeOK, BornInv, FinalInv, LogInv, [Next]_vars
               PROVE  Lifecycle!Next \/ UNCHANGED Lifecycle!view
    OBVIOUS
  <2>1. CASE \E r \in Runs : RunStep(r)
    BY <2>1, LifecycleRunStep
  <2>2. CASE ControlOperation
    BY <2>2, LifecycleControl
  <2>3. CASE CrashAndRestart
    BY <2>3, LifecycleCrash
  <2>4. CASE UNCHANGED vars
    BY <2>4 DEF vars, durable, Lifecycle!view
  <2> QED
    BY <2>1, <2>2, <2>3, <2>4 DEF Next, Quiet
<1> QED
  BY <1>1, LifecycleInit, LogCorrect, PTL DEF Spec, LifecycleSpec, Lifecycle!Spec

-----------------------------------------------------------------------------
(* A goroutine that is gone has left its record.                           *)

\* A cancel of r was announced, and is about to be recorded.
CancelComing(r) == ctl.run = r /\ ctl.stage \in {"stop", "save"}

\* executeRun of r has nothing to record any more.
PastRecord(r) ==
    \/ pc[r] \in {"clear", "done"}
    \/ pc[r] \in {"release", "unpauseSession"} /\ arg[r] # "panic"

\* Until a storage fault: whoever saved the terminal status still has the event
\* to append, and can, because the numbers of the log are known.
EndingInv ==
    \A r \in Runs :
        /\ status[r] \in Terminal => IsClosed(log[r]) \/ RunCloses(r) \/ ControlCloses(r)
        /\ PastRecord(r) => status[r] \in Terminal \/ CancelComing(r)
        /\ r \in cancelRequested => status[r] \in Terminal \/ CancelComing(r)
        /\ sequence[r] # "behind"
        /\ sequence[r] = "none" => log[r] = <<>> \/ pc[r] \in {"none", "done"}
        /\ status[r] = "none" => log[r] = <<>>
        /\ pc[r] \in {"append", "write"} => arg[r] \notin {"paused", "resumed"}

EndedInv == faults = 0 => EndingInv

LEMMA EndedInit == Init => EndedInv
BY DEF Init, EndedInv, EndingInv, Terminal, PastRecord, CancelComing

\* Without a fault no append is refused to the one who is to close the log, and
\* none is out of order.
LEMMA AppendCan ==
    ASSUME TypeOK, LogInv, EndingInv, NEW r \in Runs
    PROVE  /\ RunCloses(r) => ~Refused(r, arg[r])
           /\ pc[r] \in {"append", "write"} => InOrder(r, FALSE)
           /\ ctl.run = r => InOrder(r, TRUE)
<1>1. RunCloses(r) => ~Refused(r, arg[r])
  BY DEF LogInv, CloserInv, Refused
<1>2. sequence[r] \in {"none", "exact"}
  BY DEF TypeOK, ControlType, EndingInv
<1>3. pc[r] \in {"append", "write"} => InOrder(r, FALSE)
  BY <1>2 DEF EndingInv, InOrder
<1>4. InOrder(r, TRUE)
  BY <1>2 DEF InOrder
<1> QED
  BY <1>1, <1>3, <1>4

\* Steps of a run other than its appends.
LEMMA EndedOtherStep ==
    ASSUME TypeOK, BornInv, FinalInv, LogInv, EndingInv, faults = 0, faults' = 0,
           NEW r \in Runs, RunStep(r), ~AppendWrite(r), ~AppendCheck(r)
    PROVE  EndingInv'
<1>1. /\ \A q \in Runs \ {r} : status'[q] = status[q] /\ pc'[q] = pc[q] /\ arg'[q] = arg[q]
      /\ ctl' = ctl /\ log' = log
      /\ pc[r] \notin {"append", "write"} /\ pc'[r] # "write"
  BY RunFrame
<1>2. /\ status[r] \in Terminal => status'[r] = status[r]
      /\ status'[r] # status[r] /\ status'[r] \in Terminal => RunCloses(r)'
  <2>1. \A st \in Open : \A to \in Lifecycle!Moves[st] : to \notin Terminal
    BY DEF Lifecycle!Moves, Terminal, Open
  <2> QED
    BY <2>1, StatusStep
<1>3. sequence' = sequence /\ cancelRequested' \subseteq cancelRequested
  BY DEF RunStep, flags, appends, WaitIfRunPaused, AcquireLook, AcquireTake, AcquireRecheck,
         SetRunning, EngineEmits, EngineReturns, Callback, SaveWaiting, Reserve, LetGo,
         AwaitDecision, Unreserve, SaveRunning, Returned, Complete, Finish, Release,
         UnpauseSession, Recover, ClearActive
<1>4. /\ pc[r] \notin {"none", "done"} /\ status[r] # "none" /\ status'[r] # "none"
      /\ PastRecord(r)' => status'[r] \in Terminal \/ CancelComing(r)
  <2>1. pc[r] \notin {"none", "done"}
    BY DEF RunStep, WaitIfRunPaused, WaitLocations, AcquireLook, AcquireTake, AcquireRecheck,
           SetRunning, EngineEmits, EngineReturns, Callback, SaveWaiting, Reserve, LetGo,
           AwaitDecision, Unreserve, SaveRunning, Returned, Complete, Finish, Release,
           UnpauseSession, Recover, ClearActive
  <2>2. status[r] # "none"
    BY <2>1 DEF BornInv
  <2>3. status'[r] # "none"
    BY <2>2, StatusStep DEF Lifecycle!Moves, Open, Terminal
  <2>4. PastRecord(r)' =>
          \/ PastRecord(r)
          \/ pc[r] = "setRunning" /\ r \in cancelRequested
          \/ pc[r] \in {"finish", "recover"} /\ status[r] \in Terminal
    BY Tables
       DEF TypeOK, CodeType, Fits, CallEvents, PastRecord, Goto, GotoWith, SaveActive, SaveFails,
           GiveUpAcquire, RunStep, WaitIfRunPaused, WaitLocations, AcquireLook, AcquireTake,
           AcquireRecheck, SetRunning, EngineEmits, EngineReturns, Callback, SaveWaiting,
           Reserve, LetGo, AwaitDecision, Unreserve, SaveRunning, Returned, Complete, Finish,
           Release, UnpauseSession, Recover, ClearActive, Locations
  <2>5. PastRecord(r)' => status[r] \in Terminal \/ CancelComing(r)
    BY <2>4 DEF EndingInv
  <2> QED
    BY <1>2, <2>1, <2>2, <2>3, <2>5
<1>5. ASSUME NEW q \in Runs
      PROVE  /\ (status[q] \in Terminal => IsClosed(log[q]) \/ RunCloses(q) \/ ControlCloses(q))'
             /\ (PastRecord(q) => status[q] \in Terminal \/ CancelComing(q))'
             /\ (q \in cancelRequested => status[q] \in Terminal \/ CancelComing(q))'
             /\ (sequence[q] # "behind")'
             /\ (sequence[q] = "none" => log[q] = <<>> \/ pc[q] \in {"none", "done"})'
             /\ (status[q] = "none" => log[q] = <<>>)'
             /\ (pc[q] \in {"append", "write"} => arg[q] \notin {"paused", "resumed"})'
  <2>1. CASE q = r
    <3>1. (status[r] \in Terminal => IsClosed(log[r]) \/ RunCloses(r) \/ ControlCloses(r))'
      <4>1. ~RunCloses(r)
        BY <1>1 DEF RunCloses
      <4> QED
        BY <1>1, <1>2, <4>1 DEF EndingInv, ControlCloses
    <3>2. (PastRecord(r) => status[r] \in Terminal \/ CancelComing(r))'
      BY <1>1, <1>4 DEF CancelComing
    <3>3. (r \in cancelRequested => status[r] \in Terminal \/ CancelComing(r))'
      BY <1>1, <1>2, <1>3 DEF EndingInv, CancelComing
    <3>4. (sequence[r] = "none" => log[r] = <<>> \/ pc[r] \in {"none", "done"})'
      BY <1>1, <1>3, <1>4 DEF EndingInv
    <3>5. pc'[r] \in {"append", "write"} => arg'[r] \notin {"paused", "resumed"}
      BY Tables
         DEF TypeOK, CodeType, Fits, CallEvents, Goto, GotoWith, SaveActive, TerminalStatus,
             GiveUpAcquire, RunStep, WaitIfRunPaused, WaitLocations, AcquireLook, AcquireTake,
             AcquireRecheck, SetRunning, EngineEmits, EngineReturns, Callback, SaveWaiting,
             Reserve, LetGo, AwaitDecision, Unreserve, SaveRunning, Returned, Complete, Finish,
             Release, UnpauseSession, Recover, ClearActive, Terminal
    <3> QED
      BY <1>3, <1>4, <2>1, <3>1, <3>2, <3>3, <3>4, <3>5 DEF EndingInv
  <2>2. CASE q # r
    BY <1>1, <1>3, <2>2 DEF EndingInv, RunCloses, ControlCloses, PastRecord, CancelComing
  <2> QED
    BY <2>1, <2>2
<1> QED
  BY <1>5 DEF EndingInv

\* The check before an append, and the append.
LEMMA EndedAppendStep ==
    ASSUME TypeOK, BornInv, FinalInv, LogInv, EndingInv, faults = 0, faults' = 0,
           NEW r \in Runs, AppendCheck(r) \/ AppendWrite(r)
    PROVE  EndingInv'
<1>0. RunStep(r) /\ pc[r] \in {"append", "write"} /\ arg[r] \in Events
  BY DEF RunStep, AppendCheck, AppendWrite, TypeOK, CodeType, Fits
<1>1. /\ \A q \in Runs \ {r} : /\ status'[q] = status[q] /\ log'[q] = log[q]
                               /\ pc'[q] = pc[q] /\ arg'[q] = arg[q]
      /\ ctl' = ctl /\ status' = status /\ cancelRequested' = cancelRequested
      /\ pc'[r] \notin {"none", "done", "clear", "unpauseSession"} /\ status[r] # "none"
  <2>1. status' = status /\ cancelRequested' = cancelRequested
    BY DEF AppendCheck, AppendWrite, durable, flags
  <2>2. pc'[r] \notin {"none", "done", "clear", "unpauseSession"}
    BY <1>0, Tables DEF AppendCheck, AppendWrite, AppendFailed, Goto, GotoWith, TypeOK, CodeType,
                Events, CallEvents
  <2>3. status[r] # "none"
    BY <1>0 DEF BornInv
  <2> QED
    BY <1>0, <2>1, <2>2, <2>3, RunFrame
<1>2. CASE AppendCheck(r)
  <2>1. sequence' = sequence /\ log' = log
    BY <1>2 DEF AppendCheck, durable
  <2>2. RunCloses(r) => RunCloses(r)'
    <3>1. RunCloses(r) => ~Refused(r, arg[r])
      BY AppendCan
    <3>2. ~Refused(r, arg[r]) => pc'[r] = "write" /\ arg' = arg
      BY <1>2 DEF AppendCheck, Goto, TypeOK, CodeType
    <3> QED
      BY <3>1, <3>2 DEF RunCloses
  <2>3. PastRecord(r)' => status[r] \in Terminal
    <3>1. pc'[r] = "release" => Refused(r, arg[r])
      BY <1>2 DEF AppendCheck, Goto, TypeOK, CodeType
    <3> QED
      BY <1>1, <3>1 DEF PastRecord, Refused
  <2>5. pc'[r] \in {"append", "write"} => arg'[r] \notin {"paused", "resumed"}
    BY <1>0, <1>2, Tables DEF AppendCheck, AppendFailed, Goto, GotoWith, TypeOK, CodeType, EndingInv
  <2>4. ASSUME NEW q \in Runs
        PROVE  /\ (status[q] \in Terminal => IsClosed(log[q]) \/ RunCloses(q) \/ ControlCloses(q))'
               /\ (PastRecord(q) => status[q] \in Terminal \/ CancelComing(q))'
               /\ (q \in cancelRequested => status[q] \in Terminal \/ CancelComing(q))'
               /\ (sequence[q] = "none" => log[q] = <<>> \/ pc[q] \in {"none", "done"})'
               /\ (pc[q] \in {"append", "write"} => arg[q] \notin {"paused", "resumed"})'
    <3>1. CASE q = r
      BY <1>0, <2>5, <1>1, <2>1, <2>2, <2>3, <3>1 DEF EndingInv, ControlCloses, CancelComing
    <3>2. CASE q # r
      BY <1>1, <2>1, <3>2 DEF EndingInv, RunCloses, ControlCloses, PastRecord, CancelComing
    <3> QED
      BY <3>1, <3>2
  <2> QED
    BY <1>1, <2>1, <2>4 DEF EndingInv
<1>3. CASE AppendWrite(r)
  <2>1. pc[r] = "write" /\ InOrder(r, FALSE) /\ ~IsClosed(log[r])
    BY <1>0, <1>3, AppendCan DEF AppendWrite, LogInv, WriterInv
  <2>2. Acknowledged(r, arg[r]) /\ Goto(r, AfterEvent[arg[r]])
    <3>1. ~NotAcknowledged(r, arg[r])
      BY DEF NotAcknowledged
    <3> QED
      BY <1>3, <2>1, <3>1 DEF AppendWrite
  <2>3. /\ log'[r] = Logged(log[r], arg[r]) /\ sequence' = [sequence EXCEPT ![r] = "exact"]
        /\ pc'[r] = AfterEvent[arg[r]] /\ arg' = arg
    BY <2>2 DEF Acknowledged, Goto, TypeOK, DurableType, CodeType
  <2>4. sequence'[r] = "exact" /\ \A q \in Runs \ {r} : sequence'[q] = sequence[q]
    BY <2>3 DEF TypeOK, ControlType
  <2>5. arg[r] \in Terminal => IsClosed(log'[r]) /\ status[r] \in Terminal
    <3>1. arg[r] \in Terminal => status[r] = arg[r]
      BY <1>0 DEF LogInv, CloserInv, RunCloses
    <3> QED
      BY <1>0, <2>1, <2>3, <3>1, LogOf
  <2>6. PastRecord(r)' => status[r] \in Terminal \/ CancelComing(r)
    <3>1. CASE arg[r] \in {"paused", "resumed"}
      BY <1>0, <3>1 DEF EndingInv
    <3>2. CASE arg[r] \notin {"paused", "resumed"} \cup Terminal
      BY <1>0, <2>3, <3>2, Tables DEF PastRecord, Events, CallEvents
    <3>3. CASE arg[r] \in Terminal
      BY <2>5, <3>3
    <3> QED
      BY <3>1, <3>2, <3>3
  <2>7. ASSUME NEW q \in Runs
        PROVE  /\ (status[q] \in Terminal => IsClosed(log[q]) \/ RunCloses(q) \/ ControlCloses(q))'
               /\ (PastRecord(q) => status[q] \in Terminal \/ CancelComing(q))'
               /\ (q \in cancelRequested => status[q] \in Terminal \/ CancelComing(q))'
               /\ (sequence[q] # "behind")'
               /\ (sequence[q] = "none" => log[q] = <<>> \/ pc[q] \in {"none", "done"})'
               /\ (status[q] = "none" => log[q] = <<>>)'
               /\ (pc[q] \in {"append", "write"} => arg[q] \notin {"paused", "resumed"})'
    <3>1. CASE q = r
      <4>0. pc'[r] \notin {"append", "write"}
        BY <1>0, <2>3, Tables DEF Events, CallEvents, EndingInv
      <4>1. status[r] \in Terminal /\ arg[r] \notin Terminal => ControlCloses(r)
        BY <2>1 DEF EndingInv, RunCloses
      <4>2. status[r] \in Terminal => IsClosed(log'[r]) \/ ControlCloses(r)
        BY <2>5, <4>1
      <4> QED
        BY <1>1, <2>4, <2>6, <3>1, <4>0, <4>2 DEF EndingInv, ControlCloses, CancelComing
    <3>2. CASE q # r
      BY <1>1, <2>4, <3>2 DEF EndingInv, RunCloses, ControlCloses, PastRecord, CancelComing
    <3> QED
      BY <3>1, <3>2
  <2> QED
    BY <2>7 DEF EndingInv
<1> QED
  BY <1>2, <1>3

\* The control operations.
LEMMA EndedControl ==
    ASSUME TypeOK, BornInv, LogInv, EndingInv, faults = 0, faults' = 0, ControlOperation
    PROVE  EndingInv'
<1>0. /\ status \in [Runs -> Status] /\ log \in [Runs -> Seq(LogEntry)]
      /\ sequence \in [Runs -> {"none", "exact", "behind"}]
      /\ pc \in [Runs -> Locations] /\ arg \in [Runs -> Args]
      /\ cancelRequested \subseteq active
      /\ ctl.stage \in CtlStages => ctl.run \in Runs /\ ctl.event \in Events
      /\ Idle.stage = "idle" /\ Idle.run = None
      /\ ~SaveFails
  BY DEF TypeOK, DurableType, FlagsType, CodeType, ControlType, CtlStages, Idle, SaveFails
<1>1. ASSUME NEW r \in Runs, StartRun(r) PROVE EndingInv'
  <2>1. /\ status[r] = "none" /\ status' = [status EXCEPT ![r] = "queued"]
        /\ pc' = [pc EXCEPT ![r] = "wait1"]
        /\ UNCHANGED <<arg, log, cancelRequested, ctl, sequence>>
    BY <1>0, <1>1 DEF StartRun, Save, Goto, appends
  <2>2. r \notin cancelRequested /\ log[r] = <<>>
    BY <1>0, <2>1 DEF LogInv, NoRecordInv, EndingInv
  <2> QED
    BY <1>0, <2>1, <2>2
       DEF EndingInv, PastRecord, CancelComing, RunCloses, ControlCloses, Terminal
<1>2. ASSUME NEW r \in Runs, CancelRun(r) PROVE EndingInv'
  BY <1>0, <1>2 DEF CancelRun, durable, flags, code, appends, EndingInv, PastRecord, CancelComing,
     RunCloses, ControlCloses
<1>3. CASE CancelFlag
  <2>1. /\ ctl.stage = "flag" /\ ctl' = [ctl EXCEPT !.stage = "stop"]
        /\ cancelRequested' = cancelRequested \cup ({ctl.run} \cap active)
        /\ UNCHANGED <<status, log, pc, arg, sequence>>
    BY <1>3 DEF CancelFlag, durable, code, appends
  <2>2. ctl'.stage = "stop" /\ ctl'.run = ctl.run /\ ctl.run \in Runs
    BY <1>0, <2>1 DEF TypeOK, ControlType, Idle, CtlStages
  <2> QED
    BY <2>1, <2>2 DEF EndingInv, PastRecord, CancelComing, RunCloses, ControlCloses
<1>4. CASE CancelStop
  <2>1. /\ ctl.stage = "stop" /\ ctl' = [ctl EXCEPT !.stage = "save"]
        /\ UNCHANGED <<status, log, pc, arg, sequence, cancelRequested>>
    BY <1>4 DEF CancelStop, durable, code, appends
  <2>2. ctl'.stage = "save" /\ ctl'.run = ctl.run /\ ctl.run \in Runs
    BY <1>0, <2>1 DEF TypeOK, ControlType, Idle, CtlStages
  <2> QED
    BY <2>1, <2>2 DEF EndingInv, PastRecord, CancelComing, RunCloses, ControlCloses
<1>5. CASE CancelSave
  <2>1. /\ ctl.stage = "save" /\ ctl.run \in Runs /\ ctl.event = "canceled"
        /\ UNCHANGED <<log, pc, arg, sequence, cancelRequested>>
    BY <1>0, <1>5 DEF CancelSave, flags, code, appends, CtlStages, LogInv, CloserInv
  <2>2. CASE status[ctl.run] \in Terminal /\ ctl' = Idle /\ status' = status
    BY <1>0, <2>1, <2>2 DEF EndingInv, PastRecord, CancelComing, RunCloses, ControlCloses
  <2>3. CASE /\ status' = [status EXCEPT ![ctl.run] = "canceled"]
             /\ ctl' = [ctl EXCEPT !.stage = "append"]
    <3>1. ctl'.stage = "append" /\ ctl'.run = ctl.run /\ ctl'.event = "canceled"
      BY <2>1, <2>3 DEF TypeOK, ControlType, Idle, CtlStages
    <3>2. /\ \A q \in Runs : status'[q] = IF q = ctl.run THEN "canceled" ELSE status[q]
          /\ "canceled" \in Terminal
      BY <1>0, <2>3 DEF Terminal
    <3>3. ASSUME NEW q \in Runs
          PROVE  /\ (status[q] \in Terminal => IsClosed(log[q]) \/ RunCloses(q) \/ ControlCloses(q))'
                 /\ (PastRecord(q) => status[q] \in Terminal \/ CancelComing(q))'
                 /\ (q \in cancelRequested => status[q] \in Terminal \/ CancelComing(q))'
                 /\ (status[q] = "none" => log[q] = <<>>)'
      <4>1. CASE q = ctl.run
        BY <2>1, <3>1, <3>2, <4>1 DEF ControlCloses
      <4>2. CASE q # ctl.run
        BY <2>1, <3>1, <3>2, <4>2
           DEF EndingInv, PastRecord, CancelComing, RunCloses, ControlCloses
      <4> QED
        BY <4>1, <4>2
    <3> QED
      BY <2>1, <3>3 DEF EndingInv
  <2> QED
    BY <1>0, <1>5, <2>2, <2>3 DEF CancelSave, Save
<1>6. ASSUME NEW r \in Runs, PauseRun(r) \/ ResumeRun(r) PROVE EndingInv'
  <2>1. /\ ctl = Idle /\ status[r] \in Open
        /\ \E st \in Open : status' = [status EXCEPT ![r] = st]
        /\ ctl'.stage = "append" /\ ctl'.run = r /\ ctl'.event \notin Terminal
        /\ UNCHANGED <<log, pc, arg, sequence, cancelRequested>>
    BY <1>0, <1>6 DEF PauseRun, ResumeRun, Save, code, appends, Open, Terminal
  <2>2. \A st \in Open : st \notin Terminal /\ st # "none"
    BY DEF Open, Terminal
  <2>3. /\ ~PastRecord(r) /\ r \notin cancelRequested /\ \A q \in Runs : ~CancelComing(q)
    BY <1>0, <2>1, <2>2 DEF EndingInv, CancelComing
  <2>4. ASSUME NEW q \in Runs
        PROVE  /\ (status[q] \in Terminal => IsClosed(log[q]) \/ RunCloses(q) \/ ControlCloses(q))'
               /\ (PastRecord(q) => status[q] \in Terminal \/ CancelComing(q))'
               /\ (q \in cancelRequested => status[q] \in Terminal \/ CancelComing(q))'
               /\ (status[q] = "none" => log[q] = <<>>)'
    <3>1. CASE q = r
      BY <1>0, <2>1, <2>2, <2>3, <3>1 DEF PastRecord
    <3>2. CASE q # r
      <4>1. status'[q] = status[q] /\ ~ControlCloses(q)
        BY <1>0, <2>1, <3>2 DEF ControlCloses
      <4> QED
        BY <2>1, <2>3, <4>1 DEF EndingInv, PastRecord, CancelComing, RunCloses
    <3> QED
      BY <3>1, <3>2
  <2> QED
    BY <2>1, <2>4 DEF EndingInv
<1>7. CASE ControlAppend
  <2>1. /\ ctl.stage = "append" /\ ctl.run \in Runs
        /\ UNCHANGED <<status, log, pc, arg, sequence, cancelRequested>>
    BY <1>0, <1>7 DEF ControlAppend, durable, flags, code, CtlStages
  <2>2. CASE Refused(ctl.run, ctl.event) /\ ctl' = Idle
    <3>1. \A q \in Runs : ~ControlCloses(q)
      BY <2>2 DEF LogInv, CloserInv, ControlCloses, Refused
    <3> QED
      BY <1>0, <2>1, <2>2, <3>1 DEF EndingInv, PastRecord, CancelComing, RunCloses
  <2>3. CASE ctl' = [ctl EXCEPT !.stage = "write"]
    <3>1. ctl'.stage = "write" /\ ctl'.run = ctl.run /\ ctl'.event = ctl.event
      BY <2>1, <2>3 DEF TypeOK, ControlType, Idle, CtlStages
    <3> QED
      BY <2>1, <3>1 DEF EndingInv, PastRecord, CancelComing, RunCloses, ControlCloses
  <2> QED
    BY <1>7, <2>2, <2>3 DEF ControlAppend
<1>8. CASE ControlWrite
  <2>1. /\ ctl.stage = "write" /\ ctl.run \in Runs /\ ctl.event \in Events /\ ctl' = Idle
        /\ UNCHANGED <<status, pc, arg, cancelRequested>> /\ ~IsClosed(log[ctl.run])
    BY <1>0, <1>8 DEF ControlWrite, flags, code, CtlStages, LogInv, WriterInv
  <2>2. Acknowledged(ctl.run, ctl.event)
    <3>1. ~NotAcknowledged(ctl.run, ctl.event)
      BY DEF NotAcknowledged
    <3>2. InOrder(ctl.run, TRUE)
      BY <2>1, AppendCan
    <3> QED
      BY <1>8, <3>1, <3>2 DEF ControlWrite
  <2>3. /\ \A q \in Runs \ {ctl.run} : log'[q] = log[q] /\ sequence'[q] = sequence[q]
        /\ log'[ctl.run] = Logged(log[ctl.run], ctl.event) /\ sequence'[ctl.run] = "exact"
    BY <1>0, <2>1, <2>2 DEF Acknowledged
  <2>4. ctl.event \in Terminal => IsClosed(log'[ctl.run])
    BY <2>1, <2>3, LogOf
  <2>5. status[ctl.run] # "none"
    BY <2>1 DEF LogInv, NoRecordInv
  <2>6. ASSUME NEW q \in Runs
        PROVE  /\ (status[q] \in Terminal => IsClosed(log[q]) \/ RunCloses(q) \/ ControlCloses(q))'
               /\ (PastRecord(q) => status[q] \in Terminal \/ CancelComing(q))'
               /\ (q \in cancelRequested => status[q] \in Terminal \/ CancelComing(q))'
               /\ (sequence[q] # "behind")'
               /\ (sequence[q] = "none" => log[q] = <<>> \/ pc[q] \in {"none", "done"})'
               /\ (status[q] = "none" => log[q] = <<>>)'
    <3>1. CASE q = ctl.run
      <4>1. status[q] \in Terminal /\ ctl.event \notin Terminal => RunCloses(q)
        BY <2>1, <3>1 DEF EndingInv, ControlCloses
      <4> QED
        BY <2>1, <2>3, <2>4, <2>5, <3>1, <4>1 DEF EndingInv, RunCloses, PastRecord, CancelComing
    <3>2. CASE q # ctl.run
      BY <2>1, <2>3, <3>2 DEF EndingInv, RunCloses, ControlCloses, PastRecord, CancelComing
    <3> QED
      BY <3>1, <3>2
  <2> QED
    BY <2>1, <2>6 DEF EndingInv
<1>9. CASE CloseService \/ \E r \in Runs : DecideRun(r)
  BY <1>9 DEF CloseService, DecideRun, durable, flags, code, appends, EndingInv, PastRecord,
     CancelComing, RunCloses, ControlCloses
<1> QED
  BY <1>1, <1>2, <1>3, <1>4, <1>5, <1>6, <1>7, <1>8, <1>9 DEF ControlOperation, ControlStep

\* A restart that can write ends and closes what a crash left open.
LEMMA EndedCrash ==
    ASSUME TypeOK, LogInv, EndingInv, faults = 0, faults' = 0, CrashAndRestart
    PROVE  EndingInv'
<1>1. /\ status' = [r \in Runs |-> Interrupted(r)] /\ cancelRequested' = {} /\ ctl' = Idle
      /\ pc' = [r \in Runs |-> IF status[r] = "none" THEN "none" ELSE "done"]
      /\ arg' = [r \in Runs |-> "none"] /\ sequence' = [r \in Runs |-> "none"]
  BY DEF CrashAndRestart
<1>2. \A r \in Runs : log'[r] = IF Interrupted(r) \in Terminal /\ ~IsClosed(log[r])
                                THEN Logged(log[r], Interrupted(r)) ELSE log[r]
  BY DEF CrashAndRestart
<1>3. \A r \in Runs : /\ status[r] = "none" => Interrupted(r) = "none"
                      /\ status[r] # "none" => Interrupted(r) \in Terminal
  BY DEF Interrupted, TypeOK, DurableType, Status, Open, Terminal
<1>4. \A r \in Runs : Interrupted(r) \in Terminal => IsClosed(log'[r])
  BY <1>2, LogOf DEF Events
<1>5. \A r \in Runs : Interrupted(r) = "none" => status[r] = "none" /\ log'[r] = <<>>
  BY <1>2, <1>3 DEF EndingInv, Terminal
<1>6. ASSUME NEW r \in Runs
      PROVE  /\ status'[r] = Interrupted(r) /\ pc'[r] \in {"none", "done"}
             /\ pc'[r] = "done" => status'[r] \in Terminal
             /\ sequence'[r] = "none"
  BY <1>1, <1>3
<1> QED
  BY <1>1, <1>4, <1>5, <1>6 DEF EndingInv, PastRecord

LEMMA EndedNext ==
    ASSUME TypeOK, BornInv, FinalInv, LogInv, EndedInv, [Next]_vars
    PROVE  EndedInv'
<1>1. faults \in Nat /\ faults' \in {faults, faults + 1}
  <2>1. faults \in Nat
    BY DEF TypeOK, BoundsType
  <2>2. ASSUME NEW r \in Runs, RunStep(r) PROVE faults' \in {faults, faults + 1}
    BY <2>2, RunAppends DEF Appends, RunStep, bounds, WaitIfRunPaused, AcquireLook, AcquireTake,
       AcquireRecheck, SetRunning, AppendCheck, Save, SaveFails, SaveActive, EngineEmits,
       EngineReturns, Callback, SaveWaiting, Reserve, LetGo, AwaitDecision, Unreserve,
       SaveRunning, Returned, Complete, Finish, Release, UnpauseSession, Recover, ClearActive
  <2>3. CASE ControlOperation
    <3>1. ASSUME NEW r \in Runs, \/ StartRun(r) \/ CancelRun(r) \/ PauseRun(r)
                                 \/ ResumeRun(r) \/ DecideRun(r)
          PROVE  faults' \in {faults, faults + 1}
      BY <3>1 DEF StartRun, CancelRun, PauseRun, ResumeRun, DecideRun, Save, SaveFails, bounds
    <3>2. CASE CancelFlag \/ CancelStop \/ CancelSave \/ ControlAppend \/ CloseService
      BY <2>1, <3>2 DEF CancelFlag, CancelStop, CancelSave, ControlAppend, CloseService, Save,
         SaveFails, bounds
    <3>3. CASE ControlWrite
      BY <2>1, <3>3, ControlAppends DEF Appends
    <3> QED
      BY <2>1, <2>3, <3>1, <3>2, <3>3 DEF ControlOperation, ControlStep
  <2>4. CASE CrashAndRestart
    <3>1. \E missed \in SUBSET Runs : faults' = IF missed = {} THEN faults ELSE faults + 1
      <4> DEFINE unfinished == {r \in Runs : Interrupted(r) \in Terminal /\ ~IsClosed(log[r])}
      <4>1. \E missed \in SUBSET unfinished :
              faults' = IF missed = {} THEN faults ELSE faults + 1
        BY <2>4, Zenon DEF CrashAndRestart
      <4> QED
        BY <4>1
    <3> QED
      BY <2>1, <3>1
  <2> QED
    BY <2>1, <2>2, <2>3, <2>4 DEF Next, Quiet, vars, bounds
<1> SUFFICES ASSUME faults' = 0 PROVE EndingInv'
  BY DEF EndedInv
<1>2. faults = 0 /\ EndingInv
  BY <1>1 DEF EndedInv
<1>3. CASE \E r \in Runs : RunStep(r)
  BY <1>2, <1>3, EndedOtherStep, EndedAppendStep
<1>4. CASE ControlOperation
  BY <1>2, <1>4, EndedControl
<1>5. CASE CrashAndRestart
  BY <1>2, <1>5, EndedCrash
<1>6. CASE UNCHANGED vars
  BY <1>2, <1>6 DEF vars, durable, flags, code, appends, EndingInv, PastRecord, CancelComing,
     RunCloses, ControlCloses
<1> QED
  BY <1>3, <1>4, <1>5, <1>6 DEF Next, Quiet

\* Until a storage fault no goroutine goes without a terminal record and a
\* closed log, crashes and cancels included (service.go, run_lifecycle.go).
THEOREM GoneLeavesRecord == Spec => []GoneIsRecorded
<1> DEFINE Inv == TypeOK /\ BornInv /\ FinalInv /\ LogInv
<1>1. Inv /\ EndedInv /\ [Next]_vars => EndedInv'
  BY EndedNext
<1>2. EndedInv => GoneIsRecorded
  BY DEF EndedInv, EndingInv, GoneIsRecorded, PastRecord, CancelComing, RunCloses, ControlCloses
<1> QED
  BY <1>1, <1>2, EndedInit, LogCorrect, PTL DEF Spec
=============================================================================
