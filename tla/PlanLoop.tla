------------------------------- MODULE PlanLoop -------------------------------
(***************************************************************************)
(* The plans of one session and their loops: a loop sends run after run at *)
(* the same plan until the plan is finished, two rounds bring nothing, its *)
(* rounds are used up or somebody stops it (application/plan_loop.go,      *)
(* domain/plan_loop.go).  A round is a run of RunService, seen here from   *)
(* the outside: it queues, works alone (RunService!SingleWriter), ends,    *)
(* leaves the active map and then advances its loop.                       *)
(*                                                                         *)
(* Plans are numbered by their position in the session's list.  Each write *)
(* of the plan file (PlanRepository.Mutate, Create, Reconcile) is one      *)
(* action; the operations that hold startMu are sequences of such actions  *)
(* and the variable ctl is where the one that holds it has got to.  The    *)
(* session does not lock its plans (lock_plans = false): a locked session  *)
(* refuses loops.                                                          *)
(***************************************************************************)
EXTENDS Naturals, FiniteSets

CONSTANTS
    PlanCount,   \* bound: plans the session may come to have
    Runs,        \* run identifiers, none of them used at the start
    None,        \* "no run"
    UserRuns,    \* bound: the runs a user may send besides the rounds
    RoundLimit,  \* MaxPlanLoopRounds
    IdleLimit,   \* PlanLoopIdleLimit
    MaxFaults,   \* bound: reads and writes that fail
    MaxCrashes   \* bound: process crashes

Plans == 1..PlanCount

ASSUME CountAssumption == PlanCount \in Nat /\ RoundLimit \in Nat \ {0}
ASSUME IdleAssumption  == IdleLimit \in Nat \ {0}
ASSUME RunsAssumption  == IsFiniteSet(Runs) /\ None \notin Runs /\ UserRuns \subseteq Runs
ASSUME BoundAssumption == MaxFaults \in Nat /\ MaxCrashes \in Nat

VARIABLES
    plan,            \* durable: the status of each plan, "none" before it exists
    loop,            \* durable: Plan.Loop of each plan
    runStatus,       \* durable run records
    phase,           \* where each run's goroutine is
    cancelRequested, \* activeRun.cancelRequested
    ctl,             \* the operation that holds startMu
    roundOf,         \* history: the plan whose current loop sent each run, or 0
    faults, crashes

vars == <<plan, loop, runStatus, phase, cancelRequested, ctl, roundOf, faults, crashes>>

-----------------------------------------------------------------------------
\* No operation sets the status "canceled" of a plan.
Unfinished   == {"queued", "active"}
PlanTerminal == {"completed", "partial"}
LoopStatus   == {"none", "running", "paused", "stopped"}
Reasons      == {"none", "agent", "user", "max_rounds", "no_progress",
                 "run_failed", "completed", "incomplete"}
RunTerminal  == {"completed", "failed", "canceled"}

\* The single run that works on the session, and what it does with the plans.
Working == {"working", "updated", "planning", "blind"}
Active  == Working \cup {"queued", "ended"}
Phases  == Active \cup {"none", "clearing", "gone"}

NoLoop == [status |-> "none", round |-> 0, max |-> 0, idle |-> 0, run |-> None,
           progressed |-> FALSE, by |-> "none"]

Stages == {"prepare", "begin", "save", "giveUp", "cancel"}
Idle   == [stage |-> "idle", plan |-> 0, goal |-> "none", run |-> None]

TypeOK ==
    /\ plan \in [Plans -> Unfinished \cup PlanTerminal \cup {"none"}]
    /\ loop \in [Plans -> [status: LoopStatus, round: Nat, max: 0..RoundLimit,
                           idle: 0..IdleLimit, run: Runs \cup {None},
                           progressed: BOOLEAN, by: Reasons]]
    /\ runStatus \in [Runs -> RunTerminal \cup {"none", "open"}]
    /\ phase \in [Runs -> Phases]
    /\ cancelRequested \subseteq {r \in Runs : phase[r] \in Active}
    /\ ctl \in [stage: Stages, plan: Plans, goal: {"none", "start", "resume"},
                run: Runs \cup {None}] \cup {Idle}
    /\ ctl.stage = "save" => ctl.run \in Runs
    /\ roundOf \in [Runs -> Plans \cup {0}]
    /\ faults \in 0..MaxFaults /\ crashes \in 0..MaxCrashes

Init ==
    /\ plan = [p \in Plans |-> "none"]
    /\ loop = [p \in Plans |-> NoLoop]
    /\ runStatus = [r \in Runs |-> "none"]
    /\ phase = [r \in Runs |-> "none"]
    /\ cancelRequested = {}
    /\ ctl = Idle
    /\ roundOf = [r \in Runs |-> 0]
    /\ faults = 0 /\ crashes = 0

ActiveRuns       == {r \in Runs : phase[r] \in Active}
HasActiveSession == ActiveRuns # {}

\* normalizePlanQueue: the first unfinished plan is active, the others wait.
Queue(st) == [p \in Plans |->
    IF st[p] \notin Unfinished THEN st[p]
    ELSE IF \E q \in 1..(p - 1) : st[q] \in Unfinished THEN "queued" ELSE "active"]

\* normalizeParallelPlans: every unfinished plan is active.
Parallel(st) == [p \in Plans |-> IF st[p] \in Unfinished THEN "active" ELSE st[p]]

Fault     == faults < MaxFaults /\ faults' = faults + 1
Works     == faults' = faults
At(p, lp) == loop' = [loop EXCEPT ![p] = lp]

-----------------------------------------------------------------------------
(* What happens to a loop (domain/plan_loop.go).                           *)

Started(n) == [NoLoop EXCEPT !.status = "running", !.max = n]

CanBegin(lp) == lp.status = "running" /\ lp.round < lp.max

\* Mutant: the round is counted when it has ended, not when it is sent.
BegunUncounted(lp, r) == [lp EXCEPT !.run = r, !.progressed = FALSE]

Begun(lp, r) == [lp EXCEPT !.round = @ + 1, !.run = r, !.progressed = FALSE]

Interrupted(lp, by) == [lp EXCEPT !.status = "paused", !.by = by]

Resumed(lp) == [lp EXCEPT !.status = "running", !.by = "none"]

Stopped(lp, by) ==
    IF lp.status = "stopped" THEN lp ELSE [lp EXCEPT !.status = "stopped", !.by = by]

Ending(st) == IF st = "completed" THEN "completed" ELSE "incomplete"

\* EvaluatePlanLoopAfterRound: the order of the verdicts is the code's.
Evaluated(lp, st) ==
    LET counted == [lp EXCEPT !.idle = IF lp.progressed THEN 0 ELSE @ + 1] IN
    CASE st \in PlanTerminal          -> Stopped(counted, Ending(st))
      [] st \notin PlanTerminal /\ counted.idle >= IdleLimit
                                      -> Stopped(counted, "no_progress")
      [] st \notin PlanTerminal /\ counted.idle < IdleLimit /\ counted.round >= counted.max
                                      -> Stopped(counted, "max_rounds")
      [] OTHER                        -> counted

\* Mutant: only a round whose run has failed is settled.
SettledIfFailed(lp, st, rs) ==
    IF rs = "completed" /\ st \in PlanTerminal THEN Stopped(lp, Ending(st))
    ELSE IF rs = "failed" THEN Interrupted(lp, "run_failed") ELSE lp

\* reconcileSessionPlanLoops: a running loop whose round has no goroutine.
Settled(lp, st, rs) ==
    IF rs = "completed" /\ st \in PlanTerminal THEN Stopped(lp, Ending(st))
                                              ELSE Interrupted(lp, "run_failed")

RunStatusOf(r) == IF r = None THEN "none" ELSE runStatus[r]

-----------------------------------------------------------------------------
(* The user's plans: created, rebuilt or listed.  Creating and rebuilding  *)
(* take startMu and refuse while a run is active; the session's other      *)
(* plans are normalised by every write, as one queue by Create and Mutate  *)
(* and then, in an unlocked session, as parallel plans by Reconcile.       *)

\* The plan file after a write, and after the Reconcile that follows it; a
\* fault or a cancel can lose the second.
Rewritten(st) ==
    \/ plan' = Parallel(Queue(st)) /\ Works
    \/ plan' = Queue(st) /\ Fault

IsNext(p) == plan[p] = "none" /\ \A q \in 1..(p - 1) : plan[q] # "none"

CreatePlan(p) ==
    /\ ctl = Idle /\ ~HasActiveSession
    /\ IsNext(p)
    /\ Rewritten([plan EXCEPT ![p] = "active"])
    /\ UNCHANGED <<loop, runStatus, phase, cancelRequested, ctl, roundOf, crashes>>

\* A rebuilt plan starts afresh and has no loop.
UpdatePlan(p) ==
    /\ ctl = Idle /\ ~HasActiveSession
    /\ plan[p] # "none"
    /\ Rewritten([plan EXCEPT ![p] = "active"])
    /\ At(p, NoLoop)
    /\ roundOf' = [r \in Runs |-> IF roundOf[r] = p THEN 0 ELSE roundOf[r]]
    /\ UNCHANGED <<runStatus, phase, cancelRequested, ctl, crashes>>

\* ListPlans, plan_get and every prompt of the harness reconcile the list.
ListPlans ==
    /\ plan' = Parallel(plan)
    /\ UNCHANGED <<loop, runStatus, phase, cancelRequested, ctl, roundOf, faults, crashes>>

-----------------------------------------------------------------------------
(* Starting and resuming a loop: prepareLoopMutation, the user's mutation, *)
(* then startPlanLoopRound.                                                *)

\* Mutant: a loop is started or resumed whatever runs are active.
AskLoopAnyTime(p, goal) ==
    /\ ctl = Idle
    /\ plan[p] # "none"
    /\ ctl' = [stage |-> "prepare", plan |-> p, goal |-> goal, run |-> None]
    /\ UNCHANGED <<plan, loop, runStatus, phase, cancelRequested, roundOf, faults, crashes>>

AskLoop(p, goal) ==
    /\ ctl = Idle
    /\ plan[p] # "none"
    /\ ~HasActiveSession
    /\ ctl' = [stage |-> "prepare", plan |-> p, goal |-> goal, run |-> None]
    /\ UNCHANGED <<plan, loop, runStatus, phase, cancelRequested, roundOf, faults, crashes>>

RunningLoops == {p \in Plans : loop[p].status = "running"}

\* reconcileSessionPlanLoops, one loop at a time.
SettleLoop ==
    /\ ctl.stage = "prepare"
    /\ \/ /\ \E p \in RunningLoops :
               At(p, Settled(loop[p], plan[p], RunStatusOf(loop[p].run)))
          /\ plan' = Queue(plan)
          /\ ctl' = ctl
          /\ Works
       \/ /\ RunningLoops # {}
          /\ ctl' = Idle
          /\ Fault
          /\ UNCHANGED <<plan, loop>>
    /\ UNCHANGED <<runStatus, phase, cancelRequested, roundOf, crashes>>

\* Mutant: the other loops of the session are not looked at.
MutateLoopUnsettled ==
    /\ ctl.stage = "prepare"
    /\ LET p == ctl.plan IN
         \/ /\ ctl.goal = "start" /\ plan[p] = "active" /\ loop[p].status # "running"
            /\ \E n \in 1..RoundLimit : At(p, Started(n))
            /\ roundOf' = [r \in Runs |-> IF roundOf[r] = p THEN 0 ELSE roundOf[r]]
            /\ plan' = Queue(plan)
            /\ ctl' = [ctl EXCEPT !.stage = "begin"]
            /\ Works
         \/ /\ ctl' = Idle
            /\ UNCHANGED <<plan, loop, roundOf, faults>>
    /\ UNCHANGED <<runStatus, phase, cancelRequested, crashes>>

\* StartPlanLoop or ResumePlanLoop of the domain; refused, nothing changes.
MutateLoop ==
    /\ ctl.stage = "prepare" /\ RunningLoops = {}
    /\ LET p == ctl.plan
           startable == ctl.goal = "start" /\ plan[p] = "active"
           resumable == /\ ctl.goal = "resume" /\ loop[p].status = "paused"
                        /\ plan[p] = "active" /\ loop[p].round < loop[p].max
       IN
         \/ /\ startable
            /\ \E n \in 1..RoundLimit : At(p, Started(n))
            /\ roundOf' = [r \in Runs |-> IF roundOf[r] = p THEN 0 ELSE roundOf[r]]
            /\ plan' = Queue(plan)
            /\ ctl' = [ctl EXCEPT !.stage = "begin"]
            /\ Works
         \/ /\ resumable
            /\ At(p, Resumed(loop[p]))
            /\ plan' = Queue(plan)
            /\ ctl' = [ctl EXCEPT !.stage = "begin"]
            /\ Works
            /\ UNCHANGED roundOf
         \/ /\ ~startable /\ ~resumable
            /\ ctl' = Idle
            /\ UNCHANGED <<plan, loop, roundOf, faults>>
         \/ /\ ctl' = Idle
            /\ Fault
            /\ UNCHANGED <<plan, loop, roundOf>>
    /\ UNCHANGED <<runStatus, phase, cancelRequested, crashes>>

\* startRunLocked up to beforeSave: the round is counted before it is sent.
\* The start can also be refused (provider, project, shutdown) or fail.
BeginRound ==
    /\ ctl.stage = "begin"
    /\ \/ /\ ~HasActiveSession /\ CanBegin(loop[ctl.plan])
          /\ \E r \in Runs :
               /\ runStatus[r] = "none"
               /\ \A p \in Plans : loop[p].run # r
               /\ At(ctl.plan, Begun(loop[ctl.plan], r))
               /\ ctl' = [ctl EXCEPT !.stage = "save", !.run = r]
          /\ plan' = Queue(plan)
       \/ /\ ctl' = [ctl EXCEPT !.stage = "giveUp"]
          /\ UNCHANGED <<plan, loop>>
    /\ UNCHANGED <<runStatus, phase, cancelRequested, roundOf, faults, crashes>>

\* runs.Save, then the goroutine.
SaveRound ==
    /\ ctl.stage = "save"
    /\ LET r == ctl.run IN
         \/ /\ runStatus' = [runStatus EXCEPT ![r] = "open"]
            /\ phase' = [phase EXCEPT ![r] = "queued"]
            /\ roundOf' = [roundOf EXCEPT ![r] = ctl.plan]
            /\ ctl' = Idle
            /\ Works
         \/ /\ ctl' = [ctl EXCEPT !.stage = "giveUp"]
            /\ Fault
            /\ UNCHANGED <<runStatus, phase, roundOf>>
    /\ UNCHANGED <<plan, loop, cancelRequested, crashes>>

\* A round that cannot be sent pauses the loop.
GiveUp ==
    /\ ctl.stage = "giveUp"
    /\ LET p == ctl.plan IN
         \/ /\ loop[p].status = "running"
            /\ At(p, Interrupted(loop[p], "run_failed"))
            /\ plan' = Queue(plan)
            /\ Works
         \/ /\ loop[p].status # "running"
            /\ UNCHANGED <<plan, loop, faults>>
         \/ /\ Fault
            /\ UNCHANGED <<plan, loop>>
    /\ ctl' = Idle
    /\ UNCHANGED <<runStatus, phase, cancelRequested, roundOf, crashes>>

-----------------------------------------------------------------------------
(* Interrupting and stopping: the loop is written first, then every active *)
(* run of the session is canceled.                                         *)

\* Mutant: the loop is written, the runs go on.
HaltWithoutCancel(p, lp) ==
    /\ At(p, lp)
    /\ plan' = Queue(plan)
    /\ ctl' = Idle
    /\ UNCHANGED <<runStatus, phase, cancelRequested, roundOf, faults, crashes>>

Halt(p, lp) ==
    /\ At(p, lp)
    /\ plan' = Queue(plan)
    /\ ctl' = [stage |-> "cancel", plan |-> p, goal |-> "none", run |-> None]
    /\ UNCHANGED <<runStatus, phase, cancelRequested, roundOf, faults, crashes>>

StopLoop(p) ==
    /\ ctl = Idle
    /\ loop[p].status # "none"
    /\ Halt(p, Stopped(loop[p], "user"))

PauseLoop(p) ==
    /\ ctl = Idle
    /\ loop[p].status = "running"
    /\ Halt(p, Interrupted(loop[p], "user"))

\* plan_loop_interrupt, called by the run that works on the session.
AgentInterrupt(r, p) ==
    /\ ctl = Idle
    /\ phase[r] = "working" /\ r \notin cancelRequested
    /\ loop[p].status = "running"
    /\ Halt(p, Interrupted(loop[p], "agent"))

\* The durable status after cancelRunLocked or the end of a run; a failing
\* write leaves it as it was.
EndsAs(r, st) ==
    \/ /\ runStatus[r] = "open"
       /\ runStatus' = [runStatus EXCEPT ![r] = st]
       /\ Works
    \/ runStatus[r] # "open" /\ UNCHANGED <<runStatus, faults>>
    \/ runStatus[r] = "open" /\ Fault /\ UNCHANGED runStatus

CancelSessionRun ==
    /\ ctl.stage = "cancel"
    /\ \E r \in ActiveRuns \ cancelRequested :
         /\ cancelRequested' = cancelRequested \cup {r}
         /\ EndsAs(r, "canceled")
    /\ UNCHANGED <<plan, loop, phase, ctl, roundOf, crashes>>

CancelDone ==
    /\ ctl.stage = "cancel"
    /\ ActiveRuns \subseteq cancelRequested
    /\ ctl' = Idle
    /\ UNCHANGED <<plan, loop, runStatus, phase, cancelRequested, roundOf, faults, crashes>>

\* CancelRun of the user.
CancelRun(r) ==
    /\ ctl = Idle
    /\ r \in ActiveRuns \ cancelRequested
    /\ cancelRequested' = cancelRequested \cup {r}
    /\ EndsAs(r, "canceled")
    /\ UNCHANGED <<plan, loop, phase, ctl, roundOf, crashes>>

-----------------------------------------------------------------------------
(* Runs.                                                                   *)

\* The user sends a run of their own.
StartRun(r) ==
    /\ ctl = Idle /\ r \in UserRuns
    /\ runStatus[r] = "none"
    /\ \A p \in Plans : loop[p].run # r
    /\ runStatus' = [runStatus EXCEPT ![r] = "open"]
    /\ phase' = [phase EXCEPT ![r] = "queued"]
    /\ UNCHANGED <<plan, loop, cancelRequested, ctl, roundOf, faults, crashes>>

Enter(r, ph) == phase' = [phase EXCEPT ![r] = ph]

RunWorks(r) ==
    /\ phase[r] = "queued"
    /\ \A other \in Runs : phase[other] \notin Working
    /\ Enter(r, "working")
    /\ UNCHANGED <<plan, loop, runStatus, cancelRequested, ctl, roundOf, faults, crashes>>

\* plan_step_update: the step changes its status, so its fingerprint differs
\* from the round's unless it has come back to where the round found it; the
\* last step that finishes ends the plan.
StepUpdate(r, p) ==
    /\ phase[r] = "working" /\ r \notin cancelRequested
    /\ plan[p] = "active"
    /\ \E st \in {"active"} \cup PlanTerminal : plan' = Queue([plan EXCEPT ![p] = st])
    /\ \E differs \in BOOLEAN :
         /\ loop[p].progressed \/ differs
         /\ At(p, [loop[p] EXCEPT !.progressed = differs])
    /\ Enter(r, "updated")
    /\ UNCHANGED <<runStatus, cancelRequested, ctl, roundOf, faults, crashes>>

\* The Reconcile that ends the tool; a cancel or a fault skips it.
StepReconcile(r) ==
    /\ phase[r] = "updated"
    /\ \/ r \notin cancelRequested /\ plan' = Parallel(plan) /\ Works
       \/ r \in cancelRequested /\ UNCHANGED <<plan, faults>>
       \/ r \notin cancelRequested /\ Fault /\ UNCHANGED plan
    /\ Enter(r, "working")
    /\ UNCHANGED <<loop, runStatus, cancelRequested, ctl, roundOf, crashes>>

\* plan_create looks for a running loop, and creates the plan later.  A look
\* that fails finds none: ActivePlanLoop has no error to return.
PlanCreateCheck(r) ==
    /\ phase[r] = "working" /\ r \notin cancelRequested
    /\ \/ RunningLoops = {} /\ Enter(r, "planning") /\ Works
       \/ Fault /\ Enter(r, "blind")
    /\ UNCHANGED <<plan, loop, runStatus, cancelRequested, ctl, roundOf, crashes>>

PlanCreate(r) ==
    /\ phase[r] \in {"planning", "blind"}
    /\ \/ \E p \in Plans : IsNext(p) /\ Rewritten([plan EXCEPT ![p] = "active"])
       \/ \E p \in Plans : /\ IsNext(p) /\ r \in cancelRequested
                           /\ plan' = Queue([plan EXCEPT ![p] = "active"]) /\ Works
       \/ UNCHANGED <<plan, faults>>
    /\ Enter(r, "working")
    /\ UNCHANGED <<loop, runStatus, cancelRequested, ctl, roundOf, crashes>>

\* executeRun is over, but for its deferred calls.  A queued run ends early
\* only because it is canceled or cannot be started.
RunEnds(r) ==
    /\ phase[r] \in {"queued", "working"}
    /\ \E st \in RunTerminal :
         /\ r \in cancelRequested => st = "canceled"
         /\ phase[r] = "queued" => st # "completed"
         /\ EndsAs(r, st)
    /\ Enter(r, "ended")
    /\ UNCHANGED <<plan, loop, cancelRequested, ctl, roundOf, crashes>>

\* Mutant: the flag of the run outlives its entry in the active map.
ClearActiveKeepsFlag(r) ==
    /\ phase[r] = "ended"
    /\ Enter(r, "clearing")
    /\ UNCHANGED <<plan, loop, runStatus, cancelRequested, ctl, roundOf, faults, crashes>>

ClearActive(r) ==
    /\ phase[r] = "ended"
    /\ Enter(r, "clearing")
    /\ cancelRequested' = cancelRequested \ {r}
    /\ UNCHANGED <<plan, loop, runStatus, ctl, roundOf, faults, crashes>>

\* Mutant: a loop is matched by its run only, running or not.
DrivenByName(r) == {p \in Plans : loop[p].run = r}

\* The loop the run drives: a running one that names it (planForLoopRun).
DrivenBy(r) == {p \in RunningLoops : loop[p].run = r}

\* advancePlanLoop, up to the start of the next round.
AdvanceLoop(r) ==
    /\ phase[r] = "clearing" /\ ctl = Idle
    /\ Enter(r, "gone")
    /\ \/ /\ DrivenBy(r) = {}
          /\ UNCHANGED <<plan, loop, ctl, faults>>
       \/ /\ DrivenBy(r) # {}
          /\ Fault
          /\ UNCHANGED <<plan, loop, ctl>>
       \/ /\ \E p \in DrivenBy(r) :
               IF runStatus[r] = "completed"
               THEN LET next == Evaluated(loop[p], plan[p]) IN
                    /\ At(p, next)
                    /\ ctl' = IF next.status = "running"
                              THEN [stage |-> "begin", plan |-> p, goal |-> "none", run |-> None]
                              ELSE Idle
               ELSE At(p, Interrupted(loop[p], "run_failed")) /\ UNCHANGED ctl
          /\ plan' = Queue(plan)
          /\ Works
    /\ UNCHANGED <<runStatus, cancelRequested, roundOf, crashes>>

-----------------------------------------------------------------------------
(* Crash and restart: interrupted runs fail, then every running loop is    *)
(* settled, except those whose write fails (reconcilePlanLoops).           *)

AfterCrash(r) == IF runStatus[r] = "open" THEN "failed" ELSE runStatus[r]

CrashAndRestart ==
    /\ crashes < MaxCrashes
    /\ crashes' = crashes + 1
    /\ runStatus' = [r \in Runs |-> AfterCrash(r)]
    /\ \E missed \in SUBSET RunningLoops :
         /\ IF missed = {} THEN Works ELSE Fault
         /\ plan' = IF RunningLoops = missed THEN plan ELSE Queue(plan)
         /\ loop' = [p \in Plans |->
              IF p \in RunningLoops \ missed
              THEN Settled(loop[p], plan[p],
                           IF loop[p].run = None THEN "none" ELSE AfterCrash(loop[p].run))
              ELSE loop[p]]
    /\ phase' = [r \in Runs |-> IF runStatus[r] = "none" THEN "none" ELSE "gone"]
    /\ cancelRequested' = {}
    /\ ctl' = Idle
    /\ UNCHANGED roundOf

RunStep(r) ==
    \/ RunWorks(r) \/ StepReconcile(r) \/ PlanCreateCheck(r) \/ PlanCreate(r)
    \/ RunEnds(r) \/ ClearActive(r) \/ AdvanceLoop(r)
    \/ \E p \in Plans : StepUpdate(r, p) \/ AgentInterrupt(r, p)

ControlStep ==
    \/ SettleLoop \/ MutateLoop \/ BeginRound \/ SaveRound \/ GiveUp
    \/ CancelSessionRun \/ CancelDone

UserStep ==
    \/ \E p \in Plans :
         \/ CreatePlan(p) \/ UpdatePlan(p) \/ StopLoop(p) \/ PauseLoop(p)
         \/ \E goal \in {"start", "resume"} : AskLoop(p, goal)
    \/ \E r \in Runs : StartRun(r) \/ CancelRun(r)
    \/ ListPlans

Next == (\E r \in Runs : RunStep(r)) \/ ControlStep \/ UserStep \/ CrashAndRestart

Spec == Init /\ [][Next]_vars

-----------------------------------------------------------------------------
(* Properties.                                                             *)

Spent(p) == Cardinality({r \in Runs : roundOf[r] = p})

\* A loop never sends more runs than the rounds it has counted, nor counts
\* more than its budget, whatever is interrupted, resumed, lost or restarted
\* (BeginPlanLoopRound counts before startRunLocked saves the run).
RoundBudget == \A p \in Plans : Spent(p) <= loop[p].round /\ loop[p].round <= loop[p].max

\* At most one loop of a session runs, although loops are started, resumed,
\* advanced and repaired by different goroutines (prepareLoopMutation).
OneLoop == \A p, q \in RunningLoops : p = q

\* A round that is still at work belongs to the running round of its loop,
\* or is being canceled: a paused or stopped loop leaves no run behind.
NoStrayRound ==
    \A r \in ActiveRuns, p \in Plans :
        roundOf[r] = p /\ ctl.stage # "cancel" /\ r \notin cancelRequested
            => loop[p].status = "running" /\ loop[p].run = r

\* plan_create looks for a running loop without a lock and creates later, and
\* still no plan is created under a running loop by a call that could look:
\* none can start meanwhile.  (One whose look failed is "blind", and creates
\* its plan under any loop.)
NoPlanningInLoop == (\E r \in Runs : phase[r] = "planning") => RunningLoops = {}

\* The reason an agent or a user gave for stopping a loop is never replaced by
\* a verdict of the system, such as the end of the run that was canceled.
PauseIsKept ==
    [][\A p \in Plans :
        loop[p].status \in {"paused", "stopped"} /\ loop[p].by \in {"agent", "user"}
            => loop'[p].by \in {loop[p].by, "user", "none"}]_vars

\* A paused loop with rounds left and an unfinished plan can be resumed when
\* nothing runs: ResumePlanLoop asks for an active plan.
PausedLoopIsResumable ==
    \A p \in Plans :
        /\ ctl = Idle /\ ~HasActiveSession
        /\ loop[p].status = "paused" /\ loop[p].round < loop[p].max
        /\ plan[p] \in Unfinished
        => plan[p] = "active"

-----------------------------------------------------------------------------
(* Liveness.  Goroutines and handlers that can run do; startMu and the     *)
(* session gate serve those who wait for them; a run ends, its budgets see *)
(* to that.  PersistentUser is a user who keeps asking to resume.          *)

Fairness ==
    /\ WF_vars(ControlStep)
    /\ \A r \in Runs :
         /\ WF_vars(RunStep(r))
         /\ SF_vars(RunEnds(r)) /\ SF_vars(AdvanceLoop(r))

PersistentUser == \A p \in Plans : SF_vars(AskLoop(p, "resume"))

FairSpec == Spec /\ Fairness /\ PersistentUser

\* A loop never runs for ever: it ends or pauses, and a loop whose last write
\* was lost is repaired by the user's next attempt to resume.
LoopEnds == \A p \in Plans : loop[p].status = "running" ~> loop[p].status # "running"
=============================================================================
