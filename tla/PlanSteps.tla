------------------------------ MODULE PlanSteps ------------------------------
(***************************************************************************)
(* The plans of one session, step by step: how the steps of a plan advance *)
(* (domain/plan.go), on which evidence a step is completed                 *)
(* (tools/native/plans/evidence.go), and how the plan file is kept in the  *)
(* form that lock_plans asks for, one plan active or all of them           *)
(* (adapters/filestore/plan_repository.go, application/plan.go).           *)
(*                                                                         *)
(* Every write of the plan file is an action of its own: an operation      *)
(* writes what it changes, always in the form of a queue, and brings the   *)
(* file back to the session's form with a second write.  planOp is where   *)
(* the operation has got to that holds startMu, or the plan tool the run   *)
(* has called.  A listing holds no lock.  Time is the length of the tool   *)
(* log; loops are PlanLoop's.                                              *)
(***************************************************************************)
EXTENDS Naturals, Sequences, SequencesExt

CONSTANTS
    PlanNames,      \* plan identifiers
    MaxPlanSteps,
    MaxPlanned,     \* bound: the steps of all plans
    MaxToolResults  \* bound: the length of the tool log

ASSUME PlanStepBounds == MaxPlanSteps \in Nat \ {0} /\ {MaxPlanned, MaxToolResults} \subseteq Nat

VARIABLES
    plans,      \* durable: the plans of the session, in order
    lockPlans,  \* durable: Session.LockPlans
    toolLog,    \* durable: the results of the tools that are not plan tools
    atWork,     \* a run works on the session; it keeps the session it began with
    planOp,     \* the operation on plans under way
    listing,    \* a ListPlans under way: the lock_plans it has read
    stale       \* history: the file has the form of an older lock_plans

planStepVars == <<plans, lockPlans, toolLog, atWork, planOp, listing, stale>>

\* A result as verifyEvidence reads it: of a tool that only reads or not, that
\* succeeded or not; "idle" is a look that failed, and any call that was skipped
\* or never dispatched.
ToolResults == {"looked", "changed", "botched", "idle"}
Succeeded   == {"looked", "changed"}
Mutating    == {"changed", "botched"}

StepStatus  == {"pending", "in_progress", "verifying", "completed", "blocked", "skipped"}
Done        == {"completed", "skipped"}
PlanStatus  == {"queued", "active", "completed", "partial"}
PlanOps     == {"idle", "begin", "user", "tool", "finish"}

\* A step: since when it is verified, the results it was completed on, and when.
NewStep == [status |-> "pending", since |-> 0, proofs |-> {}, at |-> 0]

NewPlan(id, n) == [id |-> id, status |-> "active", steps |-> [s \in 1..n |-> NewStep]]

Now == Len(toolLog) + 1

PlanIsTerminal(p) == p.status \in {"completed", "partial"}

-----------------------------------------------------------------------------
(* The form of the file.                                                   *)

\* normalizePlanQueue
InQueue(ps) == [i \in DOMAIN ps |->
    IF PlanIsTerminal(ps[i]) THEN ps[i]
    ELSE [ps[i] EXCEPT !.status =
            IF \A j \in 1..(i - 1) : PlanIsTerminal(ps[j]) THEN "active" ELSE "queued"]]

\* normalizeParallelPlans
InParallel(ps) == [i \in DOMAIN ps |->
    IF PlanIsTerminal(ps[i]) THEN ps[i] ELSE [ps[i] EXCEPT !.status = "active"]]

WriteQueue(ps) == plans' = InQueue(ps) /\ stale' = FALSE

Reconcile(lock) ==
    /\ plans' = IF lock THEN InQueue(plans) ELSE InParallel(plans)
    /\ stale' = (lock # lockPlans)

\* Mutate: one plan is replaced, and all of them are written.
Mutate(i, p) == WriteQueue([plans EXCEPT ![i] = p])

-----------------------------------------------------------------------------
(* TransitionPlanStep, and the evidence for it.                            *)

\* Bug: the evidence is dated, and what the run did since is not looked at.
VerifiedOnce(step, ids) ==
    /\ step.since # 0 /\ ids # {}
    /\ \A i \in ids : i >= step.since /\ toolLog[i] \in Succeeded

\* verifyEvidence: successful results of the present verification, the last of
\* them no older than the last call that may have changed something.
Verified(step, ids) ==
    /\ step.since # 0 /\ ids # {}
    /\ \A i \in ids : i >= step.since /\ toolLog[i] \in Succeeded
    /\ \A m \in step.since..Len(toolLog) :
         toolLog[m] \in Mutating => \E i \in ids : i >= m

MayMove(p, s) ==
    p.status = "active" /\ \A r \in 1..(s - 1) : p.steps[r].status \in Done

CanMove(step, to, ids) ==
    \/ to = "in_progress" /\ step.status \in {"pending", "blocked"}
    \/ to = "verifying" /\ step.status = "in_progress"
    \/ to = "completed" /\ step.status = "verifying" /\ Verified(step, ids)
    \/ to = "blocked" /\ step.status \in {"in_progress", "verifying"}
    \/ to = "skipped" /\ step.status = "pending"

Moved(step, to, ids) ==
    [status |-> to,
     since  |-> CASE to = "in_progress" -> 0 [] to = "verifying" -> Now [] OTHER -> step.since,
     proofs |-> CASE to = "in_progress" -> {} [] to = "completed" -> ids [] OTHER -> step.proofs,
     at     |-> IF to = "completed" THEN Len(toolLog) ELSE step.at]

\* The plan after one of its steps has moved.
Judged(p, steps) ==
    [p EXCEPT !.steps = steps,
              !.status = IF \E s \in DOMAIN steps : steps[s].status \notin Done THEN @
                         ELSE IF \A s \in DOMAIN steps : steps[s].status = "completed"
                              THEN "completed" ELSE "partial"]

\* plan_step_update
UpdateStep(i, s, to, ids) ==
    LET p == plans[i] IN
    /\ atWork /\ planOp = "idle"
    /\ MayMove(p, s)
    /\ CanMove(p.steps[s], to, ids)
    /\ Mutate(i, Judged(p, [p.steps EXCEPT ![s] = Moved(p.steps[s], to, ids)]))
    /\ planOp' = "finish"
    /\ UNCHANGED <<lockPlans, toolLog, atWork, listing>>

\* The run looks at its plans: plan_get, a plan_step_update that names no plan,
\* the prompt of a turn, the reminder of an unfinished plan.
RunReconciles ==
    /\ atWork /\ planOp = "idle"
    /\ Reconcile(lockPlans)
    /\ UNCHANGED <<lockPlans, toolLog, atWork, planOp, listing>>

\* A tool of the run has ended, and its result is in the log.
ToolEnds(result) ==
    /\ atWork /\ planOp = "idle" /\ Len(toolLog) < MaxToolResults
    /\ toolLog' = Append(toolLog, result)
    /\ UNCHANGED <<plans, lockPlans, atWork, planOp, listing, stale>>

-----------------------------------------------------------------------------
(* The operations of the user, which a run in the session refuses, and     *)
(* plan_create, which a run calls.                                         *)

\* preparePlanMutation, and the beginning of plan_create.
PreparePlans ==
    /\ planOp = "idle"
    /\ Reconcile(lockPlans)
    /\ planOp' = IF atWork THEN "tool" ELSE "user"
    /\ UNCHANGED <<lockPlans, toolLog, atWork, listing>>

\* The steps of all plans, which MaxPlanned bounds.
StepsOf(ps) == FoldLeft(LAMBDA n, p : n + Len(p.steps), 0, ps)

Changing ==
    /\ StepsOf(plans') <= MaxPlanned
    /\ planOp' = "finish"
    /\ UNCHANGED <<lockPlans, toolLog, atWork, listing>>

\* PlanRepository.Create
AddPlan(p) == WriteQueue(Append(plans, p))

Create(id, n) ==
    /\ planOp \in {"user", "tool"}
    /\ \A i \in DOMAIN plans : plans[i].id # id
    /\ AddPlan(NewPlan(id, n)) /\ Changing

\* UpdatePlan: the plan is made anew in its place, also when it had ended.
Rebuild(i, n) ==
    /\ planOp = "user"
    /\ Mutate(i, NewPlan(plans[i].id, n)) /\ Changing

RemovePlan(i) ==
    /\ planOp = "user"
    /\ WriteQueue(RemoveAt(plans, i)) /\ Changing

\* compatibilityPlan: the plan the older API means by "the plan".
Compatible ==
    LET open == {i \in DOMAIN plans : plans[i].status = "active"} IN
    IF open = {} THEN 1 ELSE CHOOSE i \in open : \A j \in open : i <= j

PutPlan(n) ==
    /\ planOp = "user"
    /\ IF plans = <<>> THEN \E id \in PlanNames : Create(id, n) ELSE Rebuild(Compatible, n)

DeletePlan == plans # <<>> /\ RemovePlan(Compatible)

Orders == {o \in [DOMAIN plans -> DOMAIN plans] :
             \A i, j \in DOMAIN plans : o[i] = o[j] => i = j}

HasProgress(p) == \E s \in DOMAIN p.steps : p.steps[s].status # "pending"

FirstUnfinished(ps, i) == ~PlanIsTerminal(ps[i]) /\ \A j \in 1..(i - 1) : PlanIsTerminal(ps[j])

\* ReorderWithPolicy: in a locked session a plan that has begun stays first.
Reorder(o) ==
    LET before  == IF lockPlans THEN plans ELSE InParallel(plans)
        ordered == [i \in DOMAIN plans |-> before[o[i]]] IN
    /\ planOp = "user" /\ plans # <<>>
    /\ lockPlans /\ plans[Compatible].status = "active" /\ HasProgress(plans[Compatible])
       => \A i \in DOMAIN plans : FirstUnfinished(ordered, i) => o[i] = Compatible
    /\ plans' = IF lockPlans THEN InQueue(ordered) ELSE InParallel(ordered)
    /\ stale' = FALSE
    /\ Changing

\* UpdateSession: the session first, then the plans.
SetLock(lock) ==
    /\ planOp = "idle" /\ ~atWork
    /\ lockPlans' = lock
    /\ planOp' = "finish"
    /\ UNCHANGED <<plans, toolLog, atWork, listing, stale>>

\* The second write of an operation.
Finish ==
    /\ planOp = "finish"
    /\ Reconcile(lockPlans)
    /\ planOp' = "idle"
    /\ UNCHANGED <<lockPlans, toolLog, atWork, listing>>

\* The operation is refused or canceled, or its write fails.
GiveUpPlans ==
    /\ planOp # "idle"
    /\ planOp' = "idle"
    /\ atWork' = (atWork /\ planOp # "begin")
    /\ UNCHANGED <<plans, lockPlans, toolLog, listing, stale>>

-----------------------------------------------------------------------------
(* ListPlans reads the session, and then reconciles the plans with it.     *)

ListPlans ==
    /\ listing = "none"
    /\ listing' = IF lockPlans THEN "locked" ELSE "unlocked"
    /\ UNCHANGED <<plans, lockPlans, toolLog, atWork, planOp, stale>>

ListReconciles ==
    /\ listing # "none"
    /\ Reconcile(listing = "locked")
    /\ listing' = "none"
    /\ UNCHANGED <<lockPlans, toolLog, atWork, planOp>>

-----------------------------------------------------------------------------
(* The run, and the process.                                               *)

StartPlanRun ==
    /\ planOp = "idle" /\ ~atWork
    /\ atWork' = TRUE
    /\ planOp' = "begin"
    /\ UNCHANGED <<plans, lockPlans, toolLog, listing, stale>>

\* Bug: the run trusts the form it finds.
BeginPlanRunUnchecked ==
    /\ planOp = "begin"
    /\ planOp' = "idle"
    /\ UNCHANGED <<plans, lockPlans, toolLog, atWork, listing, stale>>

\* Runner.Run, before anything else.
BeginPlanRun ==
    /\ planOp = "begin"
    /\ Reconcile(lockPlans)
    /\ planOp' = "idle"
    /\ UNCHANGED <<lockPlans, toolLog, atWork, listing>>

EndPlanRun ==
    /\ planOp = "idle" /\ atWork
    /\ atWork' = FALSE
    /\ UNCHANGED <<plans, lockPlans, toolLog, planOp, listing, stale>>

StopPlans ==
    /\ atWork \/ planOp # "idle" \/ listing # "none"
    /\ atWork' = FALSE /\ planOp' = "idle" /\ listing' = "none"
    /\ UNCHANGED <<plans, lockPlans, toolLog, stale>>

-----------------------------------------------------------------------------
PlanStepsInit ==
    /\ plans = <<>> /\ lockPlans \in BOOLEAN /\ toolLog = <<>>
    /\ atWork = FALSE /\ planOp = "idle" /\ listing = "none" /\ stale = FALSE

UserOperation ==
    \/ \E n \in 1..MaxPlanSteps :
         \/ \E id \in PlanNames : Create(id, n)
         \/ \E i \in DOMAIN plans : Rebuild(i, n)
         \/ PutPlan(n)
    \/ \E i \in DOMAIN plans : RemovePlan(i)
    \/ DeletePlan
    \/ \E o \in Orders : Reorder(o)

PlanStepsNext ==
    \/ PreparePlans \/ UserOperation \/ Finish \/ GiveUpPlans
    \/ \E lock \in BOOLEAN : SetLock(lock)
    \/ ListPlans \/ ListReconciles
    \/ StartPlanRun \/ BeginPlanRun \/ RunReconciles \/ EndPlanRun \/ StopPlans
    \/ \E result \in ToolResults : ToolEnds(result)
    \/ \E i \in DOMAIN plans : \E s \in DOMAIN plans[i].steps, to \in StepStatus,
          ids \in SUBSET DOMAIN toolLog : UpdateStep(i, s, to, ids)

PlanStepsSpec == PlanStepsInit /\ [][PlanStepsNext]_planStepVars

-----------------------------------------------------------------------------
StepRecords == [status : StepStatus, since : Nat, proofs : SUBSET Nat, at : Nat]

PlanStepsTypeOK ==
    /\ plans \in Seq([id : PlanNames, status : PlanStatus, steps : Seq(StepRecords)])
    /\ \A i \in DOMAIN plans : Len(plans[i].steps) \in 1..MaxPlanSteps
    /\ \A i, j \in DOMAIN plans : plans[i].id = plans[j].id => i = j
    /\ toolLog \in Seq(ToolResults) /\ Len(toolLog) <= MaxToolResults
    /\ {lockPlans, atWork, stale} \subseteq BOOLEAN
    /\ planOp \in PlanOps /\ listing \in {"none", "locked", "unlocked"}

\* A completed step was looked at: after its verification had begun a tool
\* succeeded, and nothing that could undo it was done before the step was
\* called completed (evidence.go).
EvidenceHolds ==
    \A i \in DOMAIN plans : \A s \in DOMAIN plans[i].steps :
      LET step == plans[i].steps[s] IN
      step.status = "completed" =>
        /\ step.proofs # {} /\ step.proofs \subseteq step.since..step.at
        /\ step.since > 0 /\ step.at <= Len(toolLog)
        /\ \A k \in step.proofs : toolLog[k] \in Succeeded
        /\ \A m \in step.since..step.at :
             toolLog[m] \in Mutating => \E k \in step.proofs : k >= m

\* The steps of a plan are done in order, and the plan says how it ended.
StepsInOrder ==
    \A i \in DOMAIN plans : LET steps == plans[i].steps IN
      /\ \A s \in DOMAIN steps : steps[s].status # "pending" =>
           \A r \in 1..(s - 1) : steps[r].status \in Done
      /\ PlanIsTerminal(plans[i]) <=> \A s \in DOMAIN steps : steps[s].status \in Done
      /\ plans[i].status = "completed" <=> \A s \in DOMAIN steps : steps[s].status = "completed"

\* A run of a locked session finds one plan that it can move, the first that is
\* not finished, unless a listing that had read the session before it was
\* locked has come between.
OnePlanAtATime ==
    atWork /\ planOp # "begin" /\ lockPlans /\ ~stale =>
      \A i \in DOMAIN plans : plans[i].status = "active" <=> FirstUnfinished(plans, i)

StepsAreEarned == EvidenceHolds /\ StepsInOrder /\ OnePlanAtATime
=============================================================================
