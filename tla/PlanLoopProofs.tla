---------------------------- MODULE PlanLoopProofs ----------------------------
(***************************************************************************)
(* What holds of the plan loops of a session for any number of plans, runs *)
(* and rounds, any faults and any crashes: the types, that one loop runs   *)
(* at a time, that plan_create never runs inside a loop, that a reason     *)
(* once given stays, and that a loop keeps its budget and leaves no round  *)
(* behind at work.                                                         *)
(***************************************************************************)
EXTENDS PlanLoop, FiniteSetTheorems, TLAPS

LoopRecord == [status: LoopStatus, round: Nat, max: 0..RoundLimit,
               idle: 0..IdleLimit, run: Runs \cup {None},
               progressed: BOOLEAN, by: Reasons]

\* Only a stopped loop has counted as many idle rounds as the limit.
IdleBelow == \A p \in Plans : loop[p].status # "stopped" => loop[p].idle < IdleLimit

PlanType   == plan \in [Plans -> Unfinished \cup PlanTerminal \cup {"none"}]
LoopType   == loop \in [Plans -> LoopRecord] /\ IdleBelow
RunType    == /\ runStatus \in [Runs -> RunTerminal \cup {"none", "open"}]
              /\ phase \in [Runs -> Phases]
              /\ cancelRequested \subseteq {r \in Runs : phase[r] \in Active}
CtlType    == /\ ctl \in [stage: Stages, plan: Plans, goal: {"none", "start", "resume"},
                          run: Runs \cup {None}] \cup {Idle}
              /\ ctl.stage = "save" => ctl.run \in Runs
CountType  == /\ roundOf \in [Runs -> Plans \cup {0}]
              /\ faults \in 0..MaxFaults /\ crashes \in 0..MaxCrashes

TypeInv == PlanType /\ LoopType /\ RunType /\ CtlType /\ CountType

\* The parts of TypeInv say what TypeOK says, and a little more of idle.
LEMMA TypeParts == TypeInv => TypeOK
BY DEF TypeInv, TypeOK, PlanType, LoopType, RunType, CtlType, CountType, LoopRecord

-----------------------------------------------------------------------------
(* The operations of domain/plan_loop.go on a loop.                        *)

\* Every operation returns a loop, and only counting an idle round moves idle.
LEMMA LoopOperations ==
    ASSUME NEW lp \in LoopRecord, lp.status # "stopped" => lp.idle < IdleLimit
    PROVE  /\ NoLoop \in LoopRecord /\ NoLoop.idle < IdleLimit
           /\ \A n \in 1..RoundLimit :
                /\ Started(n) \in LoopRecord /\ Started(n).idle < IdleLimit
                /\ Started(n).status = "running" /\ Started(n).round = 0
                /\ Started(n).max = n
           /\ \A r \in Runs :
                /\ Begun(lp, r) \in LoopRecord
                /\ Begun(lp, r).status = lp.status /\ Begun(lp, r).idle = lp.idle
                /\ Begun(lp, r).round = lp.round + 1 /\ Begun(lp, r).max = lp.max
                /\ Begun(lp, r).run = r
           /\ \A by \in Reasons :
                /\ Interrupted(lp, by) \in LoopRecord
                /\ Stopped(lp, by) \in LoopRecord
                /\ Interrupted(lp, by).idle = lp.idle
                /\ Interrupted(lp, by).status = "paused" /\ Stopped(lp, by).status = "stopped"
                /\ Interrupted(lp, by).by = by
                /\ Stopped(lp, by).by \in {lp.by, by}
                /\ \A x \in {Interrupted(lp, by), Stopped(lp, by)} :
                     x.round = lp.round /\ x.max = lp.max
           /\ /\ Resumed(lp) \in LoopRecord /\ Resumed(lp).idle = lp.idle
              /\ Resumed(lp).status = "running"
              /\ Resumed(lp).round = lp.round /\ Resumed(lp).max = lp.max
           /\ \A differs \in BOOLEAN :
                LET lp2 == [lp EXCEPT !.progressed = differs] IN
                /\ lp2 \in LoopRecord
                /\ lp2.status = lp.status /\ lp2.round = lp.round /\ lp2.max = lp.max
                /\ lp2.idle = lp.idle /\ lp2.run = lp.run /\ lp2.by = lp.by
<1> USE IdleAssumption, CountAssumption DEF LoopRecord, LoopStatus, Reasons
<1>1. NoLoop \in LoopRecord /\ NoLoop.idle < IdleLimit
  BY DEF NoLoop
<1>2. ASSUME NEW n \in 1..RoundLimit
      PROVE  /\ Started(n) \in LoopRecord /\ Started(n).idle < IdleLimit
             /\ Started(n).status = "running" /\ Started(n).round = 0
             /\ Started(n).max = n
  <2>1. NoLoop.round = 0 /\ n \in 0..RoundLimit
    BY DEF NoLoop
  <2> QED BY <1>1, <2>1 DEF Started
<1>3. ASSUME NEW r \in Runs
      PROVE  /\ Begun(lp, r) \in LoopRecord
             /\ Begun(lp, r).status = lp.status /\ Begun(lp, r).idle = lp.idle
             /\ Begun(lp, r).round = lp.round + 1 /\ Begun(lp, r).max = lp.max
             /\ Begun(lp, r).run = r
  <2>1. lp.round + 1 \in Nat
    OBVIOUS
  <2>2. Begun(lp, r) \in LoopRecord
    BY <2>1 DEF Begun
  <2> QED BY <2>2 DEF Begun
<1>4. \A by \in Reasons : /\ Interrupted(lp, by) \in LoopRecord
                          /\ Interrupted(lp, by).idle = lp.idle
                          /\ Interrupted(lp, by).status = "paused"
                          /\ Interrupted(lp, by).by = by
                          /\ Interrupted(lp, by).round = lp.round
                          /\ Interrupted(lp, by).max = lp.max
  BY DEF Interrupted
<1>5. \A by \in Reasons : /\ Stopped(lp, by) \in LoopRecord
                          /\ Stopped(lp, by).status = "stopped"
                          /\ Stopped(lp, by).by \in {lp.by, by}
                          /\ Stopped(lp, by).round = lp.round
                          /\ Stopped(lp, by).max = lp.max
  BY DEF Stopped
<1>6. /\ Resumed(lp) \in LoopRecord /\ Resumed(lp).idle = lp.idle
      /\ Resumed(lp).status = "running"
      /\ Resumed(lp).round = lp.round /\ Resumed(lp).max = lp.max
  BY DEF Resumed
<1>7. \A differs \in BOOLEAN :
        LET lp2 == [lp EXCEPT !.progressed = differs] IN
        /\ lp2 \in LoopRecord
        /\ lp2.status = lp.status /\ lp2.round = lp.round /\ lp2.max = lp.max
        /\ lp2.idle = lp.idle /\ lp2.run = lp.run /\ lp2.by = lp.by
  OBVIOUS
<1> QED BY <1>1, <1>2, <1>3, <1>4, <1>5, <1>6, <1>7

\* An evaluated round leaves a running loop below the limit, or stops it.
LEMMA EvaluatedShape ==
    ASSUME NEW lp \in LoopRecord, lp.status = "running", lp.idle < IdleLimit, NEW st
    PROVE  /\ Evaluated(lp, st) \in LoopRecord
           /\ Evaluated(lp, st).status \in {"running", "stopped"}
           /\ Evaluated(lp, st).status # "stopped" => Evaluated(lp, st).idle < IdleLimit
           /\ Evaluated(lp, st).round = lp.round /\ Evaluated(lp, st).max = lp.max
           /\ Evaluated(lp, st).run = lp.run
<1> DEFINE counted == [lp EXCEPT !.idle = IF lp.progressed THEN 0 ELSE @ + 1]
<1>1. /\ counted \in LoopRecord /\ counted.status = "running"
      /\ counted.round = lp.round /\ counted.max = lp.max /\ counted.run = lp.run
  BY IdleAssumption DEF LoopRecord
<1>2. ASSUME NEW by \in Reasons
      PROVE  /\ Stopped(counted, by) \in LoopRecord
             /\ Stopped(counted, by).status = "stopped"
             /\ Stopped(counted, by).round = lp.round
             /\ Stopped(counted, by).max = lp.max
             /\ Stopped(counted, by).run = lp.run
  <2> HIDE DEF counted
  <2> QED BY <1>1 DEF LoopRecord, Stopped, LoopStatus
<1>3. /\ Ending(st) \in Reasons /\ "no_progress" \in Reasons /\ "max_rounds" \in Reasons
  BY DEF Ending, Reasons
<1>4. CASE st \in PlanTerminal
  <2>1. Evaluated(lp, st) = Stopped(counted, Ending(st))
    BY <1>4 DEF Evaluated
  <2> HIDE DEF counted
  <2> QED BY <2>1, <1>2, <1>3
<1>5. CASE st \notin PlanTerminal /\ counted.idle >= IdleLimit
  <2>1. Evaluated(lp, st) = Stopped(counted, "no_progress")
    BY <1>5, <1>1, IdleAssumption DEF Evaluated, LoopRecord
  <2> HIDE DEF counted
  <2> QED BY <2>1, <1>2, <1>3
<1>6. CASE st \notin PlanTerminal /\ counted.idle < IdleLimit /\ counted.round >= counted.max
  <2>1. Evaluated(lp, st) = Stopped(counted, "max_rounds")
    BY <1>6, <1>1, IdleAssumption DEF Evaluated, LoopRecord
  <2> HIDE DEF counted
  <2> QED BY <2>1, <1>2, <1>3
<1>7. CASE st \notin PlanTerminal /\ counted.idle < IdleLimit /\ counted.round < counted.max
  <2>1. Evaluated(lp, st) = counted
    BY <1>7, <1>1, IdleAssumption, CountAssumption DEF Evaluated, LoopRecord
  <2> QED BY <2>1, <1>1, <1>7
<1> QED BY <1>1, <1>4, <1>5, <1>6, <1>7, IdleAssumption, CountAssumption DEF LoopRecord

\* A settled loop is paused or stopped, and keeps its rounds.
LEMMA SettledShape ==
    ASSUME NEW lp \in LoopRecord, lp.idle < IdleLimit, NEW st, NEW rs
    PROVE  /\ Settled(lp, st, rs) \in LoopRecord
           /\ Settled(lp, st, rs).status \in {"paused", "stopped"}
           /\ Settled(lp, st, rs).idle = lp.idle
           /\ Settled(lp, st, rs).round = lp.round /\ Settled(lp, st, rs).max = lp.max
BY DEF Settled, Stopped, Interrupted, Ending, LoopRecord, LoopStatus, Reasons

\* Normalising a plan list keeps it a plan list.
LEMMA PlanLists ==
    ASSUME NEW st \in [Plans -> Unfinished \cup PlanTerminal \cup {"none"}]
    PROVE  /\ Queue(st) \in [Plans -> Unfinished \cup PlanTerminal \cup {"none"}]
           /\ Parallel(st) \in [Plans -> Unfinished \cup PlanTerminal \cup {"none"}]
BY DEF Queue, Parallel, Unfinished

-----------------------------------------------------------------------------
(* Types.                                                                  *)

\* One write to the run store at the end of a run, or none.
LEMMA EndsAsType ==
    ASSUME TypeInv, NEW r \in Runs, NEW st \in RunTerminal, EndsAs(r, st)
    PROVE  /\ runStatus' \in [Runs -> RunTerminal \cup {"none", "open"}]
           /\ faults' \in 0..MaxFaults
           /\ \A other \in Runs : runStatus[other] = "none" <=> runStatus'[other] = "none"
BY BoundAssumption DEF TypeInv, RunType, CountType, EndsAs, Works, Fault, RunTerminal

\* Writing one loop keeps the loops loops.
LEMMA AtType ==
    ASSUME TypeInv, NEW p \in Plans, NEW lp \in LoopRecord,
           lp.status # "stopped" => lp.idle < IdleLimit, At(p, lp)
    PROVE  LoopType'
BY DEF TypeInv, LoopType, IdleBelow, At

\* The plan list after a write of one plan's status, or of none.
LEMMA PlanWrites ==
    ASSUME TypeInv
    PROVE  /\ Queue(plan) \in [Plans -> Unfinished \cup PlanTerminal \cup {"none"}]
           /\ Parallel(plan) \in [Plans -> Unfinished \cup PlanTerminal \cup {"none"}]
           /\ \A p \in Plans, st \in {"active"} \cup PlanTerminal :
                LET written == Queue([plan EXCEPT ![p] = st]) IN
                /\ written \in [Plans -> Unfinished \cup PlanTerminal \cup {"none"}]
                /\ Parallel(written) \in [Plans -> Unfinished \cup PlanTerminal \cup {"none"}]
<1>1. ASSUME NEW p \in Plans, NEW st \in {"active"} \cup PlanTerminal
      PROVE  [plan EXCEPT ![p] = st] \in [Plans -> Unfinished \cup PlanTerminal \cup {"none"}]
  BY DEF TypeInv, PlanType, Unfinished
<1> QED BY <1>1, PlanLists DEF TypeInv, PlanType

\* A write that fails or does not is within its bound.
LEMMA FaultBound ==
    ASSUME TypeInv
    PROVE  /\ Works => faults' \in 0..MaxFaults
           /\ Fault => faults' \in 0..MaxFaults
BY BoundAssumption DEF TypeInv, CountType, Works, Fault

\* A run whose loop is written afresh is no longer a round of it.
LEMMA ForgetType ==
    ASSUME TypeInv, NEW p \in Plans,
           roundOf' = [r \in Runs |-> IF roundOf[r] = p THEN 0 ELSE roundOf[r]]
    PROVE  roundOf' \in [Runs -> Plans \cup {0}]
BY DEF TypeInv, CountType

-----------------------------------------------------------------------------
(* Every action keeps the types; one lemma for each group of actions.      *)

\* A loop of the session satisfies what the lemmas on loops ask for.
LEMMA LoopShape ==
    ASSUME TypeInv, NEW p \in Plans
    PROVE  /\ loop[p] \in LoopRecord
           /\ loop[p].status # "stopped" => loop[p].idle < IdleLimit
           /\ loop[p].status \in LoopStatus
BY DEF TypeInv, LoopType, IdleBelow, LoopRecord

\* Interrupting or stopping a loop, for whatever reason.
LEMMA HaltTypes ==
    ASSUME TypeInv, NEW p \in Plans, NEW by \in Reasons,
           \/ Halt(p, Stopped(loop[p], by))
           \/ loop[p].status = "running" /\ Halt(p, Interrupted(loop[p], by))
    PROVE  TypeInv'
<1>1. LoopType'
  BY LoopShape, LoopOperations, AtType DEF Halt
<1>2. PlanType' /\ CtlType'
  BY PlanWrites DEF Halt, PlanType, CtlType, Stages
<1> QED BY <1>1, <1>2 DEF Halt, TypeInv, RunType, CountType

\* What the user does keeps the types.
LEMMA UserTypes == ASSUME TypeInv, UserStep PROVE TypeInv'
<1>1. ASSUME NEW p \in Plans, CreatePlan(p) PROVE TypeInv'
  <2>1. PlanType' /\ CountType'
    BY <1>1, PlanWrites, FaultBound, ZenonT(60) DEF CreatePlan, Rewritten, PlanType, CountType, TypeInv
  <2> QED BY <1>1, <2>1 DEF CreatePlan, TypeInv, LoopType, IdleBelow, RunType, CtlType
<1>2. ASSUME NEW p \in Plans, UpdatePlan(p) PROVE TypeInv'
  <2>1. PlanType' /\ CountType'
    <3>1. PlanType'
      BY <1>2, PlanWrites DEF UpdatePlan, Rewritten, PlanType
    <3>2. faults' \in 0..MaxFaults
      BY <1>2, FaultBound DEF UpdatePlan, Rewritten
    <3>3. roundOf' \in [Runs -> Plans \cup {0}]
      BY <1>2, ForgetType DEF UpdatePlan
    <3> QED BY <1>2, <3>1, <3>2, <3>3 DEF UpdatePlan, CountType, TypeInv
  <2>2. NoLoop \in LoopRecord /\ NoLoop.idle < IdleLimit
    BY IdleAssumption, CountAssumption DEF NoLoop, LoopRecord, LoopStatus, Reasons
  <2>3. LoopType'
    BY <1>2, <2>2, AtType DEF UpdatePlan
  <2> QED BY <1>2, <2>1, <2>3 DEF UpdatePlan, TypeInv, RunType, CtlType
<1>3. ASSUME NEW p \in Plans, NEW goal \in {"start", "resume"}, AskLoop(p, goal) PROVE TypeInv'
  BY <1>3 DEF AskLoop, TypeInv, PlanType, LoopType, IdleBelow, RunType, CtlType, CountType, Stages
<1>4. ASSUME NEW p \in Plans, StopLoop(p) PROVE TypeInv'
  BY <1>4, HaltTypes DEF StopLoop, Reasons
<1>5. ASSUME NEW p \in Plans, PauseLoop(p) PROVE TypeInv'
  BY <1>5, HaltTypes DEF PauseLoop, Reasons
<1>6. ASSUME NEW r \in Runs, StartRun(r) PROVE TypeInv'
  <2>1. RunType'
    BY <1>6, RunsAssumption DEF StartRun, TypeInv, RunType, Phases, Active
  <2> QED BY <1>6, <2>1 DEF StartRun, TypeInv, PlanType, LoopType, IdleBelow, CtlType, CountType
<1>7. ASSUME NEW r \in Runs, CancelRun(r) PROVE TypeInv'
  <2>1. RunType' /\ CountType'
    BY <1>7, EndsAsType
    DEF CancelRun, ActiveRuns, RunTerminal, TypeInv, RunType, CountType
  <2> QED BY <1>7, <2>1 DEF CancelRun, TypeInv, PlanType, LoopType, IdleBelow, CtlType
<1>8. ASSUME ListPlans PROVE TypeInv'
  BY <1>8, PlanWrites
  DEF ListPlans, TypeInv, PlanType, LoopType, IdleBelow, RunType, CtlType, CountType
<1> QED BY <1>1, <1>2, <1>3, <1>4, <1>5, <1>6, <1>7, <1>8 DEF UserStep

\* The operation that holds startMu works on a plan.
LEMMA CtlShape ==
    ASSUME TypeInv, ctl.stage # "idle"
    PROVE  /\ ctl \in [stage: Stages, plan: Plans, goal: {"none", "start", "resume"},
                       run: Runs \cup {None}]
           /\ ctl.plan \in Plans
BY DEF TypeInv, CtlType, Idle

\* What the holder of startMu does keeps the types.
LEMMA ControlTypes == ASSUME TypeInv, ControlStep PROVE TypeInv'
<1>1. ASSUME SettleLoop PROVE TypeInv'
  <2>1. CASE UNCHANGED <<plan, loop>> /\ Fault /\ ctl' = Idle
    BY <1>1, <2>1, FaultBound
    DEF SettleLoop, TypeInv, PlanType, LoopType, IdleBelow, RunType, CtlType, CountType, Idle
  <2>2. ASSUME NEW p \in RunningLoops,
               At(p, Settled(loop[p], plan[p], RunStatusOf(loop[p].run))),
               plan' = Queue(plan), ctl' = ctl, Works
        PROVE  TypeInv'
    <3>1. p \in Plans /\ loop[p].status = "running"
      BY DEF RunningLoops
    <3>2. LoopType'
      BY <2>2, <3>1, LoopShape, SettledShape, AtType
    <3>3. PlanType' /\ CtlType'
      BY <2>2, PlanWrites DEF PlanType, CtlType, TypeInv
    <3>4. faults' \in 0..MaxFaults
      BY <2>2, FaultBound
    <3> QED BY <1>1, <3>2, <3>3, <3>4 DEF SettleLoop, TypeInv, RunType, CountType
  <2> QED BY <1>1, <2>1, <2>2 DEF SettleLoop
<1>2. ASSUME MutateLoop PROVE TypeInv'
  <2> DEFINE p == ctl.plan
  <2>1. ctl.stage = "prepare" /\ p \in Plans /\ ctl # Idle
    BY <1>2 DEF MutateLoop, TypeInv, CtlType, Idle
  <2>2. CtlType'
    BY <1>2, <2>1 DEF MutateLoop, TypeInv, CtlType, Stages, Idle
  <2>3. PlanType'
    BY <1>2, PlanWrites DEF MutateLoop, TypeInv, PlanType
  <2>4. LoopType'
    <3>1. CASE \E n \in 1..RoundLimit : At(p, Started(n))
      BY <3>1, <2>1, LoopShape, LoopOperations, AtType
    <3>2. CASE loop[p].status = "paused" /\ At(p, Resumed(loop[p]))
      BY <3>2, <2>1, LoopShape, LoopOperations, AtType
    <3>3. CASE UNCHANGED loop
      BY <3>3 DEF TypeInv, LoopType, IdleBelow
    <3> QED BY <1>2, <3>1, <3>2, <3>3 DEF MutateLoop
  <2>5. roundOf' \in [Runs -> Plans \cup {0}]
    <3>1. CASE UNCHANGED roundOf
      BY <3>1 DEF TypeInv, CountType
    <3> QED BY <1>2, <2>1, <3>1, ForgetType DEF MutateLoop
  <2>6. faults' \in 0..MaxFaults
    BY <1>2, FaultBound DEF MutateLoop, TypeInv, CountType
  <2> QED BY <1>2, <2>2, <2>3, <2>4, <2>5, <2>6 DEF MutateLoop, TypeInv, RunType, CountType
<1>3. ASSUME BeginRound PROVE TypeInv'
  <2>1. ctl.plan \in Plans
    BY <1>3, CtlShape DEF BeginRound
  <2>2. PlanType'
    BY <1>3, PlanWrites DEF BeginRound, TypeInv, PlanType
  <2>4. CtlType'
    <3>1. ASSUME NEW r \in Runs, ctl' = [ctl EXCEPT !.stage = "save", !.run = r]
          PROVE  CtlType'
      <4>1. ctl.stage # "idle"
        BY <1>3 DEF BeginRound
      <4>2. ctl' \in [stage: Stages, plan: Plans, goal: {"none", "start", "resume"},
                      run: Runs \cup {None}] /\ ctl'.run = r
        BY <4>1, <3>1, CtlShape DEF Stages
      <4> QED BY <4>2 DEF CtlType
    <3>2. CASE ctl' = [ctl EXCEPT !.stage = "giveUp"]
      BY <1>3, <3>2, CtlShape DEF BeginRound, CtlType, Stages
    <3> QED BY <1>3, <3>1, <3>2 DEF BeginRound
  <2>3. LoopType'
    <3>1. CASE UNCHANGED loop
      BY <3>1 DEF TypeInv, LoopType, IdleBelow
    <3>2. ASSUME NEW r \in Runs, CanBegin(loop[ctl.plan]),
                 At(ctl.plan, Begun(loop[ctl.plan], r))
          PROVE  LoopType'
      BY <3>2, <2>1, LoopShape, LoopOperations, AtType
    <3> QED BY <1>3, <3>1, <3>2 DEF BeginRound
  <2> QED BY <1>3, <2>2, <2>3, <2>4 DEF BeginRound, TypeInv, RunType, CountType
<1>4. ASSUME SaveRound PROVE TypeInv'
  <2>1. ctl.stage = "save" /\ ctl.run \in Runs /\ ctl.plan \in Plans /\ ctl # Idle
    BY <1>4 DEF SaveRound, TypeInv, CtlType, Idle
  <2>2. CtlType'
    BY <1>4, <2>1 DEF SaveRound, TypeInv, CtlType, Stages, Idle
  <2>3. RunType'
    BY <1>4, <2>1 DEF SaveRound, TypeInv, RunType, Phases, Active
  <2>4. faults' \in 0..MaxFaults
    BY <1>4, FaultBound DEF SaveRound
  <2>5. roundOf' \in [Runs -> Plans \cup {0}]
    BY <1>4, <2>1 DEF SaveRound, TypeInv, CountType
  <2> QED BY <1>4, <2>2, <2>3, <2>4, <2>5
          DEF SaveRound, TypeInv, PlanType, LoopType, IdleBelow, CountType
<1>5. ASSUME GiveUp PROVE TypeInv'
  <2>1. ctl.plan \in Plans
    BY <1>5 DEF GiveUp, TypeInv, CtlType, Idle
  <2>2. PlanType' /\ CtlType' /\ faults' \in 0..MaxFaults
    BY <1>5, PlanWrites, FaultBound DEF GiveUp, TypeInv, PlanType, CtlType, CountType, Idle
  <2>3. LoopType'
    <3>1. CASE UNCHANGED loop
      BY <3>1 DEF TypeInv, LoopType, IdleBelow
    <3>2. CASE /\ loop[ctl.plan].status = "running"
               /\ At(ctl.plan, Interrupted(loop[ctl.plan], "run_failed"))
      <4>1. "run_failed" \in Reasons
        BY DEF Reasons
      <4> QED BY <3>2, <4>1, <2>1, LoopShape, LoopOperations, AtType
    <3> QED BY <1>5, <3>1, <3>2 DEF GiveUp
  <2> QED BY <1>5, <2>2, <2>3 DEF GiveUp, TypeInv, RunType, CountType
<1>6. ASSUME CancelSessionRun PROVE TypeInv'
  <2>1. PICK r \in ActiveRuns : /\ cancelRequested' = cancelRequested \cup {r}
                                /\ EndsAs(r, "canceled")
    BY <1>6 DEF CancelSessionRun
  <2>2. r \in Runs /\ phase[r] \in Active /\ "canceled" \in RunTerminal
    BY DEF ActiveRuns, RunTerminal
  <2>3. RunType' /\ CountType'
    BY <1>6, <2>1, <2>2, EndsAsType
    DEF CancelSessionRun, TypeInv, RunType, CountType
  <2> QED BY <1>6, <2>3 DEF CancelSessionRun, TypeInv, PlanType, LoopType, IdleBelow, CtlType
<1>7. ASSUME CancelDone PROVE TypeInv'
  BY <1>7 DEF CancelDone, TypeInv, PlanType, LoopType, IdleBelow, RunType, CtlType, CountType, Idle
<1> QED BY <1>1, <1>2, <1>3, <1>4, <1>5, <1>6, <1>7 DEF ControlStep

\* What a run does keeps the types.
LEMMA RunTypes == ASSUME TypeInv, NEW r \in Runs, RunStep(r) PROVE TypeInv'
<1>1. ASSUME RunWorks(r) PROVE TypeInv'
  <2>1. RunType'
    BY <1>1 DEF RunWorks, Enter, TypeInv, RunType, Phases, Active, Working
  <2> QED BY <1>1, <2>1 DEF RunWorks, TypeInv, PlanType, LoopType, IdleBelow, CtlType, CountType
<1>2. ASSUME StepReconcile(r) PROVE TypeInv'
  <2>1. RunType'
    BY <1>2 DEF StepReconcile, Enter, TypeInv, RunType, Phases, Active, Working
  <2>2. PlanType'
    BY <1>2, PlanWrites DEF StepReconcile, TypeInv, PlanType
  <2>3. faults' \in 0..MaxFaults
    BY <1>2, FaultBound DEF StepReconcile, TypeInv, CountType
  <2> QED BY <1>2, <2>1, <2>2, <2>3
          DEF StepReconcile, TypeInv, LoopType, IdleBelow, CtlType, CountType
<1>3. ASSUME PlanCreateCheck(r) PROVE TypeInv'
  <2>1. RunType'
    BY <1>3 DEF PlanCreateCheck, Enter, TypeInv, RunType, Phases, Active, Working
  <2>2. faults' \in 0..MaxFaults
    BY <1>3, FaultBound DEF PlanCreateCheck, TypeInv, CountType
  <2> QED BY <1>3, <2>1, <2>2
          DEF PlanCreateCheck, TypeInv, PlanType, LoopType, IdleBelow, CtlType, CountType
<1>4. ASSUME PlanCreate(r) PROVE TypeInv'
  <2>1. RunType'
    BY <1>4 DEF PlanCreate, Enter, TypeInv, RunType, Phases, Active, Working
  <2>2. PlanType'
    BY <1>4, PlanWrites DEF PlanCreate, Rewritten, TypeInv, PlanType
  <2>3. faults' \in 0..MaxFaults
    BY <1>4, FaultBound DEF PlanCreate, Rewritten, TypeInv, CountType
  <2> QED BY <1>4, <2>1, <2>2, <2>3
          DEF PlanCreate, TypeInv, LoopType, IdleBelow, CtlType, CountType
<1>5. ASSUME RunEnds(r) PROVE TypeInv'
  <2>1. PICK st \in RunTerminal : EndsAs(r, st)
    BY <1>5 DEF RunEnds
  <2>2. RunType' /\ CountType'
    <3>1. /\ phase' \in [Runs -> Phases]
          /\ cancelRequested' \subseteq {x \in Runs : phase'[x] \in Active}
      BY <1>5 DEF RunEnds, Enter, TypeInv, RunType, Phases, Active, Working
    <3> QED BY <1>5, <2>1, <3>1, EndsAsType DEF RunEnds, TypeInv, RunType, CountType
  <2> QED BY <1>5, <2>2 DEF RunEnds, TypeInv, PlanType, LoopType, IdleBelow, CtlType
<1>6. ASSUME ClearActive(r) PROVE TypeInv'
  <2>1. RunType'
    BY <1>6 DEF ClearActive, Enter, TypeInv, RunType, Phases
  <2> QED BY <1>6, <2>1
          DEF ClearActive, TypeInv, PlanType, LoopType, IdleBelow, CtlType, CountType
<1>7. ASSUME AdvanceLoop(r) PROVE TypeInv'
  <2>1. RunType'
    BY <1>7 DEF AdvanceLoop, Enter, TypeInv, RunType, Phases, Active, Working
  <2>2. PlanType' /\ faults' \in 0..MaxFaults
    BY <1>7, PlanWrites, FaultBound DEF AdvanceLoop, TypeInv, PlanType, CountType
  <2>3. LoopType' /\ CtlType'
    <3>1. CASE UNCHANGED <<loop, ctl>>
      BY <3>1 DEF TypeInv, LoopType, IdleBelow, CtlType
    <3>2. ASSUME NEW p \in DrivenBy(r),
                 At(p, Evaluated(loop[p], plan[p])),
                 ctl' = IF Evaluated(loop[p], plan[p]).status = "running"
                        THEN [stage |-> "begin", plan |-> p, goal |-> "none", run |-> None]
                        ELSE Idle
          PROVE  LoopType' /\ CtlType'
      <4>1. p \in Plans /\ loop[p].status = "running"
        BY DEF DrivenBy, RunningLoops
      <4>2. LoopType'
        BY <3>2, <4>1, LoopShape, EvaluatedShape, AtType
      <4>3. CtlType'
        BY <3>2, <4>1 DEF CtlType, Stages, Idle
      <4> QED BY <4>2, <4>3
    <3>3. ASSUME NEW p \in DrivenBy(r), At(p, Interrupted(loop[p], "run_failed")),
                 UNCHANGED ctl
          PROVE  LoopType' /\ CtlType'
      <4>1. p \in Plans /\ loop[p].status = "running" /\ "run_failed" \in Reasons
        BY DEF DrivenBy, RunningLoops, Reasons
      <4>2. LoopType'
        BY <3>3, <4>1, LoopShape, LoopOperations, AtType
      <4> QED BY <3>3, <4>2 DEF CtlType, TypeInv
    <3> QED BY <1>7, <3>1, <3>2, <3>3 DEF AdvanceLoop
  <2> QED BY <1>7, <2>1, <2>2, <2>3 DEF AdvanceLoop, TypeInv, CountType
<1>8. ASSUME NEW p \in Plans, StepUpdate(r, p) PROVE TypeInv'
  <2>1. RunType'
    BY <1>8 DEF StepUpdate, Enter, TypeInv, RunType, Phases, Active, Working
  <2>2. PlanType'
    BY <1>8, PlanWrites DEF StepUpdate, PlanType
  <2>3. LoopType'
    <3>1. PICK differs \in BOOLEAN : At(p, [loop[p] EXCEPT !.progressed = differs])
      BY <1>8 DEF StepUpdate
    <3> DEFINE lp == [loop[p] EXCEPT !.progressed = differs]
    <3>2. lp \in LoopRecord /\ lp.status = loop[p].status /\ lp.idle = loop[p].idle
      BY LoopShape DEF LoopRecord
    <3>3. At(p, lp)
      BY <3>1
    <3> HIDE DEF lp
    <3> QED BY <3>2, <3>3, LoopShape, AtType
  <2> QED BY <1>8, <2>1, <2>2, <2>3 DEF StepUpdate, TypeInv, CtlType, CountType
<1>9. ASSUME NEW p \in Plans, AgentInterrupt(r, p) PROVE TypeInv'
  BY <1>9, HaltTypes DEF AgentInterrupt, Reasons
<1> QED BY <1>1, <1>2, <1>3, <1>4, <1>5, <1>6, <1>7, <1>8, <1>9 DEF RunStep

\* A crash and the restart that follows it keep the types.
LEMMA CrashTypes == ASSUME TypeInv, CrashAndRestart PROVE TypeInv'
<1>1. RunType'
  BY DEF CrashAndRestart, AfterCrash, TypeInv, RunType, Phases, RunTerminal
<1>2. PlanType' /\ CtlType'
  BY PlanWrites DEF CrashAndRestart, TypeInv, PlanType, CtlType, Idle
<1>3. CountType'
  <2>1. faults' \in 0..MaxFaults
    BY FaultBound DEF CrashAndRestart
  <2> QED BY <2>1, BoundAssumption DEF CrashAndRestart, TypeInv, CountType
<1>4. LoopType'
  <2>1. PICK missed \in SUBSET RunningLoops :
          loop' = [p \in Plans |->
              IF p \in RunningLoops \ missed
              THEN Settled(loop[p], plan[p],
                           IF loop[p].run = None THEN "none" ELSE AfterCrash(loop[p].run))
              ELSE loop[p]]
    BY DEF CrashAndRestart
  <2>2. ASSUME NEW p \in Plans
        PROVE  loop'[p] \in LoopRecord /\ (loop'[p].status # "stopped" => loop'[p].idle < IdleLimit)
    <3>1. CASE p \in RunningLoops \ missed
      <4>1. loop[p].status = "running"
        BY <3>1 DEF RunningLoops
      <4> QED BY <2>1, <3>1, <4>1, LoopShape, SettledShape
    <3>2. CASE p \notin RunningLoops \ missed
      BY <2>1, <3>2, LoopShape
    <3> QED BY <3>1, <3>2
  <2> QED BY <2>1, <2>2 DEF LoopType, IdleBelow
<1> QED BY <1>1, <1>2, <1>3, <1>4 DEF TypeInv

\* The types hold at the start.
LEMMA TypeStart == Init => TypeInv
<1>1. Init => LoopType
  <2>1. NoLoop \in LoopRecord /\ NoLoop.idle < IdleLimit
    BY IdleAssumption, CountAssumption DEF NoLoop, LoopRecord, LoopStatus, Reasons
  <2> QED BY <2>1 DEF Init, LoopType, IdleBelow
<1>2. Init => PlanType /\ RunType /\ CtlType
  BY DEF Init, PlanType, RunType, CtlType, Idle, Phases
<1>3. Init => CountType
  BY BoundAssumption DEF Init, CountType
<1> QED BY <1>1, <1>2, <1>3 DEF TypeInv

\* Every step keeps the types.
LEMMA TypeStep == TypeInv /\ [Next]_vars => TypeInv'
<1>1. CASE UNCHANGED vars
  BY <1>1 DEF vars, TypeInv, PlanType, LoopType, IdleBelow, RunType, CtlType, CountType
<1> QED BY <1>1, UserTypes, ControlTypes, RunTypes, CrashTypes DEF Next

\* Every variable stays in its type, and a loop that is not stopped has had
\* fewer idle rounds than the limit (EvaluatePlanLoopAfterRound).
THEOREM LoopTypes == Spec => [](TypeOK /\ IdleBelow)
<1>1. TypeInv => TypeOK /\ IdleBelow
  BY TypeParts DEF TypeInv, LoopType
<1> QED BY <1>1, TypeStart, TypeStep, PTL DEF Spec

-----------------------------------------------------------------------------
(* Which loops run.  Only MutateLoop makes a loop run that did not.        *)

\* One write to a loop that does not make it run.
LEMMA AtShrinks ==
    ASSUME TypeInv, NEW p \in Plans, NEW lp, At(p, lp),
           lp.status = "running" => loop[p].status = "running"
    PROVE  RunningLoops' \subseteq RunningLoops
BY DEF TypeInv, LoopType, At, RunningLoops

\* A loop that is interrupted or stopped does not run.
LEMMA HaltShrinks ==
    ASSUME TypeInv, NEW p \in Plans, NEW by \in Reasons,
           At(p, Stopped(loop[p], by)) \/ At(p, Interrupted(loop[p], by))
    PROVE  RunningLoops' \subseteq RunningLoops
<1>1. /\ Stopped(loop[p], by).status # "running"
      /\ Interrupted(loop[p], by).status # "running"
  BY LoopShape, LoopOperations
<1> QED BY <1>1, AtShrinks

\* Every step but MutateLoop leaves the loops that do not run as they are.
LEMMA RunningShrinks ==
    ASSUME TypeInv, [Next]_vars, ~MutateLoop
    PROVE  RunningLoops' \subseteq RunningLoops
<1> USE DEF Reasons
<1>1. CASE UNCHANGED loop
  BY <1>1 DEF RunningLoops
<1>2. ASSUME NEW p \in Plans, UpdatePlan(p) PROVE RunningLoops' \subseteq RunningLoops
  BY <1>2, AtShrinks DEF UpdatePlan, NoLoop
<1>3. ASSUME NEW p \in Plans, \/ StopLoop(p) \/ PauseLoop(p) \/ \E r \in Runs : AgentInterrupt(r, p)
      PROVE  RunningLoops' \subseteq RunningLoops
  BY <1>3, HaltShrinks DEF StopLoop, PauseLoop, AgentInterrupt, Halt
<1>4. ASSUME SettleLoop PROVE RunningLoops' \subseteq RunningLoops
  BY <1>1, <1>4, AtShrinks DEF SettleLoop, RunningLoops
<1>5. ASSUME BeginRound PROVE RunningLoops' \subseteq RunningLoops
  BY <1>1, <1>5, CtlShape, AtShrinks DEF BeginRound, CanBegin
<1>6. ASSUME GiveUp PROVE RunningLoops' \subseteq RunningLoops
  BY <1>1, <1>6, CtlShape, HaltShrinks DEF GiveUp
<1>7. ASSUME NEW r \in Runs, NEW p \in Plans, StepUpdate(r, p)
      PROVE  RunningLoops' \subseteq RunningLoops
  <2>1. PICK differs \in BOOLEAN : At(p, [loop[p] EXCEPT !.progressed = differs])
    BY <1>7 DEF StepUpdate
  <2>2. [loop[p] EXCEPT !.progressed = differs].status = loop[p].status
    BY LoopShape DEF LoopRecord
  <2> QED BY <2>1, <2>2, AtShrinks
<1>8. ASSUME NEW r \in Runs, AdvanceLoop(r) PROVE RunningLoops' \subseteq RunningLoops
  BY <1>1, <1>8, AtShrinks DEF AdvanceLoop, DrivenBy, RunningLoops
<1>9. ASSUME CrashAndRestart PROVE RunningLoops' \subseteq RunningLoops
  BY <1>9 DEF CrashAndRestart, RunningLoops
<1> QED
  BY <1>1, <1>2, <1>3, <1>4, <1>5, <1>6, <1>7, <1>8, <1>9
  DEF Next, vars, RunStep, ControlStep, UserStep, CreatePlan, AskLoop, StartRun, CancelRun,
      ListPlans, RunWorks, StepReconcile, PlanCreateCheck, PlanCreate, RunEnds, ClearActive,
      SaveRound, CancelSessionRun, CancelDone

\* MutateLoop makes at most one loop run, and only when none does.
LEMMA MutateStarts ==
    ASSUME TypeInv, MutateLoop
    PROVE  RunningLoops = {} /\ RunningLoops' \subseteq {ctl.plan}
<1>1. ctl.plan \in Plans
  BY CtlShape DEF MutateLoop
<1>2. UNCHANGED loop \/ \E lp : At(ctl.plan, lp)
  BY DEF MutateLoop
<1> QED BY <1>1, <1>2 DEF MutateLoop, RunningLoops, At, TypeInv, LoopType

\* At most one loop of the session runs, whatever the number of its plans,
\* through every start, resume, round, crash and restart.
THEOREM OneLoopRuns == Spec => []OneLoop
<1>1. Init => OneLoop
  BY DEF Init, OneLoop, RunningLoops, NoLoop
<1>2. TypeInv /\ OneLoop /\ [Next]_vars => OneLoop'
  <2> SUFFICES ASSUME TypeInv, OneLoop, [Next]_vars PROVE OneLoop'
    OBVIOUS
  <2>1. CASE MutateLoop
    BY <2>1, MutateStarts DEF OneLoop
  <2>2. CASE ~MutateLoop
    BY <2>2, RunningShrinks DEF OneLoop
  <2> QED BY <2>1, <2>2
<1> QED BY <1>1, <1>2, TypeStart, TypeStep, PTL DEF Spec

-----------------------------------------------------------------------------
(* plan_create against the start of a loop.  The operation that has found  *)
(* the session without runs holds startMu until it has written the loop.   *)

Prepared == ctl.stage = "prepare" => ActiveRuns = {}

\* Steps that leave ctl in "prepare" bring no run into the active map.
LEMMA PreparedStep ==
    ASSUME TypeInv, Prepared, [Next]_vars
    PROVE  Prepared'
<1> SUFFICES ASSUME ctl'.stage = "prepare" PROVE ActiveRuns' = {}
  BY DEF Prepared
<1>1. CASE UNCHANGED vars
  BY <1>1 DEF Prepared, vars, ActiveRuns
<1>2. ASSUME NEW r \in Runs, RunStep(r) PROVE ActiveRuns' = {}
  <2>1. phase[r] \in Active \/ AdvanceLoop(r)
    BY <1>2 DEF RunStep, RunWorks, StepReconcile, PlanCreateCheck, PlanCreate, RunEnds,
                ClearActive, StepUpdate, AgentInterrupt, Active, Working
  <2>2. CASE AdvanceLoop(r)
    <3>1. ctl = Idle
      BY <2>2 DEF AdvanceLoop
    <3> QED BY <2>2, <3>1 DEF AdvanceLoop, Idle
  <2>3. CASE phase[r] \in Active
    <3>1. ctl.stage # "prepare"
      BY <2>3 DEF Prepared, ActiveRuns
    <3> QED BY <1>2, <2>2, <3>1
            DEF RunStep, RunWorks, StepReconcile, PlanCreateCheck, PlanCreate, RunEnds,
                ClearActive, StepUpdate, AgentInterrupt, Halt
  <2> QED BY <2>1, <2>2, <2>3
<1>3. ASSUME ControlStep PROVE ActiveRuns' = {}
  <2>1. CASE SettleLoop
    BY <2>1 DEF SettleLoop, Prepared, ActiveRuns
  <2>2. CASE MutateLoop \/ BeginRound \/ GiveUp \/ CancelSessionRun \/ CancelDone
    <3>1. CASE BeginRound
      <4>1. ASSUME NEW r, ctl' = [ctl EXCEPT !.stage = "save", !.run = r]
            PROVE  FALSE
        <5>1. ctl.stage # "idle"
          BY <3>1 DEF BeginRound
        <5>2. ctl'.stage = "save"
          BY <4>1, <5>1, CtlShape
        <5> QED BY <5>2
      <4>2. CASE ctl' = [ctl EXCEPT !.stage = "giveUp"]
        BY <3>1, <4>2, CtlShape DEF BeginRound
      <4> QED BY <3>1, <4>1, <4>2 DEF BeginRound
    <3>2. CASE MutateLoop
      <4>1. ctl' = Idle \/ ctl' = [ctl EXCEPT !.stage = "begin"]
        BY <3>2 DEF MutateLoop
      <4> QED BY <3>2, <4>1, CtlShape DEF MutateLoop, Idle
    <3>3. CASE GiveUp \/ CancelDone
      BY <3>3 DEF GiveUp, CancelDone, Idle
    <3>4. CASE CancelSessionRun
      BY <3>4 DEF CancelSessionRun
    <3> QED BY <2>2, <3>1, <3>2, <3>3, <3>4
  <2>3. CASE SaveRound
    BY <2>3, CtlShape DEF SaveRound, Idle
  <2> QED BY <1>3, <2>1, <2>2, <2>3 DEF ControlStep
<1>4. ASSUME UserStep PROVE ActiveRuns' = {}
  <2>1. CASE \E p \in Plans, goal \in {"start", "resume"} : AskLoop(p, goal)
    BY <2>1 DEF AskLoop, HasActiveSession, ActiveRuns
  <2>2. CASE ctl' = ctl /\ UNCHANGED phase
    BY <2>2 DEF Prepared, ActiveRuns
  <2>3. CASE \E p \in Plans : StopLoop(p) \/ PauseLoop(p)
    BY <2>3 DEF StopLoop, PauseLoop, Halt
  <2>4. CASE \E r \in Runs : StartRun(r)
    BY <2>4 DEF StartRun, Idle
  <2> QED BY <1>4, <2>1, <2>2, <2>3, <2>4
          DEF UserStep, CreatePlan, UpdatePlan, CancelRun, ListPlans
<1>5. ASSUME CrashAndRestart PROVE ActiveRuns' = {}
  BY <1>5 DEF CrashAndRestart, Idle
<1> QED BY <1>1, <1>2, <1>3, <1>4, <1>5 DEF Next

\* A run enters "planning" only after it has seen that no loop runs; one whose
\* look failed is "blind".
LEMMA PlanningStarts ==
    ASSUME TypeInv, [Next]_vars, NEW r \in Runs, phase'[r] = "planning"
    PROVE  phase[r] = "planning" \/ (RunningLoops = {} /\ UNCHANGED loop)
<1>1. CASE UNCHANGED phase
  BY <1>1
<1>2. ASSUME NEW x \in Runs, RunStep(x)
      PROVE  phase[r] = "planning" \/ (RunningLoops = {} /\ UNCHANGED loop)
  <2>1. phase' = phase \/ PlanCreateCheck(x)
        \/ \E ph \in {"working", "updated", "ended", "clearing", "gone"} : Enter(x, ph)
    BY <1>2 DEF RunStep, RunWorks, StepReconcile, PlanCreate, RunEnds, ClearActive,
                AdvanceLoop, StepUpdate, AgentInterrupt, Halt
  <2>2. CASE PlanCreateCheck(x)
    BY <2>2 DEF PlanCreateCheck, Enter, TypeInv, RunType
  <2> QED BY <2>1, <2>2 DEF Enter, TypeInv, RunType
<1>3. ASSUME SaveRound \/ (\E x \in Runs : StartRun(x))
      PROVE  phase[r] = "planning"
  BY <1>3 DEF SaveRound, StartRun, TypeInv, RunType
<1>4. ASSUME CrashAndRestart PROVE FALSE
  BY <1>4 DEF CrashAndRestart
<1> QED
  BY <1>1, <1>2, <1>3, <1>4
  DEF Next, vars, ControlStep, UserStep, CreatePlan, UpdatePlan, AskLoop, CancelRun, ListPlans,
      StopLoop, PauseLoop, Halt, SettleLoop, MutateLoop, BeginRound, GiveUp,
      CancelSessionRun, CancelDone

\* Between a look of plan_create that found no running loop in the session and
\* the plan it creates, no loop starts: starting one needs a session without
\* runs.  (A look that failed finds none either; that call is "blind".)
THEOREM PlanningAlone == Spec => []NoPlanningInLoop
<1> DEFINE Inv == TypeInv /\ Prepared /\ NoPlanningInLoop
<1>1. Init => Prepared /\ NoPlanningInLoop
  BY DEF Init, Prepared, NoPlanningInLoop, Idle
<1>2. Inv /\ [Next]_vars => NoPlanningInLoop'
  <2> SUFFICES ASSUME Inv, [Next]_vars, NEW r \in Runs, phase'[r] = "planning"
               PROVE  RunningLoops' = {}
    BY DEF NoPlanningInLoop
  <2>1. CASE RunningLoops = {} /\ UNCHANGED loop
    BY <2>1 DEF RunningLoops
  <2>2. CASE phase[r] = "planning"
    <3>1. RunningLoops = {}
      BY <2>2 DEF NoPlanningInLoop
    <3>2. ~MutateLoop
      BY <2>2 DEF MutateLoop, Prepared, ActiveRuns, Active, Working
    <3> QED BY <3>1, <3>2, RunningShrinks
  <2> QED BY <2>1, <2>2, PlanningStarts
<1> QED BY <1>1, <1>2, TypeStart, TypeStep, PreparedStep, PTL DEF Spec

-----------------------------------------------------------------------------
(* Why a loop was halted.                                                  *)

\* A write to one loop replaces no reason but that loop's.
LEMMA AtReason ==
    ASSUME TypeInv, NEW p \in Plans, NEW q \in Plans, NEW lp, At(q, lp),
           q = p => lp.by \in {loop[p].by, "user", "none"}
    PROVE  loop'[p].by \in {loop[p].by, "user", "none"}
BY DEF TypeInv, LoopType, At

\* A loop that an agent or a user halted is only written by a user: to start,
\* to resume or to stop it, or to rebuild its plan.
LEMMA ReasonStep ==
    ASSUME TypeInv, [Next]_vars, NEW p \in Plans,
           loop[p].status \in {"paused", "stopped"}, loop[p].by \in {"agent", "user"}
    PROVE  loop'[p].by \in {loop[p].by, "user", "none"}
<1> DEFINE Good == loop'[p].by \in {loop[p].by, "user", "none"}
<1> USE DEF Reasons
<1>0. loop[p].status # "running"
  OBVIOUS
<1>1. CASE UNCHANGED loop
  BY <1>1
<1>2. ASSUME NEW q \in Plans, UpdatePlan(q) PROVE Good
  BY <1>2, AtReason DEF UpdatePlan, NoLoop
<1>3. ASSUME NEW q \in Plans, StopLoop(q) PROVE Good
  <2>1. Stopped(loop[q], "user").by \in {loop[q].by, "user"}
    BY LoopShape, LoopOperations, ZenonT(60)
  <2> QED BY <1>3, <2>1, AtReason DEF StopLoop, Halt
<1>4. ASSUME NEW q \in Plans, PauseLoop(q) \/ \E r \in Runs : AgentInterrupt(r, q) PROVE Good
  BY <1>4, <1>0, AtReason DEF PauseLoop, AgentInterrupt, Halt
<1>5. ASSUME SettleLoop PROVE Good
  BY <1>5, <1>0, <1>1, AtReason DEF SettleLoop, RunningLoops
<1>6. ASSUME MutateLoop PROVE Good
  <2>1. ctl.plan \in Plans
    BY <1>6, CtlShape DEF MutateLoop
  <2>2. \A n \in 1..RoundLimit : Started(n).by = "none"
    BY DEF Started, NoLoop
  <2>3. Resumed(loop[ctl.plan]).by = "none"
    BY <2>1, LoopShape DEF Resumed, LoopRecord
  <2>4. UNCHANGED loop \/ \E lp : At(ctl.plan, lp) /\ lp.by = "none"
    BY <1>6, <2>2, <2>3 DEF MutateLoop
  <2> QED BY <1>1, <2>1, <2>4, AtReason
<1>7. ASSUME BeginRound PROVE Good
  BY <1>7, <1>0, <1>1, CtlShape, AtReason DEF BeginRound, CanBegin
<1>8. ASSUME GiveUp PROVE Good
  BY <1>8, <1>0, <1>1, CtlShape, AtReason DEF GiveUp
<1>9. ASSUME NEW r \in Runs, NEW q \in Plans, StepUpdate(r, q) PROVE Good
  <2>1. PICK differs \in BOOLEAN : At(q, [loop[q] EXCEPT !.progressed = differs])
    BY <1>9 DEF StepUpdate
  <2>2. [loop[q] EXCEPT !.progressed = differs].by = loop[q].by
    BY LoopShape DEF LoopRecord
  <2> QED BY <2>1, <2>2, AtReason
<1>10. ASSUME NEW r \in Runs, AdvanceLoop(r) PROVE Good
  BY <1>10, <1>0, <1>1, AtReason DEF AdvanceLoop, DrivenBy, RunningLoops
<1>11. ASSUME CrashAndRestart PROVE Good
  BY <1>11, <1>0 DEF CrashAndRestart, RunningLoops
<1> QED
  BY <1>1, <1>2, <1>3, <1>4, <1>5, <1>6, <1>7, <1>8, <1>9, <1>10, <1>11
  DEF Next, vars, RunStep, ControlStep, UserStep, CreatePlan, AskLoop, StartRun, CancelRun,
      ListPlans, RunWorks, StepReconcile, PlanCreateCheck, PlanCreate, RunEnds, ClearActive,
      SaveRound, CancelSessionRun, CancelDone

\* Neither the end of the run that is canceled, nor a failing round, nor the
\* repair after a crash replaces the reason an agent or a user gave.
THEOREM ReasonIsKept == Spec => PauseIsKept
<1>1. TypeInv /\ [Next]_vars =>
        [\A p \in Plans :
           loop[p].status \in {"paused", "stopped"} /\ loop[p].by \in {"agent", "user"}
               => loop'[p].by \in {loop[p].by, "user", "none"}]_vars
  BY ReasonStep
<1> QED BY <1>1, TypeStart, TypeStep, PTL DEF Spec, PauseIsKept

-----------------------------------------------------------------------------
(* The rounds of a plan loop against the runs that were sent for them.     *)
(* Fresh, Saving, Sending and Counted say what holds between the loops, the*)
(* runs and the operation that holds startMu.                              *)

\* A run that was never saved is nobody's round and has no goroutine.
Fresh == \A r \in Runs : runStatus[r] = "none" => roundOf[r] = 0 /\ phase[r] = "none"

\* The round about to be saved is the one its running loop has counted.
Saving ==
    ctl.stage = "save" =>
        /\ loop[ctl.plan].status = "running" /\ loop[ctl.plan].run = ctl.run
        /\ runStatus[ctl.run] = "none"

\* While a round is being sent, earlier rounds of its loop are being canceled.
Sending ==
    ctl.stage \in {"begin", "save", "giveUp"} =>
        \A r \in ActiveRuns : roundOf[r] = ctl.plan => r \in cancelRequested

\* The round about to be saved is counted already.
Counted == ctl.stage = "save" => Spent(ctl.plan) < loop[ctl.plan].round

-----------------------------------------------------------------------------
(* Which steps touch roundOf and the rounds of a loop.                     *)

\* Whoever saves a run makes it known; nothing else touches a fresh run.
LEMMA FreshStep ==
    ASSUME TypeInv, Fresh, Saving, [Next]_vars
    PROVE  Fresh'
<1>1. CASE UNCHANGED vars
  BY <1>1 DEF Fresh, vars
<1>2. ASSUME NEW r \in Runs, RunStep(r) PROVE Fresh'
  <2>1. phase[r] # "none"
    BY <1>2 DEF RunStep, RunWorks, StepReconcile, PlanCreateCheck, PlanCreate, RunEnds,
                ClearActive, AdvanceLoop, StepUpdate, AgentInterrupt
  <2>2. runStatus[r] # "none"
    BY <2>1 DEF Fresh
  <2>3. UNCHANGED roundOf /\ (phase' = phase \/ \E ph \in Phases : Enter(r, ph))
    BY <1>2 DEF RunStep, RunWorks, StepReconcile, PlanCreateCheck, PlanCreate, RunEnds,
                ClearActive, AdvanceLoop, StepUpdate, AgentInterrupt, Halt,
                Phases, Active, Working
  <2>4. \A x \in Runs : runStatus'[x] = "none" => runStatus[x] = "none"
    <3>1. CASE RunEnds(r)
      BY <3>1, EndsAsType DEF RunEnds
    <3>2. CASE UNCHANGED runStatus
      BY <3>2
    <3> QED BY <1>2, <3>1, <3>2
            DEF RunStep, RunWorks, StepReconcile, PlanCreateCheck, PlanCreate,
                ClearActive, AdvanceLoop, StepUpdate, AgentInterrupt, Halt
  <2> QED BY <2>2, <2>3, <2>4 DEF Fresh, Enter, TypeInv, RunType
<1>3. ASSUME ControlStep PROVE Fresh'
  <2>1. CASE SaveRound
    <3>1. ctl.run \in Runs
      BY <2>1 DEF SaveRound, TypeInv, CtlType
    <3> QED BY <2>1, <3>1 DEF SaveRound, Fresh, TypeInv, RunType, CountType
  <2>2. CASE MutateLoop
    BY <2>2 DEF MutateLoop, Fresh
  <2>3. CASE CancelSessionRun
    <3>1. PICK r \in ActiveRuns : EndsAs(r, "canceled")
      BY <2>3 DEF CancelSessionRun
    <3>2. r \in Runs /\ "canceled" \in RunTerminal
      BY DEF ActiveRuns, RunTerminal
    <3> QED BY <2>3, <3>1, <3>2, EndsAsType DEF CancelSessionRun, Fresh
  <2> QED BY <1>3, <2>1, <2>2, <2>3
          DEF ControlStep, SettleLoop, BeginRound, GiveUp, CancelDone, Fresh
<1>4. ASSUME UserStep PROVE Fresh'
  <2>1. ASSUME NEW r \in Runs, StartRun(r) PROVE Fresh'
    BY <2>1 DEF StartRun, Fresh, TypeInv, RunType
  <2>2. ASSUME NEW r \in Runs, CancelRun(r) PROVE Fresh'
    <3>1. "canceled" \in RunTerminal
      BY DEF RunTerminal
    <3> QED BY <2>2, <3>1, EndsAsType DEF CancelRun, Fresh
  <2>3. ASSUME NEW p \in Plans, UpdatePlan(p) PROVE Fresh'
    BY <2>3 DEF UpdatePlan, Fresh
  <2> QED BY <1>4, <2>1, <2>2, <2>3
          DEF UserStep, CreatePlan, StopLoop, PauseLoop, Halt, AskLoop, ListPlans, Fresh
<1>5. ASSUME CrashAndRestart PROVE Fresh'
  BY <1>5 DEF CrashAndRestart, AfterCrash, Fresh, TypeInv, RunType
<1> QED BY <1>1, <1>2, <1>3, <1>4, <1>5 DEF Next

\* The fields of a loop that a step rewrites, seen from one loop.
LEMMA AtLoop ==
    ASSUME TypeInv, NEW p \in Plans, NEW q \in Plans, NEW lp, At(q, lp)
    PROVE  loop'[p] = IF p = q THEN lp ELSE loop[p]
BY DEF TypeInv, LoopType, At

\* Only a rebuilt plan, a started loop and a begun round change what a loop
\* has counted.
LEMMA RoundsKept ==
    ASSUME TypeInv, [Next]_vars, ~MutateLoop, ~BeginRound,
           \A q \in Plans : ~UpdatePlan(q), NEW p \in Plans
    PROVE  loop'[p].round = loop[p].round /\ loop'[p].max = loop[p].max
<1> DEFINE Good == loop'[p].round = loop[p].round /\ loop'[p].max = loop[p].max
<1> USE DEF Reasons
<1>1. CASE UNCHANGED loop
  BY <1>1
<1>2. ASSUME NEW q \in Plans, NEW by \in Reasons,
             At(q, Stopped(loop[q], by)) \/ At(q, Interrupted(loop[q], by))
      PROVE  Good
  <2>1. \A x \in {Interrupted(loop[q], by), Stopped(loop[q], by)} :
          x.round = loop[q].round /\ x.max = loop[q].max
    BY LoopShape, LoopOperations
  <2> QED BY <1>2, <2>1, AtLoop
<1>3. ASSUME SettleLoop PROVE Good
  <2>1. ASSUME NEW q \in RunningLoops, NEW rs, At(q, Settled(loop[q], plan[q], rs)) PROVE Good
    <3>1. q \in Plans /\ loop[q].status = "running"
      BY DEF RunningLoops
    <3> QED BY <2>1, <3>1, LoopShape, SettledShape, AtLoop
  <2> QED BY <1>1, <1>3, <2>1 DEF SettleLoop
<1>4. ASSUME GiveUp PROVE Good
  BY <1>1, <1>2, <1>4, CtlShape DEF GiveUp
<1>5. ASSUME NEW q \in Plans, \/ StopLoop(q) \/ PauseLoop(q) \/ \E r \in Runs : AgentInterrupt(r, q)
      PROVE  Good
  BY <1>2, <1>5 DEF StopLoop, PauseLoop, AgentInterrupt, Halt
<1>6. ASSUME NEW r \in Runs, NEW q \in Plans, StepUpdate(r, q) PROVE Good
  <2>1. PICK differs \in BOOLEAN : At(q, [loop[q] EXCEPT !.progressed = differs])
    BY <1>6 DEF StepUpdate
  <2>2. /\ [loop[q] EXCEPT !.progressed = differs].round = loop[q].round
        /\ [loop[q] EXCEPT !.progressed = differs].max = loop[q].max
    BY LoopShape DEF LoopRecord
  <2> QED BY <2>1, <2>2, AtLoop
<1>7. ASSUME NEW r \in Runs, AdvanceLoop(r) PROVE Good
  <2>1. ASSUME NEW q \in DrivenBy(r), At(q, Evaluated(loop[q], plan[q])) PROVE Good
    <3>1. q \in Plans /\ loop[q].status = "running"
      BY DEF DrivenBy, RunningLoops
    <3> QED BY <2>1, <3>1, LoopShape, EvaluatedShape, AtLoop
  <2>2. ASSUME NEW q \in DrivenBy(r), At(q, Interrupted(loop[q], "run_failed")) PROVE Good
    BY <1>2, <2>2 DEF DrivenBy, RunningLoops
  <2> QED BY <1>1, <1>7, <2>1, <2>2 DEF AdvanceLoop
<1>8. ASSUME CrashAndRestart PROVE Good
  <2>1. PICK missed \in SUBSET RunningLoops :
          loop' = [q \in Plans |->
              IF q \in RunningLoops \ missed
              THEN Settled(loop[q], plan[q],
                           IF loop[q].run = None THEN "none" ELSE AfterCrash(loop[q].run))
              ELSE loop[q]]
    BY <1>8 DEF CrashAndRestart
  <2>2. CASE p \in RunningLoops \ missed
    <3>1. loop[p].status = "running"
      BY <2>2 DEF RunningLoops
    <3> QED BY <2>1, <2>2, <3>1, LoopShape, SettledShape
  <2>3. CASE p \notin RunningLoops \ missed
    BY <2>1, <2>3
  <2> QED BY <2>2, <2>3
<1> QED
  BY <1>1, <1>3, <1>4, <1>5, <1>6, <1>7, <1>8
  DEF Next, vars, RunStep, ControlStep, UserStep, CreatePlan, AskLoop, StartRun, CancelRun,
      ListPlans, RunWorks, StepReconcile, PlanCreateCheck, PlanCreate, RunEnds, ClearActive,
      SaveRound, CancelSessionRun, CancelDone

\* Runs become rounds when they are saved, and stop being rounds when the
\* loop is written afresh.
LEMMA RoundOfKept ==
    ASSUME [Next]_vars, ~MutateLoop, ~SaveRound, \A q \in Plans : ~UpdatePlan(q)
    PROVE  UNCHANGED roundOf
BY DEF Next, vars, RunStep, ControlStep, UserStep, CreatePlan, AskLoop, StartRun, CancelRun,
       ListPlans, StopLoop, PauseLoop, AgentInterrupt, Halt, RunWorks, StepReconcile,
       PlanCreateCheck, PlanCreate, StepUpdate, RunEnds, ClearActive, AdvanceLoop, SettleLoop,
       BeginRound, GiveUp, CancelSessionRun, CancelDone, CrashAndRestart

\* Only the action that begins a round leads to "save".
LEMMA SaveStage ==
    ASSUME TypeInv, [Next]_vars, ctl'.stage = "save"
    PROVE  BeginRound \/ ctl' = ctl
<1>1. CASE UNCHANGED ctl
  BY <1>1
<1>2. CASE \E p, goal : AskLoop(p, goal)
  BY <1>2 DEF AskLoop
<1>3. CASE \E p, lp : Halt(p, lp)
  BY <1>3 DEF Halt
<1>4. CASE SettleLoop \/ GiveUp \/ CancelDone \/ CrashAndRestart
  BY <1>4 DEF SettleLoop, GiveUp, CancelDone, CrashAndRestart, Idle
<1>5. CASE MutateLoop
  <2>1. ctl' = Idle \/ ctl' = [ctl EXCEPT !.stage = "begin"]
    BY <1>5 DEF MutateLoop
  <2> QED BY <1>5, <2>1, CtlShape DEF MutateLoop, Idle
<1>6. CASE SaveRound
  <2>1. ctl' = Idle \/ ctl' = [ctl EXCEPT !.stage = "giveUp"]
    BY <1>6 DEF SaveRound
  <2> QED BY <1>6, <2>1, CtlShape DEF SaveRound, Idle
<1>7. CASE \E r \in Runs : AdvanceLoop(r)
  BY <1>7 DEF AdvanceLoop, Idle
<1> QED
  BY <1>1, <1>2, <1>3, <1>4, <1>5, <1>6, <1>7
  DEF Next, vars, RunStep, ControlStep, UserStep, CreatePlan, UpdatePlan, StartRun, CancelRun,
      ListPlans, StopLoop, PauseLoop, AgentInterrupt, RunWorks, StepReconcile, PlanCreateCheck,
      PlanCreate, StepUpdate, RunEnds, ClearActive, CancelSessionRun

-----------------------------------------------------------------------------
(* Counting rounds.                                                        *)

RoundsOf(p) == {r \in Runs : roundOf[r] = p}

\* The rounds of a loop can be counted.
LEMMA SpentIsNat ==
    ASSUME NEW p
    PROVE  IsFiniteSet(RoundsOf(p)) /\ Spent(p) = Cardinality(RoundsOf(p)) /\ Spent(p) \in Nat
<1>1. IsFiniteSet(RoundsOf(p))
  BY FS_Subset, RunsAssumption DEF RoundsOf
<1> QED BY <1>1, FS_CardinalityType DEF Spent, RoundsOf

\* A loop written afresh has no rounds, and the other loops keep theirs.
LEMMA SpentForgets ==
    ASSUME NEW p \in Plans, NEW q \in Plans,
           roundOf' = [r \in Runs |-> IF roundOf[r] = q THEN 0 ELSE roundOf[r]]
    PROVE  Spent(p)' = IF p = q THEN 0 ELSE Spent(p)
<1>1. p # 0 /\ q # 0
  BY DEF Plans
<1>2. CASE p = q
  <2>1. RoundsOf(p)' = {}
    BY <1>1, <1>2 DEF RoundsOf
  <2> QED BY <1>2, <2>1, FS_EmptySet DEF Spent, RoundsOf
<1>3. CASE p # q
  <2>1. RoundsOf(p)' = RoundsOf(p)
    BY <1>1, <1>3 DEF RoundsOf
  <2> QED BY <1>3, <2>1 DEF Spent, RoundsOf
<1> QED BY <1>2, <1>3

\* A saved round is one more for its loop, and none for the others.
LEMMA SpentAdds ==
    ASSUME TypeInv, NEW p \in Plans, NEW q \in Plans, NEW r \in Runs,
           roundOf' = [roundOf EXCEPT ![r] = q]
    PROVE  /\ Spent(p)' \in Nat
           /\ Spent(p)' <= Spent(p) + 1
           /\ p # q => Spent(p)' <= Spent(p)
<1>1. RoundsOf(p)' \subseteq RoundsOf(p) \cup {r} /\ (p # q => RoundsOf(p)' \subseteq RoundsOf(p))
  BY DEF RoundsOf, TypeInv, CountType
<1>2. /\ IsFiniteSet(RoundsOf(p) \cup {r})
      /\ Cardinality(RoundsOf(p) \cup {r}) \in Nat
      /\ Cardinality(RoundsOf(p) \cup {r}) <= Spent(p) + 1
  <2>1. Cardinality(RoundsOf(p) \cup {r}) \in {Spent(p), Spent(p) + 1}
    BY SpentIsNat, FS_AddElement
  <2>2. IsFiniteSet(RoundsOf(p) \cup {r})
    BY SpentIsNat, FS_AddElement
  <2> QED BY <2>1, <2>2, SpentIsNat
<1>3. /\ Cardinality(RoundsOf(p)') \in Nat
      /\ Cardinality(RoundsOf(p)') <= Cardinality(RoundsOf(p) \cup {r})
      /\ p # q => Cardinality(RoundsOf(p)') <= Cardinality(RoundsOf(p))
  <2>1. /\ IsFiniteSet(RoundsOf(p)')
        /\ Cardinality(RoundsOf(p)') <= Cardinality(RoundsOf(p) \cup {r})
    BY <1>1, <1>2, FS_Subset
  <2>2. p # q => Cardinality(RoundsOf(p)') <= Cardinality(RoundsOf(p))
    BY <1>1, SpentIsNat, FS_Subset
  <2> QED BY <2>1, <2>2, FS_CardinalityType
<1>4. Spent(p)' = Cardinality(RoundsOf(p)')
  BY DEF Spent, RoundsOf
<1> QED BY <1>2, <1>3, <1>4, SpentIsNat

\* The budget is kept by every step.
LEMMA BudgetStep ==
    ASSUME TypeInv, RoundBudget, Counted, [Next]_vars
    PROVE  RoundBudget' /\ Counted'
<1> DEFINE Within(p) == Spent(p)' <= loop'[p].round /\ loop'[p].round <= loop'[p].max
<1>0. \A p \in Plans : /\ loop[p].round \in Nat /\ loop[p].max \in Nat /\ Spent(p) \in Nat
                       /\ Spent(p) <= loop[p].round /\ loop[p].round <= loop[p].max
  BY LoopShape, SpentIsNat, CountAssumption DEF LoopRecord, RoundBudget
<1>1. RoundBudget'
  <2> SUFFICES ASSUME NEW p \in Plans PROVE Within(p)
    BY DEF RoundBudget
  <2>1. ASSUME NEW q \in Plans, UpdatePlan(q) PROVE Within(p)
    <3>1. loop'[p] = IF p = q THEN NoLoop ELSE loop[p]
      BY <2>1, AtLoop DEF UpdatePlan
    <3>2. Spent(p)' = IF p = q THEN 0 ELSE Spent(p)
      BY <2>1, SpentForgets DEF UpdatePlan
    <3> QED BY <1>0, <3>1, <3>2 DEF NoLoop
  <2>2. CASE MutateLoop
    <3> DEFINE q == ctl.plan
    <3>1. q \in Plans
      BY <2>2, CtlShape DEF MutateLoop
    <3>2. CASE UNCHANGED <<loop, roundOf>>
      BY <1>0, <3>2 DEF Spent
    <3>3. CASE At(q, Resumed(loop[q])) /\ UNCHANGED roundOf
      <4>1. Resumed(loop[q]).round = loop[q].round /\ Resumed(loop[q]).max = loop[q].max
        BY <3>1, LoopShape, LoopOperations
      <4>2. loop'[p].round = loop[p].round /\ loop'[p].max = loop[p].max
        BY <3>1, <3>3, <4>1, AtLoop
      <4> QED BY <1>0, <3>3, <4>2 DEF Spent
    <3>4. ASSUME NEW n \in 1..RoundLimit, At(q, Started(n)),
                 roundOf' = [r \in Runs |-> IF roundOf[r] = q THEN 0 ELSE roundOf[r]]
          PROVE  Within(p)
      <4>1. Started(n).round = 0 /\ Started(n).max = n
        BY <3>1, LoopShape, LoopOperations
      <4>2. loop'[p] = IF p = q THEN Started(n) ELSE loop[p]
        BY <3>1, <3>4, AtLoop
      <4>3. Spent(p)' = IF p = q THEN 0 ELSE Spent(p)
        BY <3>1, <3>4, SpentForgets
      <4> QED BY <1>0, <4>1, <4>2, <4>3
    <3> QED BY <2>2, <3>2, <3>3, <3>4 DEF MutateLoop
  <2>3. CASE BeginRound
    <3>1. ctl.plan \in Plans /\ UNCHANGED roundOf
      BY <2>3, CtlShape DEF BeginRound
    <3>2. CASE UNCHANGED loop
      BY <1>0, <3>1, <3>2 DEF Spent
    <3>3. ASSUME NEW r \in Runs, CanBegin(loop[ctl.plan]),
                 At(ctl.plan, Begun(loop[ctl.plan], r))
          PROVE  Within(p)
      <4>1. /\ Begun(loop[ctl.plan], r).round = loop[ctl.plan].round + 1
            /\ Begun(loop[ctl.plan], r).max = loop[ctl.plan].max
        BY <3>1, LoopShape, LoopOperations
      <4>2. loop'[p] = IF p = ctl.plan THEN Begun(loop[ctl.plan], r) ELSE loop[p]
        BY <3>1, <3>3, AtLoop
      <4> QED BY <1>0, <3>1, <3>3, <4>1, <4>2 DEF Spent, CanBegin
    <3> QED BY <2>3, <3>2, <3>3 DEF BeginRound
  <2>4. CASE SaveRound
    <3>1. ctl.run \in Runs /\ ctl.plan \in Plans /\ UNCHANGED loop /\ ctl.stage = "save"
      BY <2>4, CtlShape DEF SaveRound, TypeInv, CtlType
    <3>2. CASE UNCHANGED roundOf
      BY <1>0, <3>1, <3>2 DEF Spent
    <3>3. CASE roundOf' = [roundOf EXCEPT ![ctl.run] = ctl.plan]
      <4>1. /\ Spent(p)' \in Nat /\ Spent(p)' <= Spent(p) + 1
            /\ p # ctl.plan => Spent(p)' <= Spent(p)
        BY <3>1, <3>3, SpentAdds
      <4>2. p = ctl.plan => Spent(p) < loop[p].round
        BY <3>1 DEF Counted
      <4> QED BY <1>0, <3>1, <4>1, <4>2
    <3> QED BY <2>4, <3>2, <3>3 DEF SaveRound
  <2>5. CASE ~MutateLoop /\ ~BeginRound /\ ~SaveRound /\ \A q \in Plans : ~UpdatePlan(q)
    <3>1. loop'[p].round = loop[p].round /\ loop'[p].max = loop[p].max
      BY <2>5, RoundsKept
    <3>2. UNCHANGED roundOf
      BY <2>5, RoundOfKept
    <3> QED BY <1>0, <3>1, <3>2 DEF Spent
  <2> QED BY <2>1, <2>2, <2>3, <2>4, <2>5
<1>2. Counted'
  <2> SUFFICES ASSUME ctl'.stage = "save"
               PROVE  Cardinality({r \in Runs : roundOf'[r] = ctl'.plan}) < loop'[ctl'.plan].round
    BY DEF Counted, Spent
  <2>1. CASE BeginRound
    <3>1. ctl.plan \in Plans /\ UNCHANGED roundOf /\ ctl.stage = "begin"
      BY <2>1, CtlShape DEF BeginRound
    <3>2. CASE ctl' = [ctl EXCEPT !.stage = "giveUp"]
      BY <3>1, <3>2, CtlShape
    <3>3. ASSUME NEW r \in Runs, At(ctl.plan, Begun(loop[ctl.plan], r)),
                 ctl' = [ctl EXCEPT !.stage = "save", !.run = r]
          PROVE  Cardinality({x \in Runs : roundOf'[x] = ctl'.plan}) < loop'[ctl'.plan].round
      <4>1. ctl'.plan = ctl.plan
        BY <3>1, <3>3, CtlShape
      <4>2. loop'[ctl.plan].round = loop[ctl.plan].round + 1
        <5>1. Begun(loop[ctl.plan], r).round = loop[ctl.plan].round + 1
          BY <3>1, LoopShape, LoopOperations
        <5> QED BY <3>1, <3>3, <5>1, AtLoop
      <4>3. Cardinality({x \in Runs : roundOf'[x] = ctl'.plan}) = Spent(ctl.plan)
        <5>1. {x \in Runs : roundOf'[x] = ctl'.plan} = {x \in Runs : roundOf[x] = ctl.plan}
          BY <3>1, <4>1
        <5> QED BY <5>1 DEF Spent
      <4> QED BY <1>0, <3>1, <4>1, <4>2, <4>3
    <3> QED BY <2>1, <3>2, <3>3 DEF BeginRound
  <2>2. CASE ~BeginRound
    <3>1. ctl' = ctl /\ ctl.stage = "save"
      BY <2>2, SaveStage
    <3>2. ~MutateLoop /\ ~SaveRound /\ \A q \in Plans : ~UpdatePlan(q)
      <4>1. ~SaveRound
        <5>1. SaveRound => ctl' = Idle \/ ctl' = [ctl EXCEPT !.stage = "giveUp"]
          BY DEF SaveRound
        <5> QED BY <3>1, <5>1, CtlShape DEF Idle
      <4> QED BY <3>1, <4>1 DEF MutateLoop, UpdatePlan, Idle
    <3>3. ctl.plan \in Plans
      BY <3>1, CtlShape
    <3>4. loop'[ctl.plan].round = loop[ctl.plan].round
      BY <2>2, <3>2, <3>3, RoundsKept
    <3>5. UNCHANGED roundOf
      BY <3>2, RoundOfKept
    <3>6. {r \in Runs : roundOf'[r] = ctl'.plan} = {r \in Runs : roundOf[r] = ctl.plan}
      BY <3>1, <3>5
    <3>7. Spent(ctl.plan) < loop'[ctl'.plan].round
      BY <3>1, <3>4 DEF Counted
    <3> QED BY <3>6, <3>7 DEF Spent
  <2> QED BY <2>1, <2>2
<1> QED BY <1>1, <1>2

\* A loop never sends more runs than it has counted rounds, nor counts more
\* than its budget, for any budget, any faults and any crashes.
THEOREM BudgetIsKept == Spec => []RoundBudget
<1>1. Init => RoundBudget /\ Counted
  <2> SUFFICES ASSUME Init PROVE RoundBudget /\ Counted
    OBVIOUS
  <2>1. ASSUME NEW p \in Plans
        PROVE  Spent(p) = 0 /\ loop[p].round = 0 /\ loop[p].max = 0
    <3>1. RoundsOf(p) = {}
      BY DEF Init, RoundsOf, Plans
    <3> QED BY <3>1, SpentIsNat, FS_EmptySet DEF Init, NoLoop
  <2>2. ctl.stage # "save"
    BY DEF Init, Idle
  <2> QED BY <2>1, <2>2 DEF RoundBudget, Counted
<1> QED BY <1>1, TypeStart, TypeStep, BudgetStep, PTL DEF Spec

-----------------------------------------------------------------------------
(* Stray rounds.                                                           *)

\* A run that is active after a step of its own goroutine was active before
\* it, and its cancel is not forgotten.
LEMMA RunQuiet ==
    ASSUME TypeInv, NEW r \in Runs, RunStep(r)
    PROVE  /\ UNCHANGED roundOf
           /\ ActiveRuns' \subseteq ActiveRuns
           /\ ActiveRuns' \cap cancelRequested \subseteq cancelRequested'
<1>1. UNCHANGED roundOf
  BY DEF RunStep, RunWorks, StepReconcile, PlanCreateCheck, PlanCreate, RunEnds,
         ClearActive, AdvanceLoop, StepUpdate, AgentInterrupt, Halt
<1>2. ActiveRuns' \subseteq ActiveRuns
  <2>1. UNCHANGED phase \/ (phase[r] \in Active /\ \E ph \in Phases : Enter(r, ph))
        \/ Enter(r, "gone")
    BY DEF RunStep, RunWorks, StepReconcile, PlanCreateCheck, PlanCreate, RunEnds,
           ClearActive, AdvanceLoop, StepUpdate, AgentInterrupt, Halt, Phases, Active, Working
  <2> QED BY <2>1 DEF ActiveRuns, Enter, TypeInv, RunType, Active, Working
<1>3. ActiveRuns' \cap cancelRequested \subseteq cancelRequested'
  <2>1. CASE ClearActive(r)
    BY <2>1 DEF ClearActive, ActiveRuns, Enter, TypeInv, RunType, Active, Working
  <2>2. CASE UNCHANGED cancelRequested
    BY <2>2
  <2> QED BY <2>1, <2>2
          DEF RunStep, RunWorks, StepReconcile, PlanCreateCheck, PlanCreate, RunEnds,
              AdvanceLoop, StepUpdate, AgentInterrupt, Halt
<1> QED BY <1>1, <1>2, <1>3

\* A step of a run's own tools moves no loop, but for a progress mark.
LEMMA ProgressOnly ==
    ASSUME TypeInv, NEW r \in Runs, NEW q \in Plans, StepUpdate(r, q), NEW p \in Plans
    PROVE  loop'[p].status = loop[p].status /\ loop'[p].run = loop[p].run
<1>1. PICK differs \in BOOLEAN : At(q, [loop[q] EXCEPT !.progressed = differs])
  BY DEF StepUpdate
<1>2. /\ [loop[q] EXCEPT !.progressed = differs].status = loop[q].status
      /\ [loop[q] EXCEPT !.progressed = differs].run = loop[q].run
  BY LoopShape DEF LoopRecord
<1> QED BY <1>1, <1>2, AtLoop

Held == ctl.stage \in {"begin", "save", "giveUp"}

\* While a round is being sent, the others can only do this.
LEMMA HeldSteps ==
    ASSUME Held, [Next]_vars
    PROVE  \/ BeginRound \/ SaveRound \/ GiveUp \/ CrashAndRestart
           \/ UNCHANGED <<loop, phase, cancelRequested, roundOf, runStatus, ctl>>
           \/ \E r \in Runs : RunStep(r) /\ UNCHANGED <<loop, ctl>>
           \/ \E r \in Runs, p \in Plans : StepUpdate(r, p)
<1>0. ctl # Idle /\ ctl.stage \notin {"idle", "prepare", "cancel"}
  BY DEF Held, Idle
<1>1. ASSUME NEW r \in Runs, RunStep(r)
      PROVE  (RunStep(r) /\ UNCHANGED <<loop, ctl>>) \/ \E p \in Plans : StepUpdate(r, p)
  <2>1. ~AdvanceLoop(r) /\ \A p \in Plans : ~AgentInterrupt(r, p)
    BY <1>0 DEF AdvanceLoop, AgentInterrupt
  <2>2. \/ RunWorks(r) \/ StepReconcile(r) \/ PlanCreateCheck(r) \/ PlanCreate(r)
        \/ RunEnds(r) \/ ClearActive(r) \/ \E p \in Plans : StepUpdate(r, p)
    BY <1>1, <2>1 DEF RunStep
  <2>3. UNCHANGED <<loop, ctl>> \/ \E p \in Plans : StepUpdate(r, p)
    BY <2>2 DEF RunWorks, StepReconcile, PlanCreateCheck, PlanCreate, RunEnds, ClearActive
  <2> QED BY <1>1, <2>3
<1>2. ControlStep => BeginRound \/ SaveRound \/ GiveUp
  BY <1>0 DEF ControlStep, SettleLoop, MutateLoop, CancelSessionRun, CancelDone
<1>3. UserStep => UNCHANGED <<loop, phase, cancelRequested, roundOf, runStatus, ctl>>
  BY <1>0 DEF UserStep, CreatePlan, UpdatePlan, AskLoop, StartRun, CancelRun, ListPlans,
              StopLoop, PauseLoop
<1> QED BY <1>1, <1>2, <1>3 DEF Next, vars

\* Runs on their own never give a status to a run that has no record.
LEMMA RecordKept ==
    ASSUME TypeInv, NEW r \in Runs, RunStep(r), NEW x \in Runs, runStatus[x] = "none"
    PROVE  runStatus'[x] = "none"
<1>1. CASE RunEnds(r)
  BY <1>1, EndsAsType DEF RunEnds
<1>2. CASE UNCHANGED runStatus
  BY <1>2
<1> QED BY <1>1, <1>2
        DEF RunStep, RunWorks, StepReconcile, PlanCreateCheck, PlanCreate, ClearActive,
            AdvanceLoop, StepUpdate, AgentInterrupt, Halt

\* What beginning a round leaves behind.
LEMMA BegunRound ==
    ASSUME TypeInv, BeginRound
    PROVE  /\ ctl.plan \in Plans /\ ctl'.plan = ctl.plan
           /\ \/ ctl'.stage = "giveUp" /\ UNCHANGED loop
              \/ /\ ctl'.stage = "save" /\ ctl'.run \in Runs
                 /\ loop'[ctl.plan].status = "running" /\ loop'[ctl.plan].run = ctl'.run
                 /\ runStatus[ctl'.run] = "none"
                 /\ \A p \in Plans \ {ctl.plan} : loop'[p] = loop[p]
<1>1. ctl.plan \in Plans /\ ctl.stage # "idle"
  BY CtlShape DEF BeginRound
<1>2. CASE ctl' = [ctl EXCEPT !.stage = "giveUp"] /\ UNCHANGED loop
  BY <1>1, <1>2, CtlShape
<1>3. ASSUME NEW r \in Runs, CanBegin(loop[ctl.plan]), runStatus[r] = "none",
             At(ctl.plan, Begun(loop[ctl.plan], r)),
             ctl' = [ctl EXCEPT !.stage = "save", !.run = r]
      PROVE  /\ ctl'.stage = "save" /\ ctl'.run = r /\ ctl'.plan = ctl.plan
             /\ loop'[ctl.plan].status = "running" /\ loop'[ctl.plan].run = r
             /\ \A p \in Plans \ {ctl.plan} : loop'[p] = loop[p]
  <2>1. /\ Begun(loop[ctl.plan], r).status = loop[ctl.plan].status
        /\ Begun(loop[ctl.plan], r).run = r
    BY <1>1, LoopShape, LoopOperations
  <2>2. ctl'.stage = "save" /\ ctl'.run = r /\ ctl'.plan = ctl.plan
    BY <1>1, <1>3, CtlShape
  <2> QED BY <1>1, <1>3, <2>1, <2>2, AtLoop DEF CanBegin
<1> QED BY <1>1, <1>2, <1>3 DEF BeginRound

\* The round being saved stays the one its loop has counted.
LEMMA SavingStep ==
    ASSUME TypeInv, Saving, [Next]_vars
    PROVE  Saving'
<1> SUFFICES ASSUME ctl'.stage = "save"
             PROVE  /\ loop'[ctl'.plan].status = "running"
                    /\ loop'[ctl'.plan].run = ctl'.run
                    /\ runStatus'[ctl'.run] = "none"
  BY DEF Saving
<1>1. CASE BeginRound
  BY <1>1, BegunRound DEF BeginRound
<1>2. CASE ctl' = ctl
  <2>1. Held /\ ctl.plan \in Plans /\ ctl.run \in Runs
    BY <1>2, CtlShape DEF Held, TypeInv, CtlType
  <2>2. ~GiveUp /\ ~CrashAndRestart /\ ~SaveRound
    <3>1. SaveRound => ctl' = Idle \/ ctl' = [ctl EXCEPT !.stage = "giveUp"]
      BY DEF SaveRound
    <3> QED BY <1>2, <3>1, CtlShape DEF GiveUp, CrashAndRestart, Idle
  <2>3. ASSUME NEW r \in Runs, NEW p \in Plans, StepUpdate(r, p)
        PROVE  loop'[ctl.plan].status = "running" /\ loop'[ctl.plan].run = ctl.run
    BY <1>2, <2>1, <2>3, ProgressOnly DEF Saving
  <2>4. ASSUME NEW r \in Runs, RunStep(r) PROVE runStatus'[ctl.run] = "none"
    BY <1>2, <2>1, <2>4, RecordKept DEF Saving
  <2>5. \A r \in Runs, p \in Plans : StepUpdate(r, p) => RunStep(r)
    BY DEF RunStep
  <2> QED BY <1>1, <1>2, <2>1, <2>2, <2>3, <2>4, <2>5, HeldSteps DEF Saving
<1> QED BY <1>1, <1>2, SaveStage

\* A run that drives a running loop has left the active map, so no other
\* round of the loop is at work.
LEMMA DriverAlone ==
    ASSUME TypeInv, NoStrayRound, NEW r \in Runs, AdvanceLoop(r), NEW p \in DrivenBy(r),
           NEW x \in ActiveRuns, roundOf[x] = p
    PROVE  x \in cancelRequested
<1>1. p \in Plans /\ loop[p].run = r /\ x \in Runs
  BY DEF DrivenBy, RunningLoops, ActiveRuns
<1>2. ctl.stage # "cancel" /\ phase[r] = "clearing"
  BY DEF AdvanceLoop, Idle
<1>3. x # r
  BY <1>2 DEF ActiveRuns, Active, Working
<1> QED BY <1>1, <1>2, <1>3 DEF NoStrayRound

\* Whoever begins to send a round knows that the earlier ones are canceled.
LEMMA SendingStep ==
    ASSUME TypeInv, Prepared, Sending, NoStrayRound, [Next]_vars
    PROVE  Sending'
<1> SUFFICES ASSUME ctl'.stage \in {"begin", "save", "giveUp"},
                    NEW x \in Runs, phase'[x] \in Active, roundOf'[x] = ctl'.plan
             PROVE  x \in cancelRequested'
  BY DEF Sending, ActiveRuns
<1>1. CASE MutateLoop
  BY <1>1 DEF MutateLoop, Prepared, ActiveRuns
<1>2. CASE BeginRound
  <2>1. Held /\ ctl'.plan = ctl.plan
    BY <1>2, BegunRound DEF BeginRound, Held
  <2> QED BY <1>2, <2>1 DEF BeginRound, Sending, Held, ActiveRuns
<1>3. CASE SaveRound
  <2>1. ctl.stage = "save" /\ ctl' = [ctl EXCEPT !.stage = "giveUp"]
        /\ UNCHANGED <<phase, roundOf, cancelRequested>>
    BY <1>3 DEF SaveRound, Idle
  <2>2. ctl'.plan = ctl.plan
    BY <2>1, CtlShape
  <2> QED BY <2>1, <2>2 DEF Sending, ActiveRuns
<1>4. ASSUME NEW r \in Runs, AdvanceLoop(r) PROVE x \in cancelRequested'
  <2>1. ctl' # ctl
    BY <1>4 DEF AdvanceLoop, Idle
  <2>2. ctl'.plan \in DrivenBy(r) /\ UNCHANGED <<roundOf, cancelRequested>>
    BY <1>4, <2>1 DEF AdvanceLoop, Idle
  <2>3. x \in ActiveRuns
    BY <1>4, RunQuiet DEF RunStep, ActiveRuns
  <2> QED BY <1>4, <2>2, <2>3, DriverAlone
<1>5. CASE ctl' = ctl
  <2>1. Held
    BY <1>5 DEF Held
  <2>2. ~BeginRound /\ ~SaveRound /\ ~GiveUp /\ ~CrashAndRestart
    <3>1. BeginRound => ctl.stage = "begin" /\ ctl'.stage # "begin"
      BY BegunRound DEF BeginRound
    <3>2. SaveRound => ctl' = Idle \/ ctl' = [ctl EXCEPT !.stage = "giveUp"]
      BY DEF SaveRound
    <3> QED BY <1>5, <3>1, <3>2, CtlShape DEF GiveUp, SaveRound, CrashAndRestart, Idle
  <2>3. ASSUME NEW r \in Runs, RunStep(r) PROVE x \in cancelRequested'
    BY <1>5, <2>1, <2>3, RunQuiet DEF Sending, Held, ActiveRuns
  <2>4. \A r \in Runs, p \in Plans : StepUpdate(r, p) => RunStep(r)
    BY DEF RunStep
  <2> QED BY <1>5, <2>1, <2>2, <2>3, <2>4, HeldSteps DEF Sending, Held, ActiveRuns
<1>6. ctl' = ctl \/ MutateLoop \/ BeginRound \/ SaveRound \/ \E r \in Runs : AdvanceLoop(r)
  <2>1. ctl'.stage \notin {"idle", "prepare", "cancel"}
    OBVIOUS
  <2>2. \A p, goal : ~AskLoop(p, goal)
    BY <2>1 DEF AskLoop
  <2>3. \A p, lp : ~Halt(p, lp)
    BY <2>1 DEF Halt
  <2>4. ~CancelDone /\ ~GiveUp /\ ~CrashAndRestart
    BY <2>1 DEF CancelDone, GiveUp, CrashAndRestart, Idle
  <2>5. SettleLoop => ctl' = ctl
    BY <2>1 DEF SettleLoop, Idle
  <2> QED BY <2>2, <2>3, <2>4, <2>5
          DEF Next, vars, RunStep, ControlStep, UserStep, CreatePlan, UpdatePlan, StartRun,
              CancelRun, ListPlans, StopLoop, PauseLoop, AgentInterrupt, RunWorks,
              StepReconcile, PlanCreateCheck, PlanCreate, StepUpdate, RunEnds, ClearActive,
              CancelSessionRun
<1> QED BY <1>1, <1>2, <1>3, <1>4, <1>5, <1>6

\* What a step has to leave alone for a round that was not stray before it.
LEMMA StillDriven ==
    ASSUME NoStrayRound, NEW x \in Runs, NEW p \in Plans,
           x \in ActiveRuns, roundOf[x] = p, ctl.stage # "cancel", x \notin cancelRequested,
           loop'[p].status = loop[p].status, loop'[p].run = loop[p].run
    PROVE  loop'[p].status = "running" /\ loop'[p].run = x
BY DEF NoStrayRound

\* No step leaves a round at work whose loop no longer runs.
LEMMA StrayStep ==
    ASSUME TypeInv, Prepared, Fresh, Saving, Sending, NoStrayRound, [Next]_vars
    PROVE  NoStrayRound'
<1> DEFINE Good(x, p) == loop'[p].status = "running" /\ loop'[p].run = x
<1> SUFFICES ASSUME NEW x \in Runs, phase'[x] \in Active, NEW p \in Plans, roundOf'[x] = p,
                    ctl'.stage # "cancel", x \notin cancelRequested'
             PROVE  Good(x, p)
  BY DEF NoStrayRound, ActiveRuns
<1>0. p # 0
  BY DEF Plans
<1>1. ASSUME UNCHANGED <<loop, phase, roundOf, cancelRequested>>, ctl.stage # "cancel"
      PROVE  Good(x, p)
  BY <1>1, StillDriven DEF ActiveRuns
<1>2. ASSUME NEW r \in Runs, RunStep(r) PROVE Good(x, p)
  <2>1. x \in ActiveRuns /\ roundOf[x] = p /\ x \notin cancelRequested
    BY <1>2, RunQuiet DEF ActiveRuns
  <2>2. \A q \in Plans : ~AgentInterrupt(r, q)
    BY DEF AgentInterrupt, Halt
  <2>3. CASE AdvanceLoop(r)
    <3>1. ctl.stage # "cancel"
      BY <2>3 DEF AdvanceLoop, Idle
    <3>2. p \notin DrivenBy(r)
      BY <2>1, <2>3, DriverAlone
    <3>3. UNCHANGED loop \/ \E q \in DrivenBy(r) : \E lp : At(q, lp)
      BY <2>3 DEF AdvanceLoop
    <3>4. loop'[p] = loop[p]
      BY <3>2, <3>3, AtLoop DEF DrivenBy, RunningLoops
    <3> QED BY <2>1, <3>1, <3>4, StillDriven
  <2>4. CASE ~AdvanceLoop(r)
    <3>1. ctl' = ctl
      BY <1>2, <2>2, <2>4
      DEF RunStep, RunWorks, StepReconcile, PlanCreateCheck, PlanCreate, RunEnds, ClearActive,
          StepUpdate
    <3>2. loop'[p].status = loop[p].status /\ loop'[p].run = loop[p].run
      <4>1. UNCHANGED loop \/ \E q \in Plans : StepUpdate(r, q)
        BY <1>2, <2>2, <2>4
        DEF RunStep, RunWorks, StepReconcile, PlanCreateCheck, PlanCreate, RunEnds, ClearActive
      <4> QED BY <4>1, ProgressOnly
    <3> QED BY <2>1, <3>1, <3>2, StillDriven
  <2> QED BY <2>3, <2>4
<1>3. ASSUME SettleLoop \/ MutateLoop PROVE Good(x, p)
  BY <1>3 DEF SettleLoop, MutateLoop, Prepared, ActiveRuns
<1>4. CASE BeginRound
  <2>1. Held /\ x \in ActiveRuns /\ roundOf[x] = p /\ x \notin cancelRequested
    BY <1>4 DEF BeginRound, Held, ActiveRuns
  <2>2. p # ctl.plan
    BY <2>1 DEF Sending, Held
  <2>3. loop'[p] = loop[p]
    BY <1>4, <2>2, BegunRound
  <2> QED BY <2>1, <2>3, StillDriven DEF Held
<1>5. CASE SaveRound
  <2>1. Held /\ ctl.stage = "save" /\ UNCHANGED <<loop, cancelRequested>>
    BY <1>5 DEF SaveRound, Held
  <2>2. CASE UNCHANGED <<phase, roundOf>>
    BY <1>1, <2>1, <2>2
  <2>3. CASE /\ phase' = [phase EXCEPT ![ctl.run] = "queued"]
             /\ roundOf' = [roundOf EXCEPT ![ctl.run] = ctl.plan]
    <3>1. CASE x = ctl.run
      <4>1. p = ctl.plan
        BY <2>3, <3>1 DEF TypeInv, CountType
      <4> QED BY <2>1, <3>1, <4>1 DEF Saving
    <3>2. CASE x # ctl.run
      <4>1. x \in ActiveRuns /\ roundOf[x] = p
        BY <2>3, <3>2 DEF ActiveRuns, TypeInv, RunType, CountType
      <4> QED BY <2>1, <4>1, StillDriven
    <3> QED BY <3>1, <3>2
  <2> QED BY <1>5, <2>2, <2>3 DEF SaveRound
<1>6. CASE GiveUp
  <2>1. Held /\ x \in ActiveRuns /\ roundOf[x] = p /\ x \notin cancelRequested
    BY <1>6 DEF GiveUp, Held, ActiveRuns
  <2>2. p # ctl.plan /\ ctl.plan \in Plans
    BY <1>6, <2>1, CtlShape DEF Sending, Held
  <2>3. UNCHANGED loop \/ \E lp : At(ctl.plan, lp)
    BY <1>6 DEF GiveUp
  <2>4. loop'[p] = loop[p]
    BY <2>2, <2>3, AtLoop
  <2> QED BY <2>1, <2>4, StillDriven DEF Held
<1>7. CASE CancelSessionRun
  BY <1>7 DEF CancelSessionRun
<1>8. CASE CancelDone
  BY <1>8 DEF CancelDone, ActiveRuns
<1>9. ASSUME NEW q \in Plans, UpdatePlan(q) PROVE Good(x, p)
  BY <1>9 DEF UpdatePlan, HasActiveSession, ActiveRuns
<1>10. ASSUME NEW r \in Runs, StartRun(r) PROVE Good(x, p)
  <2>1. x # r
    BY <1>0, <1>10 DEF StartRun, Fresh
  <2>2. x \in ActiveRuns /\ ctl.stage # "cancel"
    BY <1>10, <2>1 DEF StartRun, ActiveRuns, TypeInv, RunType, Idle
  <2> QED BY <1>10, <2>2, StillDriven DEF StartRun
<1>11. ASSUME NEW r \in Runs, CancelRun(r) PROVE Good(x, p)
  BY <1>11, StillDriven DEF CancelRun, ActiveRuns
<1>12. CASE CrashAndRestart
  BY <1>12 DEF CrashAndRestart, Active, Working
<1>13. ASSUME NEW q \in Plans, NEW goal \in {"start", "resume"}, AskLoop(q, goal)
       PROVE  Good(x, p)
  BY <1>1, <1>13 DEF AskLoop, Idle
<1>14. ASSUME NEW q \in Plans, CreatePlan(q) \/ ListPlans PROVE Good(x, p)
  BY <1>1, <1>14 DEF CreatePlan, ListPlans, Idle
<1>15. ASSUME NEW q \in Plans, StopLoop(q) \/ PauseLoop(q) PROVE FALSE
  BY <1>15 DEF StopLoop, PauseLoop, Halt
<1>16. CASE UNCHANGED vars
  BY <1>1, <1>16 DEF vars
<1>17. ASSUME ControlStep PROVE Good(x, p)
  BY <1>3, <1>4, <1>5, <1>6, <1>7, <1>8, <1>17 DEF ControlStep
<1>18. ASSUME UserStep PROVE Good(x, p)
  BY <1>9, <1>10, <1>11, <1>13, <1>14, <1>15, <1>18 DEF UserStep
<1> QED BY <1>2, <1>12, <1>16, <1>17, <1>18 DEF Next

\* A paused or stopped loop leaves no run behind but those being canceled,
\* and no round outlives the one that follows it.
THEOREM NoRoundIsStray == Spec => []NoStrayRound
<1> DEFINE Inv == TypeInv /\ Prepared /\ Fresh /\ Saving /\ Sending /\ NoStrayRound
<1>1. Init => Inv
  <2>1. Init => Prepared /\ Fresh /\ Saving /\ Sending
    BY DEF Init, Prepared, Fresh, Saving, Sending, Idle
  <2>2. Init => NoStrayRound
    BY DEF Init, NoStrayRound, ActiveRuns, Active, Working
  <2> QED BY <2>1, <2>2, TypeStart
<1>2. Inv /\ [Next]_vars => Inv'
  BY TypeStep, PreparedStep, FreshStep, SavingStep, SendingStep, StrayStep
<1>3. Inv => NoStrayRound
  OBVIOUS
<1> QED BY <1>1, <1>2, <1>3, PTL DEF Spec
=============================================================================
