# A TLA+ verification of NR-Intern

NR-Intern runs language-model agents on a user's machine: it takes a request, drives an
engine that calls tools, asks for approvals, records everything it does, and can go on with a
plan for several rounds without anybody watching. Around that core stand a file store, the
clients of models, MCP servers and other machines, a console in the browser and a desktop shell.
This project models the parts of it that keep state, model-checks them and proves things about
the ones that decide when an engine may run, what is recorded of it and when it stops. The Go
code is under `src/src/`; paths below are relative to it unless they begin with `docs/`.

| module | models | implements / theorems |
| --- | --- | --- |
| `RunLifecycle` | what a client may rely on about runs | abstract specification |
| `RunService` | the run lifecycle of the application service | implements `RunLifecycle`; `RunServiceProofs` |
| `PlanLoop` | plans, plan loops and the rounds they send | `PlanLoopProofs` |
| `PlanSteps` | the steps of plans, their evidence, sessions that lock their plans | `RecordProofs` |
| `Recurrence` | the next date of a recurrence | `ScheduleRunnerProofs` |
| `ScheduleRunner` | schedules, their store and the runner | `ScheduleRunnerProofs` |
| `HarnessLoop` | the agent loop: turns, tool groups, guards, the transcript | `HarnessProofs` |
| `ContextWindow` | what the model is shown of a transcript; compaction | `RecordProofs` |
| `ModelCall` | the OpenAI-compatible adapter: attempts, decoders, what is shown | `ComponentProofs` |
| `ThinkTags` | tagged thinking in the text of an answer | `RecordProofs`, `ComponentProofs` |
| `Quota` | the quota of an account and the redemption of reset credits | `RecordProofs` |
| `EventStream` | a run's events on their way to a client | `LiveProofs` |
| `SessionStore`, `RunStore` | the transcript file with its index; the records of the runs | `RecordProofs` |
| `Notifications` | the notices of the notification center | `RecordProofs` |
| `Decisions`, `Questions` | approvals; questions of a run to its user | `ComponentProofs` |
| `Places` | workspaces, projects, sessions and what they leave behind | `ComponentProofs` |
| `Memory` | the long-term memory and its isolation | `ComponentProofs` |
| `Settings` | settings changed at work, and the model router | `ComponentProofs` |
| `RamDisks` | the RAM disks of isolated projects | `ComponentProofs` |
| `Backup` | backup, restore and the check at a start | `RecordProofs` |
| `McpManager` | the connection to an MCP server and its calls | `LiveProofs` |
| `SignIn` | signing in to a provider, token refresh | `LiveProofs` |
| `Commands` | `shell_exec`, `ssh_exec`, `ssh_wait` | `LiveProofs` |
| `Console` | the prompts of the web console | `LiveProofs` |
| `Supervisor` | the desktop shell and its backend process | `LiveProofs` |
| `NetPass` | the tunnel to the network pass | `LiveProofs` |
| `MCRunService`, `MCPlanLoop`, `MCScheduleRunner`, `MCPlaces` | instances of one module for TLC | |
| `MCLive`, `MCComponents` | the other components, each in its part of one state space | `LiveProofs`, `ComponentProofs` |

`PROJECT.json` maps every definition that models code to its lines, names the mutant that
shows each property can fail, and lists the hazards the properties are aimed at.

## 1. Inventory

For each component: the state it keeps, its operations, whom it talks to, what is hard, and
what makes it correct. The module that models it is in brackets.

**Application service, run lifecycle** (`application/service.go`, `run_lifecycle.go`,
`admin.go`) [RunService]. State: a durable record per run, a durable event log per run, and in
memory the maps `active`, `pausedRuns`, the session gates, `pausedSessions`, the watchers.
Operations: `StartRun`, `CancelRun`, `PauseRun`, `ResumeRun`, `DecideRun`, `Close`, the goroutine
`executeRun` with the event callback it hands to the engine, and the restart
(`reconcileTerminalEvents`). Locks: `startMu` around control operations, `mu` around the maps,
`eventMu` around "read the status, append the event". Hard: every control operation races the
goroutine; a run gives its session gate back while it waits for an approval; the record and the
log are two writes, either of which can fail, with a crash between them. Correct when: one
engine per session; a status that is final stays; a recorded cancel wins; the log ends once,
with the event that names the status; everything that starts ends.

**Events to clients** (`application/service.go`, `adapters/filestore/event_repository.go`,
`transport/httpapi/handler.go`) [EventStream]. State: the JSON lines of a run, two caches of the last number,
the readers. Hard: the torn end of a failed write; a wake-up between a look and a wait; a client
that comes back. Correct when: what was acknowledged is in the file at its number and reaches
the client once, in order, with the end.

**Plans and plan loops** (`application/plan_loop.go`, `plan.go`, `domain/plan_loop.go`,
`domain/plan.go`, `tools/native/plans`) [PlanLoop, PlanSteps]. State: the plan file of each session, with
the steps and `Plan.Loop`. Operations: create, rebuild, list; start, resume, interrupt and stop a
loop; `advancePlanLoop` when a round's run ends; `reconcilePlanLoops` after a restart; the tools
called by the run at work. A round is a run of the service. Hard: the loop advances from the
deferred calls of a goroutine after that goroutine has left `active`; a user may interrupt,
resume or rebuild at that moment; a round is counted in one file and recorded in another.
Correct when: one loop at a time, a hard budget, no run left behind by a halted loop, and an end;
a step is completed in its turn and on evidence.

**Schedules** (`application/schedule.go`, `domain/schedule.go`,
`adapters/filestore/schedule_repository.go`) [ScheduleRunner, Recurrence]. A timer loop takes a
snapshot, starts a session and a run for each due schedule and records the outcome. Hard: the
snapshot is stale when it is used; a crash between the run and the new date. Correct when: a
recorded date does not fire again, dates missed while the service was down are skipped, and a
due date is served.

**Places** (workspaces, projects, sessions: `application/service.go`, `admin.go`) [Places]. Hard:
a deletion goes through five stores one after the other; workspaces and provider settings are
changed without `startMu`. Correct when: nothing is left without its owner.

**File store** (`adapters/filestore`) [SessionStore, RunStore, Notifications, Memory, and the parts
the services above use]. Files behind a mutex, with memory copies and indexes. Hard: the fate of a write that
failed half way; an index built without a lock. Correct when: numbers neither repeat nor go back,
what is dropped is gone, a retried start does not start twice.

**Approval and question coordinators** (`approval`, `question`) [Decisions, Questions]. The
pending requests, each with a channel of one answer. Hard: an answer, a cancel, a timeout and a
second answer at once; a permanent grant stored before the decision is delivered. Correct when:
an accepted answer is the one that takes effect.

**Harness** (`harness`, `agents/harness`) [HarnessLoop, ContextWindow]. Turns of a model call, a
group of tool calls and checks, with budgets, a loop guard, completion checks and compaction.
Hard: every way a turn may end has to leave a transcript that can be continued; an uncertain
write must not be repeated blindly; a summary replaces what it covers. Correct when: every call
has its result, every unresolved failure is reported, nothing the user sees is forgotten.

**Model side** (`adapters/openaicompat`, `modelrouter`) [ModelCall, ThinkTags, Quota, Settings].
Streaming decoders under a retry, a token account, tagged thinking in pieces, the limits learned
of a server, the quota of an account. Correct when: what was shown is what the model said, once.

**Memory** (`memory`, `application/memory.go`, `adapters/filestore/memory_repository.go`)
[Memory]. Notes shared by scope. Correct when: sessions of isolated projects neither leave
anything in the file nor lead others to their notes.

**MCP client, sign-in, network pass** (`mcpclient`, `providerauth`, `netpass`) [McpManager, SignIn,
NetPass]. A connection that many calls share and settings replace; a flow that owns a port; a child process with a
key in a file. Correct when: a call that may not be repeated runs once, a refresh token is
presented once, no client and no key is left behind.

**Tools** (`tools`) [Commands, Questions, and plans and memory with their components]. A registry,
and native tools that act on files, commands and the network.

**Process side** (`bootstrap`, `desktop`, `cmd`) [Settings, RamDisks, Backup, Supervisor]. Wiring,
settings, the pool of RAM disks, backups, a supervisor that restarts the server. Correct when:
what is acknowledged is in the file and in use, a disk is one project's, a backend is its
desktop's.

**Surface** (`transport/httpapi`, `web/console`) [EventStream, Console, Questions, Quota]. Handlers that decode
and call the application service, and the page with its outbox. Correct when: a prompt that was
accepted is neither lost nor sent twice.

The components interact mostly through the application service: HTTP handlers, the scheduler
and plan loops call `StartRun`; the engine calls back with events and asks the coordinators;
tools reach plans, memory, questions and loops through ports; the stores are called from all of
them, each under its own mutex; the bootstrap replaces adapters, connections and settings under
the feet of the runs.

## 2. Plan

Done: the core (`RunLifecycle`, `RunService`, `PlanLoop`, `ScheduleRunner` with their proofs); the
stores and coordinators (`EventStream`, `SessionStore`, `RunStore`, `Decisions`, `Questions`,
`Places`, `Memory`, `Backup`, `PlanSteps`, `Notifications`); the engine (`HarnessLoop`, `ContextWindow`, `ModelCall`,
`ThinkTags`); the edges (`McpManager`, `SignIn`, `NetPass`, `Commands`, `Quota`, `Settings`,
`RamDisks`, `Console`, `Supervisor`).

Left: tool retrieval and staging of results in the harness, the choice of a provider in the router,
clock changes in schedules.

## 3. RunService

### State and actions

One action is one critical section of the program, and what Go can schedule between two critical
sections can happen between two actions. `pc[r]` says which critical section `executeRun` of run
`r` enters next and `arg[r]` the event or outcome it carries; `ctl` says how far the control
operation that holds `startMu` has come; `evLock` is `eventMu`. `mu` is not a variable: whatever
happens under it is one action.

| variable | code |
| --- | --- |
| `status`, `log` | the run record and the event log on disk |
| `active`, `cancelRequested`, `ctxDone` | `Service.active`, its `cancelRequested` flag, the run's context |
| `pausedRuns`, `pausedSessions` | the maps of the same name |
| `token`, `holding` | the one-slot channel of each session gate; runs whose `release` is not nil |
| `decided` | the answer in an approval's channel |
| `pc`, `arg`, `ctl`, `evLock` | program positions and locks |
| `sequence` | `Service.eventSequences` of the run: no number yet, that of the last event in the log, or one behind it |

`WaitIfRunPaused` stands for the four safe points, `AcquireLook`/`AcquireTake`/`AcquireRecheck`
for `acquireSession`, `AppendCheck`/`AppendWrite` for `appendEvent`, `Callback` to `SaveRunning`
for the event callback of the engine, `Complete`/`Finish` for the outcome, `Release` to
`ClearActive` for the deferred calls, and `Recover` for a panic. A cancel is five actions, from
the flag to the event. Any write to the run store or the log can fail (`MaxFaults`), and the
process can die and restart at any point (`MaxCrashes`). A failed append either leaves no event
(nothing written, or an unfinished last line, which the next reader drops) or leaves the event in
the log without the service's knowing (`NotAcknowledged`); `InOrder` is the comparison of numbers
that `RunEventRepository.Append` then makes. The engine is the environment: it
reports events or returns, fails or panics whenever it has the turn. Consecutive progress
events are one entry of `log`, since no property counts them.

### Runs

| run | instance | question | distinct states |
| --- | --- | --- | --- |
| `run_safety` | 2 runs of 1 session, cancelable and pausable, with an engine event between them; or 1 run with 2 events, 2 failing writes and a crash | one writer, records left behind, a cancel wins, the end of the log, refinement of `RunLifecycle` | 1.26M |
| `run_live` | 2 runs, one with an engine event, cancelable and pausable, the other waiting for the same session | a cancel and a `Close` let go of every goroutine, with nobody answering; with attentive users every run ends | 162k |
| `run_pause` | 1 run | finding 1 | (stops at the violation) |
| `run_sync` | 1 run, 1 failing write | finding 3 | (stops at the violation) |

Why these bounds are enough: the gate is per session and its conflicts are between two runs (one
holds, gives back and takes again; the other takes in between), so two runs of one session meet
every case, and a second session would only be a second copy. Two events let a second approval
follow a wait that was broken off. A fault and a crash are what it takes for a restart to find
half of what should be there, and two faults for its own repair to fail. The theorems of section 7 do not depend on
any of these bounds.

### Fairness

`FairSpec` has weak fairness for each goroutine and for the handler of the control operation: Go
runs what can run. Taking `eventMu` has strong fairness, because other operations can take it
again and again, and `sync.Mutex` hands itself to a waiter that has starved. The engine returns,
which its budgets see to. Nothing is assumed of users, except in `EveryRunEnds`, whose
hypothesis (`AttentiveUsers`) says that approvals are answered and no run stays paused for good.
`StopsReachAll` needs no such hypothesis: a canceled run, and every run of a
closing service, lets go of its goroutine.

## 4. PlanLoop

### State and actions

One session that does not lock its plans (`lock_plans = false`, the default; a locked session
refuses loops, and is in `PlanSteps`). Plans are numbered by their place in the session's list. A write to the plan
file is one action, because the repository holds its mutex across the read and the rewrite; an
operation under `startMu` is a sequence of such actions with `ctl` as its place. `plan` and
`loop` are the plan's status and its `Plan.Loop`; `progressed` says whether the fingerprint of
the steps differs from the one taken when the round began. `phase` follows each run's goroutine
from outside, as far as loops care: queued, at work, between the two writes of a tool call,
ended, cleared from `active`, and gone after `advancePlanLoop`. That one run works at a time is
`RunService`'s `SingleWriter`. `roundOf` is a history variable for the budget.

`AskLoop`, `SettleLoop`, `MutateLoop`, `BeginRound`, `SaveRound`, `GiveUp` are `StartPlanLoop` and
`ResumePlanLoop` with `prepareLoopMutation` and `startPlanLoopRound`; `Halt`, `CancelSessionRun`
and `CancelDone` are interrupting and stopping; `AdvanceLoop` is `advancePlanLoop` up to the start
of the next round; `StepUpdate` and `StepReconcile`, `PlanCreateCheck` and `PlanCreate`,
`AgentInterrupt` are the tools; the look of `plan_create` can fail to read the plans, and then takes it
that no loop runs, as `ActivePlanLoop` does (the run is "blind"; section 8); `CrashAndRestart` is a crash with `markInterruptedRuns` and
`reconcilePlanLoops`. Every write applies `Queue` (`normalizePlanQueue`) and the calls of
`Reconcile` apply `Parallel` (`normalizeParallelPlans`), as in the code. A start can be refused
for reasons outside the model (provider, project, shutdown), so `BeginRound` may always give up.

### Runs

| run | instance | question | distinct states |
| --- | --- | --- | --- |
| `loop_plans` | 1 plan with loops of two rounds, where runs, failing reads and writes (1) and crashes (1) add up to three; or 2 plans with one run, a fault and a budget of one | the budget, stray rounds, one loop, `plan_create`, reasons | 1.04M |
| `loop_ends` | 1 plan, 2 runs of which the user can send one, 2 rounds, 1 fault, fair | a loop ends or pauses | 221k |
| `loop_resume` | 2 plans, 2 runs | finding 2 | (stops at the violation) |

Two plans are what "one loop at a time" and the normalisation need. A budget of two has a last
round and one before it, and reaches the idle limit of two (`PlanLoopIdleLimit`); beside the
rounds a run of the user can be queued when one ends. In `loop_ends` the user sends one run at most
(`UserRuns = {r1}`): a user who keeps sending runs can keep a session from ever being free, in
which case nobody may resume. `NoPlanningInLoop` speaks of calls of `plan_create` whose look found no
loop; one whose look failed writes its plan under whatever runs.

### Fairness

Weak fairness of the holder of `startMu` and of each goroutine; strong fairness of the end of a
run (it may be interrupted by tool steps for ever, its budgets end it) and of `AdvanceLoop`
(which waits for `startMu`, a mutex that does not starve its waiters). `PersistentUser` is a
user who keeps asking to resume: it is only needed for the one fault in `loop_ends`, where the
write at the end of a round is lost and the loop stays "running" until some operation looks at
it, which is what the code does.

## 5. ScheduleRunner

### State and actions

`time` is the wall clock, moved by `Tick`; a day has `Day` units and unit 0 is a Sunday midnight.
`Recurrence` has the three kinds of recurrence after `Normalize`, and `NextDate` is
`ScheduleRecurrence.Next`: it looks at the candidates of today and the following days in order.
Candidates are wall-clock times; days all have the same length here, so the code's care for clock
changes is not modelled.

| variable | code |
| --- | --- |
| `items`, `disk` | `ScheduleRepository.items` and `schedules.json` |
| `stage`, `now`, `plan`, `current` | the runner's goroutine: where it is, the time it read, the snapshot it works through, the schedule whose run it has started |
| `manual` | a `RunSchedule` between `Get` and `MarkTriggered` |
| `closed` | `rootCtx` is done |
| `boot`, `fired` | history: the time of the last rebase; for each schedule the time of the last pass whose trigger was recorded |

`CreateSchedule`, `UpdateSchedule`, `DeleteSchedule` and `SetDate` (`MarkTriggered` and
`Reschedule`) are each one action, since the repository holds its mutex from the look-up to the
rollback of a failed write. `Boot` and `Rebase` are `rebaselineSchedules`, `Scan`, `Trigger` and
`TriggerMark` are `runDueSchedules` with `triggerSchedule`; `List` and the reading of the clock
after it are one step. A pass works through its snapshot in any order (the code sorts it by
position). Whether the run could be started makes no difference to the schedule, so `Trigger`
does not say. An update of other fields than the recurrence and `enabled` changes nothing modelled.
`CrashAndRestart` loads the file and switches off, in memory only, schedules whose directories
are gone; it stands for a restart after `Close` as well. The times at which the process is down
are `Tick`s before `Boot`.

### Runs

| run | instance | question | distinct states |
| --- | --- | --- | --- |
| `schedule_dates` | 2 schedules, one of them also triggered by hand, 2 changes, 4 moments, 1 failing write, 1 crash | recorded dates, missed dates, due dates that stay | 534k |
| `schedule_manual` | 1 schedule | finding 4 | (stops at the violation) |

A day of two units and a grace of one let a date be on time, missed within the grace and missed
beyond it in four moments. Two schedules are a pass with something left to do when the first run
is started; a third would be another of the same. Two changes are what it takes to delete a
schedule of a pass, or to switch one off and on. What is said of dates is said of schedules
outside `ByHand`, because a trigger by hand spoils them (finding 4); the one in `ByHand` shares the
store, the pass and the faults with the other. `MissedIsSkipped` speaks of behaviours up to the
first storage fault: if the write of the new date is lost at the restart, the missed date is run.

What `RecordedOnce` does not promise: a run started just before a crash, or whose record could
not be written, is started again for the same date. The code accepts that, and `fired` is only
set when the record was made.

### Fairness

Weak fairness of `RunnerStep`: the ticker fires again and again and the goroutine is not blocked,
since it waits for nobody. With it a due date is left behind (`DueIsServed`) unless the service is
closed. Users, time and crashes need no fairness.

## 6. The other components

Each of the modules below is a component by itself. TLC checks them in two composites,
`MCLive` and `MCComponents`: `focus` says which component a behaviour is about, that one takes
its own steps and the others stay in their first state. The state space is the sum of those of
the components, not their product; nothing is lost by that, since what a component needs of
another is part of its own module (a run at work in `Places`, the runs of a session in `ContextWindow`).
`CHECK_DEADLOCK FALSE` is in both, because a component comes to rest: no call is left, the bounds
are used up.

### MCLive: somebody waits

**HarnessLoop** (`harness/loop.go`, `tools.go`, `loop_guard.go`, `completion.go`, `model_budget.go`). `transcript` is
what is durable: the replies with calls, and each call's result. `phase` is where `Run` is: the
start of a turn, the stream, the reply in hand, the group of calls, the record. Each call of a
group goes from the check (`Verdict`: refused, answered from the guard, let through) over the
approval to the dispatch and back. `guard` and `tracker` count failures, repetitions and doubts. A
cancel, an expired clock, a lost emission and a crash may come anywhere. `AllAccounted`: a run
that is over left a result for every call, and its answer names what failed and was not made up
for. `WritesOnce`: a write in doubt, or done, is not done again unless somebody agreed. Bounds:
three calls, two in one reply, two writes on a resource (one of them guarded) and a read, a second run that
continues the transcript of the first, one mishap.

**EventStream**. `file` and `tail` are the run's JSON lines and what a failed write left behind
them, `cached` and `known` the two caches of the last number (repository and service), `client`
the loop of `writeRunEventStream`, `listed` and `got` what it holds and what the client has.
Append with its repair, the terminal status and event, a restart, pruning, a connection lost and
opened again. `EventsKept`: what was acknowledged is at its number, no line is garbage, and the
client has a prefix of the file. Three events, two faults.

**McpManager**. Two settings (a `serverState` each), two sessions, two versions of a tool of
which the second may be repeated, one call beside another user of the connection. `CallsHold`:
a tool that does not say it may be repeated runs at most once, "not dispatched" is only said when
it did not run, and a replaced state has its session closed.

**SignIn**. Two flows, two callback requests, two requests that need a token, one lost answer.
`TokenPresentedOnce`: without a lost answer no refresh token is sent twice (a server that rotates
them would end the session).

**Commands**. One call of `shell_exec`, `ssh_exec` or `ssh_wait`, with its timeout and a cancel
at any step, a process group here with a grandchild that may leave it, a connection that is refused, falls silent
or breaks. `CommandsHold`: a command is sent once, success is only reported of a command that
ended well (for `ssh_wait`: of as many checks in a row as were asked for), and a call that is over leaves
no process of its group.

**Console**. Two prompts in one chat, the first with a file, one reload or loss of the backend,
two failing requests. Each action is the code between two awaits. `PromptKept`: a prompt is
started with one idempotency key however often it is sent, and while it has not ended it is in the outbox.

**Supervisor**. Two callers of start, stop and restart beside the end of the desktop, two
processes, two desktops one after the other. **NetPass**. Two callers of stop, two clients, three
configurations, one fault: a start that fails, a kill or a removal of the key that fails, or a crash of the
service. `ChildrenKnown`: a desktop has one backend, a stop that says so has ended it, a
tunnel is running only under the configuration shown, and its key is removed with it. A client that
could not be killed goes on unseen (`unkilled`, a history variable; section 8): the property says that
only those do of which a `Stop` has returned that error, and that the client shown runs as it is shown
even beside one.

`NobodyWaitsForEver` is the liveness of all of them: a run ends, a stream client hears what was
written and of the end, an MCP call returns, the callback port is given back, a prompt is
answered or fails, a command ends, a backend does not outlive its desktop. Fairness, for the
component in focus: the steps the program takes by itself go on (`GoesOnInFocus`: weakly fair,
and never the steps of users, servers, faults or crashes); the clock of a run and of a command
does run out (`ContextEnds("expired")`, `CallEnds("expired")`); each user of an MCP connection
goes on, and its own deadline passes (`ClientStep`, `Exceeded`). Left out of it: a prompt whose
session the user chose to skip after a reload, and a machine that falls silent between login
and the start of a command, which nothing bounds (section 8).

### MCComponents: somebody shares

**ContextWindow**. Six entries, a turn and a user who both compact. `NothingForgotten`: every
message the user sees is in the window or in what the latest summary was made from; the result of
a call that a summary covers may be dropped.

**SessionStore**. One reader who builds an index while lines are appended, written half, and
synced or not. `NumbersAscend`: acknowledged lines have ascending numbers.

**PlanSteps** (`domain/plan.go`, `tools/native/plans/evidence.go`, `plan_repository.go`). The plans of
one session: the tools and the user create, rebuild, edit and advance them; every write puts the file
in the form of a queue, and a second write brings it back to the form of the session. `StepsAreEarned`: a completed step
names results that came after it was begun and, if it says that something was changed, one of a tool
that changes things; a plan's steps are done in their order and its status is that of its steps; a run
of a locked session finds one plan it can move, but for the listing of section 8. `PastHolds` is both.
Two plans, two steps in all, two tool results.

**RunStore**. A retention of one, three starts, a key of each kind of project, two faults.
`KeptOrDropped`: a dropped run is in neither copy, and a key has one run.

**Notifications** (`notification_repository.go`). What runs, approvals and updates leave for the
user, in memory and, but for sessions of isolated projects, in one file; saved in another order than made.
`NoticesHold`: the disk has nothing of an isolated session; nothing is told twice and neither group
outgrows its limit; a notice stays until it is given up or enough newer ones came. `RecordsHold` is both.
Four subjects, three notices, a limit of one.

**Decisions**. Two deciders, two requests, the first of them once only, one fault: a read or write of
the session in `DecideRun` that fails, with or without effect, or a crash. **Questions**. Two questions
of two sessions, one dialog, one repetition, two answers. `PeopleDecide`: an accepted decision
is the one that was heard; a permanent approval remains only if somebody's was accepted, or if the
call that stored it could not take it back (`leftOver`, a history variable: the write failed or the
process ended in between, section 8); one answer
is taken of a question, the one its run is told; "unanswered" means that it timed out or was
closed; nobody is turned away before the question is there.

**Places**. Two workspaces, a project of each kind, a session, one operation without `startMu`,
one fault, one restart. `NothingIsOrphaned`: a session's project is in its workspace and, when
isolated, has its disk; a deleted session has left nothing. `structure` (section 8) is the
same module with all of them at once.

**ThinkTags**. Four atoms: heads of markers and what closes them, white space, parts of two channel names,
text; two atoms are held back at most, so that a marker with one space in it is held to its end and one
with two is not. `ShownAsStored`: what was
shown in pieces is what the whole text comes to, but for a closing tag without an opening one, which is
known too late, and for a marker that white space has made longer than what is held (section 8). The white space
that the stored text loses at its ends is left aside.

**ModelCall**. Two attempts, three protocols, two units of text and two of arguments, two faults.
`AnswerIsTrue`: an answer that counts as complete is what the model meant, nothing is shown
twice, and what was shown was accounted for.

**Quota**. Two credits, two clients with a key each, the timer, one lost request. `QuotaHolds`:
a redemption spends one credit however often it is sent, what it is told is so, and no older
reading replaces the one made after it. The account is external: it serves a key once, as the
code relies on.

**Memory**. Two speakers (one of an isolated project), a note and its rephrasing, the operator, who writes
to the scope of either project and may supersede what is there, a
cap of one, a failing write, a restart. `IsolationKept`: nothing of an isolated session is in the
file, nobody else recalls it, what only others said is as in the file, and an isolated session merges
into, supersedes or forgets what others said only where the operator said it in the scope of its own
project (section 8). The operator's notes are taken to name no source session (the HTTP interface would pass
one on).

**Settings**. Two editors, three updates, two providers (one of them signed in to), a server, one
fault. `SettingsHold`: what was acknowledged is in the file, with the lock free the configuration
is the file and in use, and a provider's limits are those of the server it is configured for.

**RamDisks**. Two services on one host, two disks of which one fits at a time. `IsolationOfDisks`:
a disk in use stays the one of its process and project, and what isolated sessions wrote is
neither in the data directory nor met again by a later process.

**Backup**. Three writes, two restores, two sessions. `RestoredStarts`: a service is refused at a
start only if the archive is not of one piece or something other than the restore came between.

### Runs

| run | question | distinct states |
| --- | --- | --- |
| `live` | the components of `MCLive` | 491k |
| `components` | the components of `MCComponents` | 1.66M |
| `structure` | finding 5 | (stops at the violation) |

Why the bounds are enough: each hazard of these components is between two actors (two callers,
a caller and a fault, a write and a restart), and the bounds give every pair its turn, with one
more of what is counted (a second attempt, a second session, a credit more) so that an
off-by-one shows. The mutants of `PROJECT.json` are found within them.


## 7. Proofs

Every theorem holds for every value of the constants that satisfies the assumptions of its
module, which TLC evaluates in every run. They say what the code gives: that bounds are numbers and limits
positive (`BoundAssumption`, `ContextAssumption`, `CountAssumption`, `IdleAssumption`, `EventBounds`, `TunnelBounds`,
`CallBounds`, `SessionBounds`, `PlanStepBounds`, `NoticeBounds`, `BackupBounds`, `TagBounds`), that names of different
things differ (`NoneAssumption`, `ControlAssumption`, `RunsAssumption`, `DecisionsAssumption`,
`RunStoreAssumption`, `QuestionAssumption`, `QuotaAssumption`, `SignInBounds`, `RamDisksAssumption`, `PlacesAssumption`;
the end of the desktop is not one of its controls, `ShellBounds`, and a free lock has no user, `McpAssumption`), that each run
has a session (`SessionAssumption`), a day is not empty and recurrences are well formed
(`DayAssumption`, `RecurrenceAssumption`), there is a folder to back up (`BackupBounds`), at least one desktop
(`ShellBounds`), finitely many callbacks of the browser (`SignInBounds`) and a first
change of the settings, which has number 1, the parts of the settings share no field and nobody is an
editor (`SettingsAssumption`), and the sessions of a project are all isolated or none is (`SpeakerShape`;
of the operator's scopes nothing is assumed).

| theorem | states | argument |
| --- | --- | --- |
| `TypeCorrect` | `[]TypeOK` | inductive, part by part; `Fits` ties each position to its argument |
| `OneWriter` | `[]SingleWriter` | `GateInv`: a run in its engine has the gate or has reserved the session, and a gate whose token is there is held by nobody |
| `ReleaseIsSafe` | `[]GateHeldAtApproval` | the same invariant; a broken-off wait leaves a context that is done, which the callback looks at first |
| `EndIsFinal` | `TerminalIsFinal` | every write of the record is guarded by a look under `mu`; needs what is known of a run about to be created |
| `CanceledIfCancelRequested` | `CancelWins` | the outcome is decided under `mu` |
| `LogEndsOnce` | `[]TerminalEventLast` | `LogInv`: whoever is between the check and the write holds `eventMu`, and only the status' own event may close a log |
| `GoneLeavesRecord` | `[]GoneIsRecorded` | `EndedInv`: until a fault, whoever wrote the terminal status still has the event to append and is not refused (`AppendCan`), and a run past its record is final or has a cancel coming |
| `Refinement` | `Spec => LifecycleSpec` | with the invariants above, every action maps to one of `RunLifecycle` or to a stutter |
| `LoopTypes` | `[](TypeOK /\ IdleBelow)` | one step per action; a loop below the idle limit until it is stopped is what keeps `idle` in its type |
| `OneLoopRuns` | `[]OneLoop` | only `MutateLoop` makes a loop run (`RunningShrinks`), and only when none does (`MutateStarts`) |
| `PlanningAlone` | `[]NoPlanningInLoop` | `Prepared`: an operation that has found the session free keeps it free as long as it holds `startMu`, and a run in `plan_create` is one that a free session does not have |
| `ReasonIsKept` | `PauseIsKept` | every write of the system is to a loop that runs |
| `BudgetIsKept` | `[]RoundBudget` | `Counted`: the round about to be saved is counted and not yet spent |
| `NoRoundIsStray` | `[]NoStrayRound` | `Saving` (the round about to be saved is its loop's), `Sending` (earlier rounds of that loop are being canceled), `Fresh` (a run without a record is nobody's round), `Prepared` |
| `NextDateIsLater` | `NextDate(q, t) > t` | the search is never empty: among seven days ahead every weekday occurs (`SomeCandidate`) |
| `NextDateIsFirst` | it has the time and weekday of `q`, and nothing between does | a moment with that time of the day is the candidate of its own day (`OnlyCandidate`), so a smaller one would have been found earlier |
| `ScheduleRunnerTypes` | `[]TypeOK` | every write goes through `Persist`; a date is only written to a schedule that is there |
| `ScheduleEnabledHasDate` | `[]EnabledHasDate` | `DatesInv` |
| `ScheduleRecordedOnce` | `RecordedOnce` | `DatesInv`: in memory, in the file and in the plan of the pass under way, a date lies after the last recorded trigger |
| `ScheduleMissedIsSkipped` | `MissedIsSkipped` | `MissedInv`: until a fault, what is switched on while the runner works is not missed, or waits in the plan of the rebase; what a snapshot holds was so when it was taken |
| `AcknowledgedEventsStay` | `[]EventsKept` | `StreamInv`: a cached number is that of the end of the file, which then needs no repair |
| `TokenOnce` | `[]TokenPresentedOnce` | `TokenInv`: a token that was presented is in no copy that somebody may still present |
| `TunnelIsKnown` | `[]NothingLeftOpen` | the place of every caller of start and stop says which client and which key it still has to end |
| `PeopleAlwaysDecide` | `[]PeopleDecide` | `DecisionInv`: a permanent grant has an owner, accepted or about to take it back, or is left over by a call that failed; `QuestionInv`: an open question has no answer and a closed one has the one that was taken |
| `ProviderIsAlwaysTrue` | `[]ProviderIsTrue` | `ModelInv`: what was decoded is what was sent, and shown until a retry, which only happens before anything was; `QuotaInv`: one refresh at a time, and what a redemption brought is in every later reading |
| `RecordsAreKept` | `[]RecordsHold` | `RunStoreInv`: the file is behind memory, never beside it; `NoticeInv`: identifiers are fresh, and of the notices that last as many newer ones are there as pushed one out |
| `PastAlwaysHolds` | `[]PastHolds` | `StoreInv`: an index that is valid has the number of the last line, and the number about to be used is above every acknowledged one; `PlansInv`: every plan is `Sound`, a property of one record that each tool keeps |
| `RestoredAlwaysStarts` | `[]RestoredStarts` | `BackupInv`: the archive is of one piece as far as it was walked, the disk as far as it was unpacked |
| `IsolationIsKept` | `[]IsolationKept` | `MemoryInv`: whoever has a hand in a memory has a place in its scope (`MayHold`: in a sealed one the sessions of its project and the operator), one that an isolated session has said counts as its own from then on, and the file is memory without those |
| `SettingsAlwaysHold` | `[]SettingsHold` | `SettingsInv`: an editor past the lock holds it, changes one part, and its number is fresh, so an answer of an older generation is thrown away |
| `DisksStayIsolated` | `[]IsolationOfDisks` | `DiskInv`: every disk of a pool, of a task and at a root is one that its process mounted and marked |
| `NothingIsEverOrphaned` | `[]NothingIsOrphaned` | `PlaceInv`: whoever holds `startMu` carries what it found: a place to take has its project and its disk, a project about to be made or mounted is empty, a deletion knows all sessions and has emptied what it has been through |
| `EveryCallIsAccounted` | `[]AllAccounted` | `HarnessInv`: every entry of the transcript is answered in order, the one in hand up to the next call, and the tracker holds exactly the failures that still stand |
| `NoWriteTwice` | `[]WritesOnce` | `HarnessInv`: the guard knows every write in doubt and every write that is done and not replaced; of a group that may start, no call is one of those unless a user agreed |
| `ChildrenAlwaysKnown` | `[]ChildrenKnown` | `ShellInv`: one start at a time is past the check, and a live process of this desktop is its command or in the hand of whoever started it (`DesktopOwns`); what a stop has seen was started; and the invariant of the tunnel |
| `EffectsAreAlwaysTrue` | `[]EffectsAreTrue` | `McpInv`: whoever is between the lock and its end holds it, a replaced state has no session and nobody connects it any more (`OldIsClosed`), and a call that may be run once has not been run where it may still be sent (`CallFits`); `CommandInv`: what was started by the place of the call (`StartedFits`), and the checks that matched are the last ones in a row (`MatchingFits`) |
| `PromptsAreKept` | `[]PromptKept` | `ConsoleInv`: a prompt keeps its one key wherever it is stored, has a task only while it is being sent, and leaves the outbox after its run has ended (`PromptFits`) |
| `NothingIsForgotten` | `[]NothingForgotten` | `ContextInv`: a summary has all that is shown of what came up to its place (`CompactionsFit`), and so has the one that is about to be written, wherever it will end (`SummaryFits`); nothing comes between a reply and its results but compactions (`ResultsFit`) |
| `WhatIsShownIsStored` | `[]ShownAsStored` | `TagsInv`: the stream keeps pace with the split (`Paced`): after as many markers, it has shown and will read as thinking what the split does, up to the atoms it has passed; none of those can begin a marker, or belong to a name, whatever comes yet |
| `ComponentsAreTyped` | `[]ComponentsTypeOK` | the invariants above with one part for each component (`StoreLimits`, `RunStoreLimits`, ...): what an index, a scan, a copy or a task holds stays within what it was taken from, and a counter below its limit |
| `LiveIsTyped` | `[]LiveTypeOK` | the invariants of `LiveProofs` and `HarnessProofs` with one part more for each component (`StreamLimits`, `McpLimits`, ...). In the harness, the calls that are used up are those of the turns that ended and of the reply in hand (`HarnessLimits`) |
`SingleWriter`, `TerminalEventLast`, `RoundBudget` and `NoStrayRound` are not inductive: from a
state that satisfies them alone, a run could take a gate nobody should have returned, a second
terminal event could be in flight, an uncounted round could be saved, or a new round could take
over a loop whose earlier one still works. Nor is `RecordedOnce` kept by itself: a stale plan, or a
file that lags behind memory, would bring back an old date after a restart. The named conjuncts are what rules those states out,
and each is proved to be kept by every step. In the same way `BackendOwned`, `CallsHold`, `CommandsHold`
and `PromptKept` say nothing of a process between its start and its publication, of a call that is about to be
sent again, of the checks before the last, or of a prompt that is in the queue but not in the outbox. `GoneIsRecorded` and `MissedIsSkipped` carry their own
hypothesis, that no storage write has failed yet; so do their invariants, since the program only logs such a failure.

The composites stand for their components: `ComponentProofs` shows that the part of a step that
belongs to a component is a step or a stutter of it, whichever is in focus, so the invariant of the
component is one of `ComponentsSpec`. `LiveSteps` shows the same of `MCLive`, for `ChildrenAlwaysKnown`,
`EffectsAreAlwaysTrue`, `PromptsAreKept` and `LiveIsTyped`; the others of `LiveProofs` and those of
`HarnessProofs` are about the components' own specifications.

The failure tracker goes through the results of a group one by one, the window reads the
transcript entry by entry, and text with markers is split marker by marker and shown piece by piece:
recursive functions over an interval. `OrderProofs` has what the proofs about them need, by
the least counterexample: the order of the numbers is well-founded (`SomeLeast`), so a set of positions that has the
first and, with each, the next has all (`Climbing`), and what a recursion over an interval defines exists
(`Recursion`). That needs no theorem that takes an operator.

`ReleaseIsSafe`, `EndIsFinal` and `ScheduleEnabledHasDate` are proved only: they are what the
others rest on, or hold for reasons no small instance makes plainer, and no run repeats them.

Only model-checked: liveness (`StopsReachAll`, `EveryRunEnds`, `LoopEnds`, `DueIsServed`,
`NobodyWaitsForEver`), since the prover handles neither fairness nor `ENABLED`.

## 8. Where code and documents disagree

1. `run_pause`. `docs/ai-agent/HTTP_API.md` promises that a paused run can be resumed.
   `executeRun` looks at `pausedRuns` and writes "running" in two critical sections. A pause in
   between is overwritten in the record but not in `pausedRuns`: the goroutine blocks at its next
   safe point, `ResumeRun` answers that the run is not paused and `PauseRun` that there is nothing
   to do. Only a cancel ends it.
2. `loop_resume`. `docs/ai-agent/ARCHITECTURE.md` says that unlocked plans may be active together,
   and `docs/ai-agent/HTTP_API.md` that a paused loop is resumed from its checkpoint. Every
   `Mutate` normalises the list as a queue, also in an unlocked session, so the write that pauses
   the loop of a later plan demotes that plan to "queued", and the resume is refused until some
   call lists the plans.
3. `run_sync`. A comment in `event_repository.go` says that after a failed write or sync the log
   has to be scanned again. The repository does so, but the service goes on numbering events from
   the last one it saw acknowledged. If the line of the failed append did reach the disk, every
   later append of that run is a conflict, so its terminal event is missing although the disk is
   healthy again, and a client that follows the stream waits until a restart reconciles it.
   `run_safety` shows that nothing worse follows: the log never gets a second terminal event.
4. `schedule_manual`. `docs/ai-agent/HTTP_API.md` says that running a schedule by hand leaves its
   `next_run_at` as it is. `RunSchedule` reads the schedule, starts a session and a run, and then
   writes back the date it read. A date set in between is overwritten: one that the runner has
   served comes due again, and a schedule switched on meanwhile stays without a date until the
   service restarts.
5. `structure`. `docs/ai-agent/SECURITY.md` says that a workspace or project can only be deleted
   without children. `DeleteWorkspace` looks at projects and sessions and then deletes, without
   `startMu`; a creation in between leaves a project or a session in a workspace that is gone,
   and the service refuses to start with such files.

Met while reading and modelling, outside what a run of its own shows:

- **Plans.** A listing reads whether the session locks its plans without `startMu`, and the write by
  which it brings the file into that form can land after the session was locked, even in a run: until
  the next such write, more than one plan can be moved, where the documents say a locked session
  executes its current plan only (`stale` in `PlanSteps`). A failed second write leaves the queue. A
  change whose result a crash kept out of the log is no evidence.
- **Notifications.** Only the deletion of a session restores memory when the file cannot be written: a
  deleted or read notice can be back after a restart. That nothing is told twice is said of what is stored: no
  two notices share a key. The date of a notice is taken before the lock.
- **Decisions.** An accepted permanent approval can be taken back by the rollback of another
  `DecideRun` that granted first and was delivered second (`application/service.go:1296-1322`). The
  comment there (`:1315-1316`) says that a failed call leaves no permanent approval behind; it does when the
  write of the rollback fails, whose error is dropped, when the first write fails after it took effect,
  or when the process ends between the two.
- **Backup.** `backupDirectories` names `memories`, the directory is `memory`: the notes are in no
  backup, which `docs/ai-agent/HTTP_API.md` and `ARCHITECTURE.md` promise. Restored files are
  overwritten by the repositories' copies until the restart, and a restore that halts, or is older
  than what it is put beside, can make that start fail (`RestoredStarts` says exactly when).
- **Memory.** `Remember` does not look at `Supersedes` when an equal note exists; a note just written can be the
  one that the cap drops, which a comment in `memory/write.go` excludes. `docs/ai-agent/SECURITY.md`
  (207-214) says that no memory that goes with the process rewrites or replaces a persisted one, and that what
  the operator writes to the scope of an isolated project is persisted. A session of that project that
  repeats such a note is merged into it and becomes its source, so the note leaves the file at the next write;
  it can supersede or forget it as well, and the note that took its place is gone after a restart.
- **plan_create.** A comment (`tools/native/plans/tools.go:99-100`) says that no plan is made during a
  loop. `ActivePlanLoop` answers that no loop runs when it cannot read the plans
  (`application/plan_loop.go:105-109`), and the plan is made.
- **Tagged thinking.** A marker may have any amount of white space before its `>`, the stream holds back 24
  bytes (`openaicompat/thinking.go:14, 256-280`). A longer one that is cut by the pieces of a stream is shown as text and
  stored as a marker, so thinking is shown as an answer until the page is loaded again.
- **Quota.** The console makes a new idempotency key when its panel is drawn again, so a lost
  answer is retried with another key; that the credit is named limits the damage. After a 401 on
  the details the credits are stored over the snapshot that was just cleared.
- **Settings.** New adapters have not learned the limits discovered at the start. A run that has asked an
  adapter for its limits may stream from the one that replaced it: `LimitsAreOwn` is about each adapter by
  itself and does not see that. A service name that equals the old default is rewritten when it is loaded, so
  that one name does not survive a restart (`RestartService` reads the file as it is). An OAuth flow
  begun under the old configuration stores a token of a provider that has been removed. Values of
  environment variables are persisted with the next update.
- **RamDisks.** A write that has found its root before the release creates the directory again,
  unmounted and without a mark; a reused process id keeps a stale disk; stale disks are removed at
  the next `Prepare` only.
- **Supervisor.** `Restart` can return without an error and without a backend; a configured
  backend of another program does not watch its parent; a desktop opened right after a crash may take the
  orphan for a stranger's.
- **NetPass.** `Stop` removes the key file outside the lock, so a `Start` in between can lose its
  own; a late line of an ended client is taken for one of its successor. When the kill fails (`manager.go:233-235`)
  `Stop` has already forgotten the client: the status shows a stopped tunnel, a second `Stop` does nothing,
  and the client runs on until it ends by itself. Errors of removing the key are dropped.
- **Console.** A session skipped at a restore whose run ends by itself stays skipped, and its prompts
  wait; after the workspace is reset the old stream loops go on beside the new ones. Any end of a
  tool in any session closes the dialog of a question, and the next repetition opens it empty.
- **Commands.** Opening a channel on an SSH connection is bounded by neither the context nor
  `timeout_seconds`. A canceled `ssh_wait` is reported as timed out.
- **Questions.** An answer accepted as the timeout fires can be reported as none; a repetition can be sent after
  the tool's end.

## 9. Not modelled

What has little state of its own, or acts once on the outside world and is reached by tests:
formatting, wire formats, prompts, the page's views, windows and trays, the file, document and
web tools, the transports of MCP, platform calls, token estimates, the release command.

Of the components that are modelled, what is left out: of the application service usage, export and the
registry; clock changes, names and positions of schedules and the session a failed start leaves;
attachments; the identifiers a step keeps of its evidence beyond the first; tool
retrieval, staging of large results, planning tools of the harness and sub-agents; the catalogue of models
and the choice of a provider; continuation requests and resources of MCP; environment
variables in the settings; config bundles, update checks and diagnostics of the bootstrap; the handlers other than the event
stream, which translate requests into calls. `Quota` relies on an external account, `ModelCall` on an
external model, `McpManager`, `Commands` and `SignIn` on external servers; they are modelled from how the code uses them.

The components are composed by their interfaces: `RunService` has the runs, `PlanLoop` follows
them from outside, `EventStream` has their log, and nothing checks all of them together, whose product
is out of TLC's reach.
