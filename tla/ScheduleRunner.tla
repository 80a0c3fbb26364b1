---------------------------- MODULE ScheduleRunner ----------------------------
(***************************************************************************)
(* Schedules (src/src/application/schedule.go) and their store             *)
(* (adapters/filestore/schedule_repository.go).  One goroutine, the        *)
(* runner, looks for due schedules and starts a run for each; users        *)
(* create, change, delete and trigger schedules beside it.  The store      *)
(* holds its mutex across every change, so a change is one action; the     *)
(* runner and a manual trigger read a schedule, start its run and write    *)
(* the next date in actions of their own.                                  *)
(***************************************************************************)
EXTENDS Recurrence, FiniteSets

CONSTANTS
    Schedules,    \* schedule identifiers, none of them used at the start
    Recurrences,  \* the recurrences users choose
    None,         \* no date, no schedule
    Grace,        \* scheduleMissedGrace
    ByHand,       \* bound: the schedules somebody triggers
    MaxTime,      \* bound: how far time goes
    MaxChanges,   \* bound: schedules created, changed or deleted
    MaxFaults,    \* bound: writes of the store that fail
    MaxCrashes    \* bound: crashes, and restarts after Close

ASSUME RecurrenceAssumption == Recurrences \subseteq Recurrence
ASSUME NoneAssumption       == None \notin Schedules \cup Recurrences \cup Nat
ASSUME BoundAssumption      == /\ Grace \in Nat /\ MaxTime \in Nat /\ ByHand \subseteq Schedules
                               /\ MaxChanges \in Nat /\ MaxFaults \in Nat /\ MaxCrashes \in Nat

VARIABLES
    time,
    items,    \* ScheduleRepository.items
    disk,     \* schedules.json
    stage,    \* where the runner is
    now,      \* the time at which the runner read the store
    plan,     \* what it found to do: schedule -> its date then, and the next one
    current,  \* the schedule whose run the runner has just started
    manual,   \* RunSchedule between its read of the store and its write
    closed,   \* Service.rootCtx is done
    boot,     \* history: when the runner last rebased the dates
    fired,    \* history: now of the last pass whose trigger of the schedule was recorded
    changes, faults, crashes

store   == <<items, disk, faults>>
runner  == <<stage, now, plan, current>>
history == <<boot, fired>>
vars    == <<time, store, runner, manual, closed, history, changes, crashes>>

-----------------------------------------------------------------------------
Date       == Nat \cup {None}
NoSchedule == [state |-> "none", enabled |-> FALSE, recurrence |-> None, next |-> None]
Deleted    == [state |-> "deleted", enabled |-> FALSE, recurrence |-> None, next |-> None]
Schedule   == [state : {"there"}, enabled : BOOLEAN, recurrence : Recurrences, next : Date]
Items      == [Schedules -> Schedule \cup {NoSchedule, Deleted}]
Nobody     == [schedule |-> None, next |-> None]
Nothing    == [s \in {} |-> None]
Todo       == [due : Date, next : Nat]

TypeOK ==
    /\ time \in 0..MaxTime
    /\ items \in Items /\ disk \in Items
    /\ stage \in {"boot", "rebase", "scan", "mark", "stopped"}
    /\ now \in 0..MaxTime
    /\ DOMAIN plan \subseteq Schedules
    /\ \A s \in DOMAIN plan : plan[s] \in Todo
    /\ stage = "mark" => current \in DOMAIN plan
    /\ manual \in [schedule : ByHand, next : Date] \cup {Nobody}
    /\ closed \in BOOLEAN
    /\ boot \in 0..MaxTime
    /\ fired \in [Schedules -> Date]
    /\ changes \in 0..MaxChanges /\ faults \in 0..MaxFaults /\ crashes \in 0..MaxCrashes

Init ==
    /\ time = 0
    /\ items = [s \in Schedules |-> NoSchedule] /\ disk = items
    /\ stage = "boot" /\ now = 0 /\ plan = Nothing /\ current = None
    /\ manual = Nobody /\ closed = FALSE
    /\ boot = 0 /\ fired = [s \in Schedules |-> None]
    /\ changes = 0 /\ faults = 0 /\ crashes = 0

-----------------------------------------------------------------------------
(* The store.                                                              *)

There(s) == items[s].state = "there"

\* persistLocked: the file is replaced, or the items are put back as they were.
Persist(new) ==
    \/ items' = new /\ disk' = new /\ UNCHANGED faults
    \/ faults < MaxFaults /\ faults' = faults + 1 /\ UNCHANGED <<items, disk>>

\* Update with a new recurrence or a new "enabled": the date starts afresh.
Redated(item) ==
    [item EXCEPT !.next = IF item.enabled THEN NextDate(item.recurrence, time) ELSE None]

\* Mutant: the schedule is written whether or not it is still there.
SetDateUnchecked(s, d) == Persist([items EXCEPT ![s].next = d])

\* MarkTriggered and Reschedule refuse a schedule that was deleted, and
\* nothing else.
SetDate(s, d) ==
    \/ There(s) /\ Persist([items EXCEPT ![s].next = d])
    \/ ~There(s) /\ UNCHANGED store

-----------------------------------------------------------------------------
(* Users.                                                                  *)

CreateSchedule(s, q, on) ==
    /\ items[s] = NoSchedule
    /\ Persist([items EXCEPT ![s] =
            Redated([state |-> "there", enabled |-> on, recurrence |-> q, next |-> None])])

UpdateSchedule(s, q, on) ==
    /\ There(s)
    /\ Persist([items EXCEPT ![s] =
            Redated([state |-> "there", enabled |-> on, recurrence |-> q, next |-> items[s].next])])

DeleteSchedule(s) ==
    /\ There(s)
    /\ Persist([items EXCEPT ![s] = Deleted])

Change ==
    /\ changes < MaxChanges
    /\ changes' = changes + 1
    /\ \E s \in Schedules :
         \/ \E q \in Recurrences, on \in BOOLEAN : CreateSchedule(s, q, on) \/ UpdateSchedule(s, q, on)
         \/ DeleteSchedule(s)
    /\ UNCHANGED <<time, runner, manual, closed, history, crashes>>

\* RunSchedule reads the schedule and starts its run, or fails to.
RunSchedule(s) ==
    /\ s \in ByHand /\ There(s)
    /\ manual = Nobody
    /\ manual' = [schedule |-> s, next |-> items[s].next]
    /\ UNCHANGED <<time, store, runner, closed, history, changes, crashes>>

\* Then it writes the date it has read; a client that has gone away by then
\* takes the request's context with it.
RunScheduleMark ==
    /\ manual # Nobody
    /\ manual' = Nobody
    /\ SetDate(manual.schedule, manual.next) \/ UNCHANGED store
    /\ UNCHANGED <<time, runner, closed, history, changes, crashes>>

CloseService ==
    /\ ~closed
    /\ closed' = TRUE
    /\ UNCHANGED <<time, store, runner, manual, history, changes, crashes>>

-----------------------------------------------------------------------------
(* The runner.                                                             *)

Enabled == {s \in Schedules : There(s) /\ items[s].enabled}

\* What a pass that begins now will do for the schedules in S.
PlanFor(S) ==
    [s \in S |-> [due |-> items[s].next, next |-> NextDate(items[s].recurrence, time)]]

\* Mutant: dates missed while the service was down are kept.
MissedIfNone(s) == items[s].next = None

Missed(s) == items[s].next = None \/ items[s].next + Grace < time

\* rebaselineSchedules: one look at the store, then a write for each schedule.
Boot ==
    /\ stage = "boot" /\ ~closed
    /\ stage' = "rebase"
    /\ plan' = PlanFor({s \in Enabled : Missed(s)})
    /\ now' = time /\ boot' = time
    /\ UNCHANGED <<time, store, current, manual, closed, fired, changes, crashes>>

Without(s) == [q \in DOMAIN plan \ {s} |-> plan[q]]

Rebase(s) ==
    /\ stage = "rebase" /\ s \in DOMAIN plan
    /\ IF closed THEN UNCHANGED store ELSE SetDate(s, plan[s].next)
    /\ plan' = Without(s)
    /\ UNCHANGED <<time, stage, now, current, manual, closed, history, changes, crashes>>

Due == {s \in Enabled : items[s].next # None /\ items[s].next <= time}

\* runDueSchedules; a pass that finds nothing due leaves nothing behind.
Scan ==
    /\ stage \in {"rebase", "scan"} /\ plan = Nothing /\ ~closed
    /\ Due # {}
    /\ stage' = "scan"
    /\ plan' = PlanFor(Due)
    /\ now' = time
    /\ UNCHANGED <<time, store, current, manual, closed, history, changes, crashes>>

\* Mutant: a run that cannot be started leaves the date as it is.
TriggerOrSkip(s) ==
    /\ stage = "scan" /\ s \in DOMAIN plan /\ ~closed
    /\ \/ stage' = "mark" /\ current' = s /\ UNCHANGED plan
       \/ plan' = Without(s) /\ UNCHANGED <<stage, current>>
    /\ UNCHANGED <<time, store, now, manual, closed, history, changes, crashes>>

\* triggerSchedule starts a session and a run, or fails to: it goes on alike.
Trigger(s) ==
    /\ stage = "scan" /\ s \in DOMAIN plan /\ ~closed
    /\ stage' = "mark" /\ current' = s
    /\ UNCHANGED <<time, store, now, plan, manual, closed, history, changes, crashes>>

\* MarkTriggered: lost when the service is closing.
TriggerMark ==
    /\ stage = "mark"
    /\ \/ closed /\ UNCHANGED store
       \/ ~closed /\ SetDate(current, plan[current].next)
    /\ fired' = IF items'[current].next = plan[current].next
                THEN [fired EXCEPT ![current] = now] ELSE fired
    /\ stage' = "scan" /\ plan' = Without(current) /\ current' = None
    /\ UNCHANGED <<time, now, manual, closed, boot, changes, crashes>>

Stop ==
    /\ closed /\ stage \notin {"mark", "stopped"}
    /\ stage' = "stopped" /\ plan' = Nothing
    /\ UNCHANGED <<time, store, now, current, manual, closed, history, changes, crashes>>

RunnerStep ==
    \/ Boot \/ Scan \/ TriggerMark \/ Stop
    \/ \E s \in Schedules : Rebase(s) \/ Trigger(s)

-----------------------------------------------------------------------------
(* Crash and restart.  Schedules whose sandbox directories are gone are    *)
(* switched off in memory when the file is loaded.                         *)

Loaded(gone) ==
    [s \in Schedules |-> IF s \in gone /\ disk[s].state = "there"
                         THEN [disk[s] EXCEPT !.enabled = FALSE, !.next = None] ELSE disk[s]]

CrashAndRestart ==
    /\ crashes < MaxCrashes
    /\ crashes' = crashes + 1
    /\ \E gone \in SUBSET Schedules : items' = Loaded(gone)
    /\ stage' = "boot" /\ now' = 0 /\ plan' = Nothing /\ current' = None
    /\ manual' = Nobody /\ closed' = FALSE
    /\ UNCHANGED <<time, disk, faults, history, changes>>

Tick ==
    /\ time < MaxTime
    /\ time' = time + 1
    /\ UNCHANGED <<store, runner, manual, closed, history, changes, crashes>>

\* Nothing left to do: the service is closed, or time has come to its bound.
Quiet ==
    /\ \/ stage = "stopped"
       \/ time = MaxTime /\ stage \in {"rebase", "scan"} /\ plan = Nothing /\ Due = {}
    /\ UNCHANGED vars

Next ==
    \/ Tick \/ Change
    \/ (\E s \in Schedules : RunSchedule(s)) \/ RunScheduleMark
    \/ RunnerStep \/ CloseService \/ CrashAndRestart \/ Quiet

Spec     == Init /\ [][Next]_vars
FairSpec == Spec /\ WF_vars(RunnerStep)

-----------------------------------------------------------------------------
(* Properties.  A trigger by hand writes back a date it read earlier       *)
(* (ManualKeepsDate), so what is said of dates is said of the schedules    *)
(* nobody triggers by hand.                                                *)

Timed == Schedules \ ByHand

\* The runner starts the run of s for the date plan[s].due.
Triggers(s) == stage = "scan" /\ stage' = "mark" /\ current' = s

\* A date that lies before a recorded trigger is never run again, whatever
\* was changed, lost or restarted meanwhile: dates only move past the time at
\* which the runner looked, so missed ones never pour out one by one.
RecordedOnce ==
    [][\A s \in Timed : Triggers(s) => fired[s] = None \/ plan[s].due > fired[s]]_vars

\* After a restart no run is started for a date missed by more than the grace.
\* (Until a storage fault: the new date may not have been written.)
MissedIsSkipped ==
    [][\A s \in Timed : Triggers(s) /\ faults = 0 => plan[s].due + Grace >= boot]_vars

\* A schedule that is switched on has a date: it cannot be forgotten.
EnabledHasDate ==
    \A s \in Timed : There(s) /\ items[s].enabled => items[s].next # None

\* A due date does not stay: its run is started, or fails to start, and the
\* schedule moves on, whatever the store lost on the way.
DueIsServed ==
    \A s \in Timed : \A d \in 0..MaxTime :
        (s \in Enabled /\ items[s].next = d /\ d <= time) ~> (items[s].next # d \/ closed)

\* Running a schedule by hand leaves its date alone.
ManualKeepsDate ==
    [][manual # Nobody /\ manual' = Nobody /\ crashes' = crashes
        => \A s \in Schedules : items'[s].next = items[s].next]_vars
=============================================================================
