------------------------------- MODULE Console -------------------------------
(***************************************************************************)
(* The prompts a user sends from the web console (web/console/assets/      *)
(* app.js): the outbox in IndexedDB, the queue of the page, the task that  *)
(* sends one prompt and follows its run over broken connections, the runs  *)
(* the page finds at work when it starts, and the page itself, which can   *)
(* be reloaded or lose the backend at any moment.                          *)
(*                                                                         *)
(* The page runs one event at a time and yields at every await, so each    *)
(* action is the code between two awaits.  The service answers a start     *)
(* with a known key with the run it has (RunStore says for how long).      *)
(***************************************************************************)
EXTENDS Integers, FiniteSets

CONSTANTS
    MaxPrompts,       \* bound: prompts, numbered as they are created
    Chats,            \* the sessions of the workspace
    ChatOf,           \* the session of each prompt
    MemoryOnly,       \* the sessions of isolated projects: nothing is stored
    WithFiles,        \* the prompts with attachments
    MaxReconnects,    \* attempts to open the stream of a run again
    MaxConsoleFaults, \* bound: requests and transactions that fail
    MaxReloads        \* bound: reloads of the page, and losses of the backend

Prompts == 1..MaxPrompts

ASSUME ConsoleBounds ==
    /\ MaxPrompts \in Nat /\ MaxReconnects \in Nat /\ MaxConsoleFaults \in Nat
    /\ MaxReloads \in Nat /\ MemoryOnly \subseteq Chats /\ WithFiles \subseteq Prompts
    /\ ChatOf \in [Prompts -> Chats]

VARIABLES
    outbox,       \* the prompts in IndexedDB
    outboxAvailable,
    queue,        \* state.promptQueue
    task,         \* where the executePrompt of each prompt waits
    reconnects,   \* the attempts its runWithReconnect has made
    activeRuns,   \* state.activeRuns: 0, the prompt, or minus the prompt whose run is followed
    skipped,      \* state.restoreSkippedSessionIDs
    candidates,   \* the runs the restore dialog offers
    page,         \* outboxLoaded, and backendHealthy
    serverRun,    \* the run the service has for the prompt
    startedWith,  \* the idempotency keys it was started with
    history,      \* what the user was told, and removed
    consoleFaults, reloads

promptVars  == <<outbox, outboxAvailable, queue, task, reconnects>>
serverVars  == <<serverRun, startedWith>>
consoleVars == <<promptVars, activeRuns, skipped, candidates, page, serverVars,
                 history, consoleFaults, reloads>>

NoItem == [status |-> "none", named |-> FALSE, files |-> FALSE, key |-> 0]
NoRun  == 0
NewItem(p) == [status |-> "pending", named |-> FALSE, files |-> p \in WithFiles, key |-> 1]

ConsoleInit ==
    /\ outbox = [p \in Prompts |-> NoItem] /\ outboxAvailable = TRUE
    /\ queue = outbox
    /\ task = [p \in Prompts |-> "none"] /\ reconnects = [p \in Prompts |-> 0]
    /\ activeRuns = [s \in Chats |-> NoRun] /\ skipped = {} /\ candidates = {}
    /\ page = "loading"
    /\ serverRun = [p \in Prompts |-> "none"] /\ startedWith = [p \in Prompts |-> {}]
    /\ history = [p \in Prompts |-> "none"]
    /\ consoleFaults = 0 /\ reloads = 0

-----------------------------------------------------------------------------
(* The outbox.                                                             *)

ConsoleFault == consoleFaults < MaxConsoleFaults /\ consoleFaults' = consoleFaults + 1
NoFault == UNCHANGED consoleFaults

(* One transaction, unless the session may not leave a trace.  The first   *)
(* that fails makes the outbox unavailable to the page.                    *)
Put(p, value) ==
    IF ChatOf[p] \in MemoryOnly THEN UNCHANGED <<outbox, outboxAvailable, consoleFaults>>
    ELSE /\ outboxAvailable /\ outbox' = [outbox EXCEPT ![p] = value]
         /\ UNCHANGED <<outboxAvailable, consoleFaults>>

PutFails(p) ==
    /\ ChatOf[p] \notin MemoryOnly /\ UNCHANGED outbox
    /\ \/ ~outboxAvailable /\ UNCHANGED <<outboxAvailable, consoleFaults>>
       \/ outboxAvailable /\ ConsoleFault /\ outboxAvailable' = FALSE

(* drainPromptQueue: the first pending prompt of every session that has    *)
(* neither a run nor a prompt on its way, and is not left out.             *)
Launchable(items, runs, left) ==
    {p \in Prompts :
        /\ items[p].status = "pending" /\ ChatOf[p] \notin left
        /\ runs[ChatOf[p]] = NoRun
        /\ \A q \in Prompts : ChatOf[q] = ChatOf[p] =>
              /\ items[q].status # "sending"
              /\ items[q].status = "pending" => p <= q}

DrainedBy(items, tasks, launched) ==
    /\ queue' = [p \in Prompts |-> IF p \in launched THEN [items[p] EXCEPT !.status = "sending"]
                                   ELSE items[p]]
    /\ task' = [p \in Prompts |-> IF p \in launched THEN "claimed" ELSE tasks[p]]
    /\ reconnects' = [p \in Prompts |-> IF p \in launched THEN 0 ELSE reconnects[p]]

Drain(items, tasks, runs, left) ==
    DrainedBy(items, tasks, IF page = "healthy" THEN Launchable(items, runs, left) ELSE {})

-----------------------------------------------------------------------------
(* What the user does with prompts.                                        *)

(* enqueuePrompt: the prompt is stored first; the input is cleared after.  *)
Enqueue(p) ==
    /\ page = "healthy" /\ history[p] = "none"
    /\ \A q \in Prompts : q < p => history[q] # "none"
    /\ \/ /\ Put(p, NewItem(p)) /\ history' = [history EXCEPT ![p] = "accepted"]
          /\ Drain([queue EXCEPT ![p] = NewItem(p)], task, activeRuns, skipped)
       \/ /\ PutFails(p) /\ history' = [history EXCEPT ![p] = "refused"]
          /\ UNCHANGED <<queue, task, reconnects>>
    /\ UNCHANGED <<activeRuns, skipped, candidates, page, serverVars, reloads>>

(* removeQueuedPrompt: a delete that fails brings the prompt back.         *)
RemovePrompt(p) ==
    /\ queue[p].status \in {"pending", "failed"}
    /\ \/ /\ Put(p, NoItem) /\ queue' = [queue EXCEPT ![p] = NoItem]
          /\ history' = [history EXCEPT ![p] = "removed"]
       \/ PutFails(p) /\ UNCHANGED <<queue, history>>
    /\ UNCHANGED <<task, reconnects, activeRuns, skipped, candidates, page, serverVars, reloads>>

(* retryQueuedPrompt.                                                      *)
RetryPrompt(p) ==
    LET again == [queue[p] EXCEPT !.status = "pending"] IN
    /\ queue[p].status = "failed" /\ task[p] = "none"
    /\ \/ Put(p, again) /\ Drain([queue EXCEPT ![p] = again], task, activeRuns, skipped)
       \/ PutFails(p) /\ UNCHANGED <<queue, task, reconnects>>
    /\ UNCHANGED <<activeRuns, skipped, candidates, page, serverVars, history, reloads>>

-----------------------------------------------------------------------------
(* executePrompt: one prompt on its way.                                   *)

GoesTo(p, to) == task' = [task EXCEPT ![p] = to]
Holds(p) == activeRuns[ChatOf[p]] = p
Others == <<skipped, candidates, page, history, reloads>>

(* The status is stored before anything is sent.                           *)
Claim(p) ==
    /\ task[p] = "claimed"
    /\ \/ /\ Put(p, queue[p]) /\ GoesTo(p, "uploading")
          /\ activeRuns' = [activeRuns EXCEPT ![ChatOf[p]] = p]
          /\ UNCHANGED <<queue, reconnects>>
       \/ /\ PutFails(p) /\ UNCHANGED activeRuns
          /\ Drain([queue EXCEPT ![p].status = "failed"], [task EXCEPT ![p] = "none"],
                   activeRuns, skipped)
    /\ UNCHANGED <<Others, serverVars>>

(* The files go up once; their ids are stored before the run is asked for. *)
Upload(p) ==
    /\ task[p] = "uploading"
    /\ \/ /\ queue' = [queue EXCEPT ![p].files = FALSE] /\ Put(p, queue'[p])
          /\ GoesTo(p, "opening")
       \/ PutFails(p) /\ GoesTo(p, "failing") /\ queue' = [queue EXCEPT ![p].files = FALSE]
       \/ /\ queue[p].files /\ ConsoleFault /\ GoesTo(p, "failing")
          /\ UNCHANGED <<queue, outbox, outboxAvailable>>
    /\ UNCHANGED <<reconnects, activeRuns, Others, serverVars>>

(* StartRun with an idempotency key.                                       *)
StartedRun(p, k) ==
    IF k \in startedWith[p] THEN UNCHANGED serverVars
    ELSE /\ startedWith' = [startedWith EXCEPT ![p] = @ \cup {k}]
         /\ serverRun' = [serverRun EXCEPT ![p] = "working"]

(* runWithReconnect gives up after the last attempt.                       *)
Again(p) ==
    IF reconnects[p] >= MaxReconnects
    THEN GoesTo(p, "failing") /\ UNCHANGED reconnects
    ELSE GoesTo(p, "opening") /\ reconnects' = [reconnects EXCEPT ![p] = @ + 1]

(* Bug: a request that is sent again has a key of its own.                 *)
OpenWithNewKey(p) ==
    /\ task[p] = "opening"
    /\ IF queue[p].named THEN UNCHANGED serverVars ELSE StartedRun(p, reconnects[p] + 1)
    /\ \/ GoesTo(p, "naming") /\ UNCHANGED <<reconnects, consoleFaults>>
       \/ ConsoleFault /\ Again(p)
    /\ UNCHANGED <<queue, outbox, outboxAvailable, activeRuns, Others>>

(* openRunStream: the run is asked for with the key of the prompt, or, its *)
(* id known, its events after the last one seen.  The request or its       *)
(* answer may be lost.                                                     *)
Open(p) ==
    /\ task[p] = "opening"
    /\ \/ /\ IF queue[p].named THEN UNCHANGED serverVars ELSE StartedRun(p, queue[p].key)
          /\ \/ GoesTo(p, "naming") /\ UNCHANGED <<reconnects, consoleFaults>>
             \/ ConsoleFault /\ Again(p)
       \/ ConsoleFault /\ Again(p) /\ UNCHANGED serverVars
    /\ UNCHANGED <<queue, outbox, outboxAvailable, activeRuns, Others>>

(* onRunIdentified.                                                        *)
Name(p) ==
    /\ task[p] = "naming" /\ queue' = [queue EXCEPT ![p].named = TRUE]
    /\ \/ Put(p, queue'[p]) /\ GoesTo(p, "reading") /\ UNCHANGED reconnects
       \/ PutFails(p) /\ Again(p)
    /\ UNCHANGED <<activeRuns, Others, serverVars>>

(* consumeEvents returns with the terminal event, or the stream ends       *)
(* without it and the record of the run is asked for.                      *)
Read(p) ==
    /\ task[p] = "reading"
    /\ \/ serverRun[p] = "ended" /\ GoesTo(p, "done") /\ UNCHANGED <<reconnects, consoleFaults>>
       \/ ConsoleFault /\ Again(p)
    /\ UNCHANGED <<queue, outbox, outboxAvailable, activeRuns, Others, serverVars>>

(* finishActiveRun: only the run the session still shows is taken out.     *)
Released(p) ==
    activeRuns' = IF Holds(p) THEN [activeRuns EXCEPT ![ChatOf[p]] = NoRun] ELSE activeRuns

Done(p) ==
    /\ task[p] = "done" /\ Released(p)
    /\ IF Holds(p) THEN Drain(queue, [task EXCEPT ![p] = "leaving"], activeRuns', skipped)
       ELSE GoesTo(p, "leaving") /\ UNCHANGED <<queue, reconnects>>
    /\ UNCHANGED <<outbox, outboxAvailable, Others, serverVars, consoleFaults>>

(* The prompt leaves the queue, then the outbox.                           *)
Leave(p) ==
    /\ task[p] = "leaving"
    /\ Put(p, NoItem) \/ PutFails(p)
    /\ Drain([queue EXCEPT ![p] = NoItem], [task EXCEPT ![p] = "none"], activeRuns, skipped)
    /\ UNCHANGED <<activeRuns, Others, serverVars>>

(* The failure is stored if it can be.                                     *)
FailPrompt(p) ==
    /\ task[p] = "failing" /\ GoesTo(p, "quitting")
    /\ queue' = [queue EXCEPT ![p].status = "failed"]
    /\ Put(p, queue'[p]) \/ PutFails(p)
    /\ UNCHANGED <<reconnects, activeRuns, Others, serverVars>>

Quit(p) ==
    /\ task[p] = "quitting" /\ Released(p)
    /\ Drain(queue, [task EXCEPT ![p] = "none"], activeRuns', skipped)
    /\ UNCHANGED <<outbox, outboxAvailable, Others, serverVars, consoleFaults>>

PromptStep(p) ==
    Claim(p) \/ Upload(p) \/ Open(p) \/ Name(p) \/ Read(p) \/ Done(p) \/ Leave(p)
    \/ FailPrompt(p) \/ Quit(p)

-----------------------------------------------------------------------------
(* The service, and runs the page did not start itself.                    *)

EndRun(p) ==
    /\ serverRun[p] = "working" /\ serverRun' = [serverRun EXCEPT ![p] = "ended"]
    /\ UNCHANGED <<promptVars, startedWith, activeRuns, Others, consoleFaults>>

(* cancelCurrentRun: the service ends the run; the page that hears of it   *)
(* stops reading.                                                          *)
Cancel(s) ==
    \E p \in Prompts :
        /\ activeRuns[s] \in {p, -p} /\ serverRun[p] # "none"
        /\ Holds(p) => task[p] = "reading"
        /\ serverRun' = [serverRun EXCEPT ![p] = "ended"]
        /\ \/ /\ Holds(p) /\ GoesTo(p, "done") /\ NoFault
              /\ UNCHANGED <<queue, reconnects, activeRuns>>
           \/ /\ ~Holds(p) /\ NoFault
              /\ activeRuns' = [activeRuns EXCEPT ![s] = NoRun]
              /\ Drain(queue, task, activeRuns', skipped)
           \/ ConsoleFault /\ UNCHANGED <<queue, task, reconnects, activeRuns>>
        /\ UNCHANGED <<outbox, outboxAvailable, startedWith, Others>>

(* A run that is followed without a prompt ends, or its stream is given up. *)
Unfollow(s) ==
    \E p \in Prompts :
        /\ activeRuns[s] = -p
        /\ \/ serverRun[p] = "ended" /\ NoFault
           \/ serverRun[p] = "working" /\ ConsoleFault
        /\ activeRuns' = [activeRuns EXCEPT ![s] = NoRun]
        /\ Drain(queue, task, activeRuns', skipped)
        /\ UNCHANGED <<outbox, outboxAvailable, Others, serverVars>>

WorkingIn(s) == {p \in Prompts : ChatOf[p] = s /\ serverRun[p] = "working"}

(* attachExistingRun.                                                      *)
Follows(runs, p) ==
    IF runs[ChatOf[p]] = NoRun THEN [runs EXCEPT ![ChatOf[p]] = -p] ELSE runs

(* selectSession, as far as runs go: one at work is followed, and its      *)
(* session is not left out any longer.                                     *)
OpenChat(s) ==
    /\ page = "healthy" /\ activeRuns[s] = NoRun
    /\ \E p \in WorkingIn(s) : activeRuns' = Follows(activeRuns, p)
    /\ skipped' = skipped \ {s}
    /\ UNCHANGED <<promptVars, candidates, page, serverVars, history, consoleFaults, reloads>>

-----------------------------------------------------------------------------
(* The page.                                                               *)

(* A reload: what was in memory is gone.                                   *)
Reload ==
    /\ page # "loading" /\ reloads < MaxReloads /\ reloads' = reloads + 1
    /\ queue' = [p \in Prompts |-> NoItem] /\ task' = [p \in Prompts |-> "none"]
    /\ reconnects' = [p \in Prompts |-> 0] /\ outboxAvailable' = TRUE
    /\ activeRuns' = [s \in Chats |-> NoRun] /\ skipped' = {} /\ candidates' = {}
    /\ page' = "loading"
    /\ UNCHANGED <<outbox, serverVars, history, consoleFaults>>

(* Bug: the prompts come back as they were stored.                         *)
LoadOutboxAsStored ==
    /\ page = "loading" /\ page' = "offline" /\ queue' = outbox
    /\ UNCHANGED <<outbox, outboxAvailable, task, reconnects, activeRuns, skipped, candidates,
                   serverVars, history, consoleFaults, reloads>>

(* loadPromptOutbox: what was being sent waits to be sent again.           *)
LoadOutbox ==
    LET saved == [p \in Prompts |-> IF outbox[p].status = "sending"
                                    THEN [outbox[p] EXCEPT !.status = "pending"]
                                    ELSE outbox[p]] IN
    /\ page = "loading" /\ page' = "offline"
    /\ \/ queue' = saved /\ outbox' = saved /\ UNCHANGED <<outboxAvailable, consoleFaults>>
       \/ ConsoleFault /\ outboxAvailable' = FALSE /\ UNCHANGED <<queue, outbox>>
    /\ UNCHANGED <<task, reconnects, activeRuns, skipped, candidates, serverVars, history, reloads>>

(* refreshBackend finds the service: loadApplicationState offers the runs  *)
(* at work, and the queue waits for the choice.                            *)
Online ==
    /\ page = "offline" /\ page' = "healthy"
    /\ candidates' = {p \in Prompts : serverRun[p] = "working"}
    /\ IF candidates' # {} THEN UNCHANGED <<queue, task, reconnects>>
       ELSE DrainedBy(queue, task, Launchable(queue, activeRuns, skipped))
    /\ UNCHANGED <<outbox, outboxAvailable, activeRuns, skipped, serverVars, history,
                   consoleFaults, reloads>>

(* restoreWorkspaceRun: sessions whose run is not chosen are left out.     *)
Choose ==
    /\ candidates # {} /\ candidates' = {}
    /\ \E chosen \in SUBSET candidates :
          /\ activeRuns' = [s \in Chats |->
                LET mine == {p \in chosen : ChatOf[p] = s} IN
                IF activeRuns[s] # NoRun \/ mine = {} THEN activeRuns[s]
                ELSE -(CHOOSE p \in mine : \A q \in mine : q <= p)]
          /\ skipped' = skipped \cup ({ChatOf[p] : p \in candidates} \ {ChatOf[p] : p \in chosen})
    /\ Drain(queue, task, activeRuns', skipped')
    /\ UNCHANGED <<outbox, outboxAvailable, page, serverVars, history, consoleFaults, reloads>>

(* refreshBackend loses the service: resetWorkspace forgets the runs, the  *)
(* tasks go on.  While the dialog is open nobody looks.                    *)
Offline ==
    /\ page = "healthy" /\ candidates = {} /\ page' = "offline"
    /\ reloads < MaxReloads /\ reloads' = reloads + 1
    /\ activeRuns' = [s \in Chats |-> NoRun] /\ skipped' = {}
    /\ UNCHANGED <<promptVars, candidates, serverVars, history, consoleFaults>>

ConsoleNext ==
    \/ \E p \in Prompts : Enqueue(p) \/ RemovePrompt(p) \/ RetryPrompt(p) \/ PromptStep(p) \/ EndRun(p)
    \/ \E s \in Chats : Cancel(s) \/ Unfollow(s) \/ OpenChat(s)
    \/ Reload \/ LoadOutbox \/ Online \/ Choose \/ Offline

(* The page and the service go on, a run ends, and the user who is asked   *)
(* which runs to follow answers.                                           *)
ConsoleGoesOn ==
    \/ \E p \in Prompts : PromptStep(p) \/ EndRun(p)
    \/ \E s \in Chats : Unfollow(s)
    \/ LoadOutbox \/ Online \/ Choose

ConsoleFairness == WF_consoleVars(ConsoleGoesOn)

ConsoleSpec == ConsoleInit /\ [][ConsoleNext]_consoleVars /\ ConsoleFairness

-----------------------------------------------------------------------------
Items == [status : {"none", "pending", "sending", "failed"}, named : BOOLEAN,
          files : BOOLEAN, key : 0..1]

(* The type invariant: a task has a prompt that is being sent.             *)
ConsoleTypeOK ==
    /\ outbox \in [Prompts -> Items] /\ queue \in [Prompts -> Items]
    /\ outboxAvailable \in BOOLEAN
    /\ task \in [Prompts -> {"none", "claimed", "uploading", "opening", "naming", "reading",
                             "done", "leaving", "failing", "quitting"}]
    /\ \A p \in Prompts : task[p] \notin {"none", "quitting"} => queue[p].status = "sending"
    /\ reconnects \in [Prompts -> 0..MaxReconnects]
    /\ activeRuns \in [Chats -> -MaxPrompts..MaxPrompts] /\ skipped \subseteq Chats
    /\ candidates \subseteq Prompts /\ page \in {"loading", "offline", "healthy"}
    /\ serverRun \in [Prompts -> {"none", "working", "ended"}]
    /\ history \in [Prompts -> {"none", "accepted", "refused", "removed"}]
    /\ consoleFaults \in 0..MaxConsoleFaults /\ reloads \in 0..MaxReloads

(* A prompt the console accepted is started once, and it is in the outbox  *)
(* until its run has ended, whatever was reloaded, lost or sent again, or  *)
(* its user has removed it.                                                *)
PromptKept ==
    \A p \in Prompts :
        /\ Cardinality(startedWith[p]) <= 1
        /\ history[p] = "accepted" /\ ChatOf[p] \notin MemoryOnly /\ outbox[p] = NoItem
              => serverRun[p] = "ended"

(* A prompt in the queue waits for its answer, unless its session is one   *)
(* the user chose to leave out.                                            *)
PromptWaits ==
    \E p \in Prompts : queue[p].status \in {"pending", "sending"} /\ ChatOf[p] \notin skipped
=============================================================================
