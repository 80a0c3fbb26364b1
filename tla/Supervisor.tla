------------------------------ MODULE Supervisor ------------------------------
(***************************************************************************)
(* The desktop shell and the backend process it owns                       *)
(* (desktop/supervisor/supervisor.go, cmd/desktop/main.go).  Requests of   *)
(* the console, the start at launch and the stop at the end work on one    *)
(* Supervisor at the same time; each looks at command under the mutex and  *)
(* acts on the process without it.  A backend of this program watches its  *)
(* parent and ends when the desktop is gone.                               *)
(*                                                                         *)
(* A desktop that ends is followed by another one with a fresh Supervisor. *)
(* The logs and the other pages of the shell are left out.                 *)
(***************************************************************************)
EXTENDS Naturals, FiniteSets

CONSTANTS
    Controls,       \* callers of Start, Stop and Restart
    Main,           \* the one that stops the backend when the window is closed
    MaxChildren,    \* bound: processes started
    MaxCalls,       \* bound: calls of the controls, Main's apart
    MaxDesktops,    \* bound: desktops, one after the other
    MaxShellFaults  \* bound: failed starts, health checks, crashes

ASSUME ShellBounds ==
    /\ {MaxChildren, MaxCalls, MaxShellFaults} \subseteq Nat /\ MaxDesktops \in Nat \ {0}
    /\ Main \notin Controls

VARIABLES
    desktop,    \* the desktop: its number and whether it is up
    command,    \* Supervisor.command: the process, or 0
    starting,   \* Supervisor.starting
    control,    \* what each caller does, the process it holds, and its answer
    child,      \* the processes
    parent,     \* the desktop that started each
    waited,     \* how far Supervisor.wait is with each
    stranger,   \* a backend that somebody else started has the port
    calls, shellFaults

shellVars == <<desktop, command, starting, control, child, parent, waited, stranger, calls,
               shellFaults>>

Processes == 1..MaxChildren
Rests     == [op |-> "none", at |-> "rest", seen |-> 0, answer |-> "none"]

ShellInit ==
    /\ desktop = [id |-> 1, is |-> "up"] /\ command = 0 /\ starting = FALSE
    /\ control = [k \in Controls \cup {Main} |-> Rests]
    /\ child = [c \in Processes |-> "none"] /\ parent = [c \in Processes |-> 0]
    /\ waited = [c \in Processes |-> "no"]
    /\ stranger \in BOOLEAN /\ calls = 0 /\ shellFaults = 0

-----------------------------------------------------------------------------
ShellFault == shellFaults < MaxShellFaults /\ shellFaults' = shellFaults + 1

Served == stranger \/ \E c \in Processes : child[c] = "serving"

Healthy == Served /\ UNCHANGED shellFaults

(* The check has two seconds: no answer is taken for no backend.           *)
Unhealthy == IF Served THEN ShellFault ELSE UNCHANGED shellFaults

Goes(k, place) == control' = [control EXCEPT ![k].at = place]

Answers(k, a) == control' = [control EXCEPT ![k].at = "rest", ![k].answer = a]

Call(k, op) ==
    /\ desktop.is = "up" /\ control[k].at = "rest" /\ calls < MaxCalls /\ calls' = calls + 1
    /\ control' = [control EXCEPT ![k] =
         [Rests EXCEPT !.op = op, !.at = IF op = "start" THEN "ask" ELSE "stop"]]
    /\ UNCHANGED <<desktop, command, starting, child, parent, waited, stranger, shellFaults>>

(* Start.                                                                  *)
AskHealth(k) ==
    /\ control[k].at = "ask"
    /\ \/ Healthy /\ Answers(k, "ok")
       \/ Unhealthy /\ Goes(k, "look")
    /\ UNCHANGED <<desktop, command, starting, child, parent, waited, stranger, calls>>

(* Bug: a start that is on its way is not seen.                            *)
LookAtCommandOnly(k) ==
    /\ control[k].at = "look"
    /\ IF command # 0
       THEN Answers(k, "ok") /\ UNCHANGED starting
       ELSE Goes(k, "spawn") /\ starting' = TRUE
    /\ UNCHANGED <<desktop, command, child, parent, waited, stranger, calls, shellFaults>>

Look(k) ==
    /\ control[k].at = "look"
    /\ IF command # 0 \/ starting
       THEN Answers(k, "ok") /\ UNCHANGED starting
       ELSE Goes(k, "spawn") /\ starting' = TRUE
    /\ UNCHANGED <<desktop, command, child, parent, waited, stranger, calls, shellFaults>>

Spawn(k) ==
    /\ control[k].at = "spawn"
    /\ \/ \E c \in Processes :
            /\ child[c] = "none" /\ \A d \in Processes : d < c => child[d] # "none"
            /\ child' = [child EXCEPT ![c] = "born"]
            /\ parent' = [parent EXCEPT ![c] = desktop.id]
            /\ control' = [control EXCEPT ![k].at = "publish", ![k].seen = c]
            /\ UNCHANGED <<starting, shellFaults>>
       \/ ShellFault /\ Answers(k, "error") /\ starting' = FALSE /\ UNCHANGED <<child, parent>>
    /\ UNCHANGED <<desktop, command, waited, stranger, calls>>

Publish(k) ==
    /\ control[k].at = "publish" /\ Goes(k, "poll")
    /\ command' = control[k].seen /\ starting' = FALSE
    /\ waited' = [waited EXCEPT ![control[k].seen] = "waits"]
    /\ UNCHANGED <<desktop, child, parent, stranger, calls, shellFaults>>

(* It is healthy, it has ended, or there is no time left; then the process *)
(* stays.                                                                  *)
Poll(k) ==
    /\ control[k].at = "poll"
    /\ \/ Healthy /\ Answers(k, "ok")
       \/ UNCHANGED shellFaults /\ Answers(k, "error")
    /\ UNCHANGED <<desktop, command, starting, child, parent, waited, stranger, calls>>

-----------------------------------------------------------------------------
(* Stop.  Without a command there is nothing to stop: not even a process   *)
(* that is being started.                                                  *)
AfterStop(k) == IF control[k].op = "restart" THEN Goes(k, "again") ELSE Answers(k, "ok")

(* An interrupt ends a process that does not listen for it yet.  Windows   *)
(* has none to send.                                                       *)
OnInterrupt(s) == IF s = "born" THEN "gone" ELSE IF s = "serving" THEN "closing" ELSE s

LookToStop(k) ==
    /\ control[k].at = "stop"
    /\ IF command = 0
       THEN /\ \/ Healthy /\ (IF control[k].op = "restart" THEN Goes(k, "again")
                              ELSE Answers(k, "external"))
               \/ Unhealthy /\ AfterStop(k)
            /\ UNCHANGED child
       ELSE /\ control' = [control EXCEPT ![k].at = "await", ![k].seen = command]
            /\ \/ child' = [child EXCEPT ![command] = OnInterrupt(@)]
               \/ UNCHANGED child
            /\ UNCHANGED shellFaults
    /\ UNCHANGED <<desktop, command, starting, parent, waited, stranger, calls>>

(* wait has closed done.                                                   *)
Ended(k) ==
    /\ control[k].at \in {"await", "killed"} /\ waited[control[k].seen] \in {"told", "cleared"}
    /\ AfterStop(k)
    /\ UNCHANGED <<desktop, command, starting, child, parent, waited, stranger, calls,
                   shellFaults>>

(* Bug: a process that was killed is not waited for.                       *)
KillAndReturn(k) ==
    /\ control[k].at = "await"
    /\ \/ Answers(k, "error") /\ UNCHANGED child
       \/ AfterStop(k) /\ UNCHANGED child
    /\ UNCHANGED <<desktop, command, starting, parent, waited, stranger, calls, shellFaults>>

(* The caller gives up, or the timer fires and the process is killed.      *)
OutOfTime(k) ==
    /\ control[k].at = "await"
    /\ \/ Answers(k, "error") /\ UNCHANGED child
       \/ Goes(k, "killed") /\ child' = [child EXCEPT ![control[k].seen] = "gone"]
    /\ UNCHANGED <<desktop, command, starting, parent, waited, stranger, calls, shellFaults>>

(* Restart asks once more whether somebody serves before it starts.        *)
StartAgain(k) ==
    /\ control[k].at = "again"
    /\ \/ Healthy /\ Answers(k, "external")
       \/ Unhealthy /\ Goes(k, "ask")
    /\ UNCHANGED <<desktop, command, starting, child, parent, waited, stranger, calls>>

(* Supervisor.wait.                                                        *)
Tell(c) ==
    /\ waited[c] = "waits" /\ child[c] = "gone" /\ waited' = [waited EXCEPT ![c] = "told"]
    /\ UNCHANGED <<desktop, command, starting, control, child, parent, stranger, calls,
                   shellFaults>>

Clear(c) ==
    /\ waited[c] = "told" /\ waited' = [waited EXCEPT ![c] = "cleared"]
    /\ command' = IF command = c THEN 0 ELSE command
    /\ UNCHANGED <<desktop, starting, control, child, parent, stranger, calls, shellFaults>>

-----------------------------------------------------------------------------
(* The process: runBackendChild.                                           *)
Orphan(c) == desktop.id # parent[c] \/ desktop.is = "gone"

(* One listens on the port; for another one that is fatal.                 *)
Listen(c) ==
    /\ child[c] = "born"
    /\ child' = [child EXCEPT ![c] = IF Orphan(c) \/ Served THEN "gone" ELSE "serving"]
    /\ UNCHANGED <<desktop, command, starting, control, parent, waited, stranger, calls,
                   shellFaults>>

(* Bug: the parent is looked at when the process starts, and not again.    *)
WatchNever(c) ==
    /\ child[c] = "serving" /\ Orphan(c) /\ UNCHANGED shellVars

WatchParent(c) ==
    /\ child[c] = "serving" /\ Orphan(c) /\ child' = [child EXCEPT ![c] = "closing"]
    /\ UNCHANGED <<desktop, command, starting, control, parent, waited, stranger, calls,
                   shellFaults>>

CloseDown(c) ==
    /\ child[c] = "closing" /\ child' = [child EXCEPT ![c] = "gone"]
    /\ UNCHANGED <<desktop, command, starting, control, parent, waited, stranger, calls,
                   shellFaults>>

ProcessCrash(c) ==
    /\ ShellFault /\ child[c] \in {"born", "serving", "closing"}
    /\ child' = [child EXCEPT ![c] = "gone"]
    /\ UNCHANGED <<desktop, command, starting, control, parent, waited, stranger, calls>>

StrangerLeaves ==
    /\ stranger /\ stranger' = FALSE
    /\ UNCHANGED <<desktop, command, starting, control, child, parent, waited, calls,
                   shellFaults>>

-----------------------------------------------------------------------------
(* The window is closed: no requests any more, but a start that is under   *)
(* way goes on beside the last Stop.                                       *)
CloseWindow ==
    /\ desktop.is = "up" /\ desktop' = [desktop EXCEPT !.is = "leaving"]
    /\ control' = [control EXCEPT ![Main] = [Rests EXCEPT !.op = "stop", !.at = "stop"]]
    /\ UNCHANGED <<command, starting, child, parent, waited, stranger, calls, shellFaults>>

(* The desktop ends, or crashes, and everything of its process with it.    *)
EndDesktop ==
    /\ \/ desktop.is = "leaving" /\ control[Main].at = "rest" /\ UNCHANGED shellFaults
       \/ desktop.is # "gone" /\ ShellFault
    /\ desktop' = [desktop EXCEPT !.is = "gone"]
    /\ control' = [k \in Controls \cup {Main} |-> Rests] /\ starting' = FALSE
    /\ command' = 0 /\ waited' = [c \in Processes |-> "no"]
    /\ UNCHANGED <<child, parent, stranger, calls>>

OpenDesktop ==
    /\ desktop.is = "gone" /\ desktop.id < MaxDesktops
    /\ desktop' = [id |-> desktop.id + 1, is |-> "up"]
    /\ UNCHANGED <<command, starting, control, child, parent, waited, stranger, calls,
                   shellFaults>>

ShellNext ==
    \/ \E k \in Controls, op \in {"start", "stop", "restart"} : Call(k, op)
    \/ \E k \in Controls \cup {Main} :
         \/ AskHealth(k) \/ Look(k) \/ Spawn(k) \/ Publish(k) \/ Poll(k)
         \/ LookToStop(k) \/ Ended(k) \/ OutOfTime(k) \/ StartAgain(k)
    \/ \E c \in Processes :
         Tell(c) \/ Clear(c) \/ Listen(c) \/ WatchParent(c) \/ CloseDown(c) \/ ProcessCrash(c)
    \/ StrangerLeaves \/ CloseWindow \/ EndDesktop \/ OpenDesktop

(* What the processes do by themselves.                                    *)
ShellGoesOn ==
    \E c \in Processes : Listen(c) \/ WatchParent(c) \/ CloseDown(c)

ShellSpec == ShellInit /\ [][ShellNext]_shellVars /\ WF_shellVars(ShellGoesOn)

-----------------------------------------------------------------------------
ShellTypeOK ==
    /\ desktop \in [id : 1..MaxDesktops, is : {"up", "leaving", "gone"}]
    /\ command \in 0..MaxChildren /\ starting \in BOOLEAN /\ stranger \in BOOLEAN
    /\ control \in [Controls \cup {Main} ->
         [op : {"none", "start", "stop", "restart"},
          at : {"rest", "ask", "look", "spawn", "publish", "poll", "stop", "await", "killed",
                "again"},
          seen : 0..MaxChildren, answer : {"none", "ok", "error", "external"}]]
    /\ child \in [Processes -> {"none", "born", "serving", "closing", "gone"}]
    /\ parent \in [Processes -> 0..MaxDesktops]
    /\ waited \in [Processes -> {"no", "waits", "told", "cleared"}]
    /\ calls \in 0..MaxCalls /\ shellFaults \in 0..MaxShellFaults

Alive(c) == child[c] \in {"born", "serving", "closing"}

(* A desktop has one backend at most, however starts, stops and restarts   *)
(* overlap: two would work on the same data (supervisor.go:73-101).        *)
OneBackend ==
    \A c, d \in Processes : Alive(c) /\ Alive(d) /\ parent[c] = parent[d] => c = d

(* A Stop that reports success has ended the process it found, and a       *)
(* Restart starts after that (supervisor.go:131-166).                      *)
StoppedIsGone ==
    \A k \in Controls \cup {Main} :
        LET held == control[k]
        IN  /\ held.op = "stop" /\ held.answer = "ok" /\ held.seen # 0
                 => ~Alive(held.seen)
            /\ held.op = "restart" /\ held.at \in {"again", "ask", "look", "spawn"}
                 /\ held.seen # 0 => ~Alive(held.seen)

BackendOwned == OneBackend /\ StoppedIsGone

(* A backend whose desktop is gone (main.go:320-357).                      *)
Abandoned == \E c \in Processes : Alive(c) /\ Orphan(c)
=============================================================================
