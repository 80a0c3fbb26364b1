------------------------------ MODULE Commands ------------------------------
(* The tools that run a command: shell_exec as a group of processes beside *)
(* the service, ssh_exec on another machine, and ssh_wait, which repeats a *)
(* check there until it held a number of times in a row.  One call at a    *)
(* time, which its timeout or a cancel may end at any moment, over a       *)
(* connection that may fall silent or break.                               *)
EXTENDS Integers, Sequences

CONSTANTS
    MaxAttempts,     \* connections that a profile allows, at most three
    StableChecks,    \* checks in a row that must match
    MaxPolls,        \* bound: checks of one ssh_wait
    MaxCommandFaults \* bound: faults during one call

VARIABLES
    toolCall,    \* the call: its tool, where it is, its counters, its answer
    runCtx,     \* the context with timeout_seconds
    checkCtx,   \* the context of one check of ssh_wait, a child of runCtx
    connection,       \* the connection to the other machine
    process,    \* what the call started, there or here
    started,    \* history: how often the call started something
    looks       \* history: how each check really ended

commandVars == <<toolCall, runCtx, checkCtx, connection, process, started, looks>>

ASSUME CommandAssumption ==
    /\ MaxAttempts \in 1..3 /\ StableChecks \in Nat \ {0}
    /\ MaxPolls \in Nat /\ MaxCommandFaults \in Nat

-----------------------------------------------------------------------------
Unstarted == [at |-> "none", code |-> -1, told |-> FALSE, job |-> "none"]

CommandInit ==
    /\ toolCall = [tool |-> "none", at |-> "idle", expected |-> 0, attempt |-> 0, matching |-> 0,
                  polls |-> 0, faults |-> 0, pending |-> FALSE, reply |-> "none"]
    /\ runCtx = "live" /\ checkCtx = "live" /\ connection = "none"
    /\ process = Unstarted /\ started = 0 /\ looks = <<>>

CommandTypeOK ==
    /\ toolCall.at \in {"idle", "dial", "backoff", "session", "run", "interval", "start", "reap"}
    /\ toolCall.attempt \in 0..MaxAttempts /\ toolCall.polls \in 0..MaxPolls + 1
    /\ toolCall.matching \in 0..StableChecks /\ toolCall.faults \in 0..MaxCommandFaults
    /\ toolCall.reply \in {"none", "ok", "failure", "timeout", "canceled"}
    /\ {runCtx, checkCtx} \subseteq {"live", "expired", "canceled"}
    /\ connection \in {"none", "up", "silent", "down"}
    /\ process.at \in {"none", "sending", "running", "exited"} /\ process.code \in -1..1
    /\ process.job \in {"none", "piped", "quiet", "escaped"}

Steps(at) == toolCall' = [toolCall EXCEPT !.at = at]
Fault == toolCall.faults < MaxCommandFaults
StepsByFault(at) == Fault /\ toolCall' = [toolCall EXCEPT !.at = at, !.faults = @ + 1]

(* Bug: a shell that ended by itself is not looked after.                  *)
NotCleared(p) == p

(* The call is over, and with it its connection; deferred, the group of a  *)
(* shell is killed once more.  A request on its way may still arrive.      *)
Cleared(p) == IF toolCall.tool = "shell" /\ p.job \in {"piped", "quiet"}
              THEN [p EXCEPT !.job = "none"] ELSE p

CallReplies(r) ==
    /\ toolCall' = [toolCall EXCEPT !.at = "idle", !.reply = r]
    /\ process' = Cleared(process) /\ connection' = "none"
    /\ UNCHANGED <<runCtx, checkCtx, started>>

-----------------------------------------------------------------------------
(* A call is made, with an exit code expected where it is a check; a bad   *)
(* argument or an unknown profile is refused at once.                      *)
Asked(t, e) ==
    /\ toolCall.at = "idle"
    /\ toolCall' = [tool |-> t, at |-> IF t = "shell" THEN "start" ELSE "dial", expected |-> e,
                   attempt |-> 1, matching |-> 0, polls |-> 0, faults |-> 0,
                   pending |-> FALSE, reply |-> "none"]
    /\ runCtx' = "live" /\ checkCtx' = "live" /\ connection' = "none"
    /\ process' = Unstarted /\ started' = 0 /\ looks' = <<>>

Refused ==
    /\ toolCall.at = "dial" /\ toolCall.attempt = 1 /\ toolCall.polls = 0 /\ StepsByFault("idle")
    /\ UNCHANGED <<runCtx, checkCtx, connection, process, started, looks>>

(* The timeout of the call and a cancel of the run end both contexts.      *)
CallEnds(how) ==
    /\ toolCall.at # "idle" /\ runCtx = "live"
    /\ runCtx' = how
    /\ checkCtx' = IF checkCtx = "live" THEN how ELSE checkCtx
    /\ UNCHANGED <<toolCall, connection, process, started, looks>>

CheckExpires ==
    /\ toolCall.tool = "wait" /\ toolCall.at \in {"dial", "backoff", "session", "run"}
    /\ checkCtx = "live" /\ checkCtx' = "expired"
    /\ UNCHANGED <<toolCall, runCtx, connection, process, started, looks>>

Ctx == IF toolCall.tool = "wait" THEN checkCtx ELSE runCtx

-----------------------------------------------------------------------------
(* Bug: the code alone is compared, and every error has the code -1.       *)
MatchesCode(err, code) == code = toolCall.expected

(* What one execution there came to: "none" is an exit with 0, "exit" one  *)
(* with another code, and every other error has the code -1.  ssh_exec     *)
(* answers with it.  ssh_wait counts it, and begins again after a while.   *)
Matches(err, code) == err \in {"none", "exit"} /\ code = toolCall.expected

(* Bug: a check that failed in between does not matter.                    *)
CountedInAll(err, code) == IF Matches(err, code) THEN toolCall.matching + 1 ELSE toolCall.matching

Counted(err, code) == IF Matches(err, code) THEN toolCall.matching + 1 ELSE 0

Really == IF process.at = "exited" THEN process.code ELSE -1

Result(err, code) ==
    IF toolCall.tool = "ssh"
    THEN /\ UNCHANGED looks
         /\ CallReplies(IF err = "none" THEN "ok"
                    ELSE IF err = "ended" /\ Ctx = "canceled" THEN "canceled" ELSE "failure")
    ELSE /\ looks' = Append(looks, Really)
         /\ IF Counted(err, code) >= StableChecks
            THEN CallReplies("ok")
            ELSE /\ toolCall' = [toolCall EXCEPT !.at = "interval", !.polls = @ + 1,
                                               !.matching = Counted(err, code)]
                 /\ connection' = "none" /\ UNCHANGED <<runCtx, checkCtx, process, started>>

(* Connecting is tried again, never more than that.                        *)
NotConnected ==
    IF Ctx = "canceled" THEN CallReplies("canceled") /\ UNCHANGED looks ELSE Result("connect", -1)

(* Connecting needs a credential and a host key that fits, each time.      *)
Rejected == Fault

Connects ==
    /\ toolCall.at = "dial" /\ Ctx = "live"
    /\ Steps("session") /\ connection' = "up"
    /\ UNCHANGED <<runCtx, checkCtx, process, started, looks>>

ConnectFails ==
    /\ toolCall.at = "dial" /\ (Rejected \/ Ctx # "live")
    /\ IF toolCall.attempt = MaxAttempts
       THEN NotConnected
       ELSE /\ toolCall' = [toolCall EXCEPT !.at = "backoff", !.attempt = @ + 1,
                                          !.faults = IF Ctx = "live" THEN @ + 1 ELSE @]
            /\ UNCHANGED <<runCtx, checkCtx, connection, process, started, looks>>

BacksOff ==
    /\ toolCall.at = "backoff"
    /\ \/ Steps("dial") /\ UNCHANGED <<runCtx, checkCtx, connection, process, started, looks>>
       \/ Ctx # "live" /\ NotConnected

(* NewSession waits for the other side, whatever the context says.         *)
OpensSession ==
    /\ toolCall.at = "session"
    /\ \/ /\ connection = "up" /\ Steps("run")
          /\ process' = [Unstarted EXCEPT !.at = "sending"]
          /\ UNCHANGED <<runCtx, checkCtx, connection, started, looks>>
       \/ connection = "down" /\ Result("session", -1)

-----------------------------------------------------------------------------
(* The other side: the request arrives, perhaps after nobody waits any     *)
(* more, the command ends, and its exit code comes back.  The connection   *)
(* may fall silent and recover, or break.                                  *)
Begins ==
    /\ process.at = "sending" /\ connection \in {"up", "none"}
    /\ process' = [process EXCEPT !.at = "running"] /\ started' = started + 1
    /\ UNCHANGED <<toolCall, runCtx, checkCtx, connection, looks>>

Exits(code) ==
    /\ process.at = "running" /\ toolCall.tool # "shell"
    /\ process' = [process EXCEPT !.at = "exited", !.code = code]
    /\ UNCHANGED <<toolCall, runCtx, checkCtx, connection, started, looks>>

ExitArrives ==
    /\ toolCall.at = "run" /\ toolCall.tool # "shell" /\ process.at = "exited" /\ connection = "up"
    /\ ~process.told /\ process' = [process EXCEPT !.told = TRUE]
    /\ UNCHANGED <<toolCall, runCtx, checkCtx, connection, started, looks>>

LinkChanges ==
    /\ \/ connection = "up" /\ Fault /\ connection' \in {"silent", "down"}
          /\ toolCall' = [toolCall EXCEPT !.faults = @ + 1]
       \/ connection = "silent" /\ connection' \in {"up", "down"} /\ UNCHANGED toolCall
    /\ UNCHANGED <<runCtx, checkCtx, process, started, looks>>

(* While the command runs: its end, the end of the context, or the end of  *)
(* the connection, which the keepalive or the session itself reports.      *)
RemoteDone ==
    /\ toolCall.at = "run" /\ toolCall.tool # "shell" /\ process.told
    /\ Result(IF process.code = 0 THEN "none" ELSE "exit", process.code)

RemoteEnded == toolCall.at = "run" /\ toolCall.tool # "shell" /\ Ctx # "live" /\ Result("ended", -1)

(* Bug: a command whose connection broke is tried again.                   *)
LostAndRepeated ==
    /\ toolCall.at = "run" /\ connection = "down" /\ Steps("dial") /\ connection' = "none"
    /\ process' = Unstarted /\ UNCHANGED <<runCtx, checkCtx, started, looks>>

ConnectionLost == toolCall.at = "run" /\ connection = "down" /\ Result("lost", -1)

(* ssh_wait between two checks.                                            *)
PollsAgain ==
    /\ toolCall.at = "interval"
    /\ \/ runCtx # "live" /\ CallReplies("timeout") /\ UNCHANGED looks
       \/ /\ runCtx = "live" /\ toolCall.polls < MaxPolls
          /\ toolCall' = [toolCall EXCEPT !.at = "dial", !.attempt = 1]
          /\ checkCtx' = "live" /\ process' = Unstarted
          /\ UNCHANGED <<runCtx, connection, started, looks>>

-----------------------------------------------------------------------------
(* A shell, in a group of its own.  It may leave a job behind, in the      *)
(* group with or without the output, or outside of the group.              *)
ShellStarts ==
    /\ toolCall.at = "start"
    /\ \/ /\ runCtx = "live" /\ Steps("run")
          /\ \E j \in {"none", "piped", "quiet", "escaped"} :
                process' = [Unstarted EXCEPT !.at = "running", !.job = j]
          /\ started' = started + 1 /\ UNCHANGED <<runCtx, checkCtx, connection, looks>>
       \/ runCtx # "live" /\ CallReplies("canceled") /\ UNCHANGED looks
       \/ Fault /\ CallReplies("failure") /\ UNCHANGED looks

ShellExits(code) ==
    /\ toolCall.tool = "shell" /\ process.at = "running"
    /\ process' = [process EXCEPT !.at = "exited", !.code = code]
    /\ UNCHANGED <<toolCall, runCtx, checkCtx, connection, started, looks>>

(* Wait returns when the shell is gone and nobody holds its output, or     *)
(* two seconds later, and that is an error.                                *)
Waited == process.at = "exited"
OutputHeld == process.job \in {"piped", "escaped"}

ShellDone ==
    /\ toolCall.at = "run" /\ toolCall.tool = "shell" /\ Waited /\ UNCHANGED looks
    /\ CallReplies(IF process.code = 0 /\ ~OutputHeld THEN "ok"
               ELSE IF runCtx = "canceled" THEN "canceled" ELSE "failure")

(* When the time is up the group is killed, or, where that fails, the      *)
(* shell alone; then three seconds for what is left.                       *)
ShellKilled ==
    /\ toolCall.at = "run" /\ toolCall.tool = "shell" /\ runCtx # "live"
    /\ LET dead == [process EXCEPT !.at = "exited"] IN
       \/ Steps("reap") /\ process' = Cleared(dead)
       \/ StepsByFault("reap") /\ process' = dead
    /\ UNCHANGED <<runCtx, checkCtx, connection, started, looks>>

ShellReaped ==
    /\ toolCall.at = "reap" /\ UNCHANGED <<runCtx, checkCtx, connection, started, looks>>
    /\ (process' = Cleared(process) \/ (toolCall.faults > 0 /\ process' = process))
    /\ \E late \in BOOLEAN :
          /\ late \/ Waited
          /\ toolCall' = [toolCall EXCEPT !.at = "idle", !.pending = late,
                           !.reply = IF runCtx = "canceled" THEN "canceled" ELSE "failure"]

-----------------------------------------------------------------------------
CommandStep ==
    \/ Connects \/ ConnectFails \/ BacksOff \/ OpensSession
    \/ RemoteDone \/ RemoteEnded \/ ConnectionLost \/ PollsAgain
    \/ ShellStarts \/ ShellDone \/ ShellKilled \/ ShellReaped

CommandNext ==
    \/ \E t \in {"shell", "ssh"} : Asked(t, 0)
    \/ \E e \in {-1, 0} : Asked("wait", e)
    \/ Refused
    \/ \E how \in {"expired", "canceled"} : CallEnds(how)
    \/ CheckExpires
    \/ CommandStep
    \/ Begins \/ ExitArrives \/ LinkChanges
    \/ \E code \in 0..1 : Exits(code) \/ ShellExits(code)

-----------------------------------------------------------------------------
(* A command is never sent twice by a call of ssh_exec or shell_exec, for  *)
(* what it does would be done twice.  Success is what really happened: the *)
(* command ended with 0, or the last checks of ssh_wait, as many as asked  *)
(* for, really ended with the expected code, and no error counted as one.  *)
(* A shell that was answered for leaves nothing of its group behind, save  *)
(* where it could not be killed.                                           *)
SentOnce == toolCall.tool # "wait" => started <= 1

SuccessIsTrue ==
    toolCall.reply = "ok" =>
        IF toolCall.tool = "wait"
        THEN /\ Len(looks) >= StableChecks
             /\ \A n \in Len(looks) - StableChecks + 1..Len(looks) :
                    looks[n] = toolCall.expected /\ looks[n] # -1
        ELSE process.at = "exited" /\ process.code = 0

GroupIsGone ==
    toolCall.tool = "shell" /\ toolCall.reply # "none" /\ toolCall.faults = 0 =>
        process.job \in {"none", "escaped"}

CommandsHold == SentOnce /\ SuccessIsTrue /\ GroupIsGone

(* Whoever called waits, but for a session that the other side does not    *)
(* open: that wait has no end of its own.                                  *)
CommandWaits == toolCall.at # "idle" /\ ~(toolCall.at = "session" /\ connection = "silent")
=============================================================================
