---------------------------- MODULE RunLifecycle ----------------------------
(***************************************************************************)
(* What a client of the API may rely on: the durable status of a run and   *)
(* its durable event log, without the goroutines, locks and flags that     *)
(* produce them.  A run is created once, moves among its open statuses,    *)
(* ends once, and its log is closed once, by the event that names the      *)
(* status.  RunService implements this specification.                      *)
(***************************************************************************)
EXTENDS Naturals, Sequences

CONSTANT Runs

VARIABLES status, log

view == <<status, log>>

Ended == {"completed", "failed", "canceled"}

\* How an open status may change.  From "paused" a run can slip into
\* "waiting_approval" when it is paused as its engine asks for an approval.
Moves == [queued           |-> {"running", "paused"},
          running          |-> {"paused", "waiting_approval"},
          waiting_approval |-> {"running"},
          paused           |-> {"running", "waiting_approval"}]

HasEnded(r)   == status[r] \in Ended
LogClosed(r)  == log[r] # <<>> /\ log[r][Len(log[r])] \in Ended

Init ==
    /\ status = [r \in Runs |-> "none"]
    /\ log = [r \in Runs |-> <<>>]

Create(r) ==
    /\ status[r] = "none"
    /\ status' = [status EXCEPT ![r] = "queued"]
    /\ UNCHANGED log

Move(r) ==
    /\ status[r] \in DOMAIN Moves
    /\ \E st \in Moves[status[r]] : status' = [status EXCEPT ![r] = st]
    /\ UNCHANGED log

End(r) ==
    /\ status[r] \in DOMAIN Moves
    /\ \E st \in Ended : status' = [status EXCEPT ![r] = st]
    /\ UNCHANGED log

\* A reader may meet the status of an ended run before the last progress.
Report(r) ==
    /\ status[r] # "none"
    /\ ~LogClosed(r)
    /\ log' = [log EXCEPT ![r] = Append(@, "progress")]
    /\ UNCHANGED status

CloseLog(r) ==
    /\ HasEnded(r)
    /\ ~LogClosed(r)
    /\ log' = [log EXCEPT ![r] = Append(@, status[r])]
    /\ UNCHANGED status

\* A restart fails every open run, and closes open logs of ended runs.
Restart ==
    /\ status' = [r \in Runs |-> IF status[r] \in DOMAIN Moves THEN "failed" ELSE status[r]]
    /\ \E closing \in SUBSET {r \in Runs : status'[r] \in Ended /\ ~LogClosed(r)} :
         log' = [r \in Runs |-> IF r \in closing THEN Append(log[r], status'[r]) ELSE log[r]]

Next ==
    \/ \E r \in Runs : Create(r) \/ Move(r) \/ End(r) \/ Report(r) \/ CloseLog(r)
    \/ Restart

Spec == Init /\ [][Next]_view
=============================================================================
