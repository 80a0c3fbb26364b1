----------------------------- MODULE EventStream -----------------------------
(***************************************************************************)
(* The events of one run on their way to a client: the service numbers     *)
(* them (application/service.go), the event repository appends them to the *)
(* run's file and repairs what a failed write left of the last line        *)
(* (adapters/filestore/event_repository.go), and a stream over HTTP or a   *)
(* WaitRun delivers them: subscribe, list what follows the last delivered  *)
(* event, look at the record, wait to be woken.  A client that lost its    *)
(* connection comes back with Last-Event-ID.                               *)
(*                                                                         *)
(* RunService has the run's own steps; here it reports events, saves its   *)
(* terminal status and then appends the terminal event.                    *)
(***************************************************************************)
EXTENDS Integers, Sequences

CONSTANTS
    MaxEvents,  \* bound: progress events of the run
    MaxStreamFaults   \* bound: writes that fail, and crashes

ASSUME EventBounds == MaxEvents \in Nat /\ MaxStreamFaults \in Nat

VARIABLES
    file,     \* the events in the file, complete lines or not
    tail,     \* what follows the last complete line
    cached,   \* RunEventRepository.sequences: the number of the last event
    known,    \* Service.eventSequences: the same, 0 when not known
    kept,     \* the events whose append succeeded, by number
    worker,   \* how far the run is with its end
    pruned,   \* the file was deleted by the storage maintenance
    client,   \* the stream: where its loop is
    listed,   \* the events it listed and has yet to deliver
    got,      \* the events the client has
    woken,    \* the subscription's channel holds a notice
    streamFaults

streamVars == <<file, tail, cached, known, kept, worker, pruned,
                client, listed, got, woken, streamFaults>>
fileVars   == <<file, tail, cached, known, kept, pruned>>
clientVars == <<client, listed, got, woken>>

Unknown == -1
EventKinds == {"progress", "terminal", "garbage"}
BeginsAs(s, t) == Len(s) <= Len(t) /\ \A i \in 1..Len(s) : s[i] = t[i]

StreamInit ==
    /\ file = <<>> /\ tail = "none" /\ cached = Unknown /\ known = 0 /\ kept = {}
    /\ worker = "working" /\ pruned = FALSE
    /\ client = [at |-> "off", heartbeat |-> FALSE] /\ listed = <<>> /\ got = <<>>
    /\ woken = FALSE /\ streamFaults = 0

Terminal == worker \in {"saved", "finished", "restarted"}

(* lastSequenceLocked: with no cached number the file is read, and what a  *)
(* failed write left at its end is repaired: half an event goes, a whole   *)
(* one without its newline gets it.                                        *)
LastSequence == IF cached = Unknown THEN Len(file) ELSE cached
TailRead == IF cached = Unknown THEN "none" ELSE tail

(* Onto an end that was not repaired an event makes no line of its own.    *)
Written(kind) == Append(file, IF TailRead = "none" THEN kind ELSE "garbage")

Subscribed == client.at \in {"subscribed", "sending", "waiting"}

Acknowledged(kind) ==
    /\ file' = Written(kind) /\ tail' = "none"
    /\ cached' = LastSequence + 1 /\ known' = LastSequence + 1
    /\ kept' = kept \cup {<<LastSequence + 1, kind>>}
    /\ woken' = (woken \/ Subscribed)
    /\ UNCHANGED <<pruned, streamFaults>>

(* Bug: the number stays cached when the write fails.                      *)
KeepsNumber(kind) ==
    /\ streamFaults < MaxStreamFaults /\ streamFaults' = streamFaults + 1
    /\ \/ tail' = TailRead /\ UNCHANGED file
       \/ tail' = "half" /\ UNCHANGED file
       \/ tail' \in {"no newline", "none"} /\ file' = Written(kind)
    /\ cached' = LastSequence
    /\ UNCHANGED <<known, kept, pruned, woken>>

(* The write or the sync fails: nothing, half the line, the line without   *)
(* its newline, or all of it is in the file, and the number is forgotten.  *)
NotAcknowledged(kind) ==
    /\ streamFaults < MaxStreamFaults /\ streamFaults' = streamFaults + 1
    /\ \/ tail' = TailRead /\ UNCHANGED file
       \/ tail' = "half" /\ UNCHANGED file
       \/ tail' \in {"no newline", "none"} /\ file' = Written(kind)
    /\ cached' = Unknown
    /\ UNCHANGED <<known, kept, pruned, woken>>

(* A number that is not the next one is a conflict; the file was read.     *)
Conflict ==
    /\ tail' = TailRead /\ cached' = LastSequence
    /\ UNCHANGED <<file, known, kept, pruned, woken, streamFaults>>

(* The event numbered after sequence is appended, or is not.               *)
Appends(kind, sequence) == sequence = LastSequence /\ Acknowledged(kind)
Fails(kind, sequence) ==
    \/ sequence = LastSequence /\ NotAcknowledged(kind)
    \/ sequence # LastSequence /\ Conflict

(* The run reports an event; one it cannot log ends it.                    *)
Report ==
    /\ worker = "working" /\ Len(file) < MaxEvents
    /\ \/ Appends("progress", known) /\ UNCHANGED worker
       \/ Fails("progress", known) /\ worker' = "ending"
    /\ UNCHANGED <<client, listed, got>>

(* saveTerminalRun comes first; a cancel saves it as well.                 *)
SaveTerminal ==
    /\ worker \in {"working", "ending"} /\ worker' = "saved"
    /\ UNCHANGED <<fileVars, clientVars, streamFaults>>

AppendTerminal ==
    /\ worker = "saved" /\ worker' = "finished"
    /\ Appends("terminal", known) \/ Fails("terminal", known)
    /\ UNCHANGED <<client, listed, got>>

(* The process dies.  Restarted, it marks the run as failed and appends    *)
(* the terminal event its log lacks before it serves anyone.               *)
StreamRestart ==
    /\ streamFaults < MaxStreamFaults /\ streamFaults' = streamFaults + 1
    /\ cached' = Unknown /\ known' = 0
    /\ worker' = "restarted"
    /\ client' = [at |-> "off", heartbeat |-> FALSE] /\ listed' = <<>> /\ woken' = FALSE
    /\ UNCHANGED <<file, tail, kept, pruned, got>>

Closed == file # <<>> /\ file[Len(file)] = "terminal"

Reconcile ==
    /\ worker = "restarted" /\ worker' = "finished"
    /\ \/ /\ Closed
          /\ tail' = "none" /\ cached' = Len(file)
          /\ UNCHANGED <<file, known, kept, pruned, woken, streamFaults>>
       \/ /\ ~Closed
          /\ Appends("terminal", Len(file)) \/ Fails("terminal", Len(file))
    /\ UNCHANGED <<client, listed, got>>

(* PruneRunEvents, for a run that ended and is no longer active.           *)
Prune ==
    /\ worker = "finished" /\ ~pruned
    /\ file' = <<>> /\ tail' = "none" /\ cached' = Unknown /\ known' = 0
    /\ kept' = {} /\ pruned' = TRUE
    /\ UNCHANGED <<worker, clientVars, streamFaults>>

(* A stream keeps itself awake with a heartbeat, WaitRun does not.         *)
Connect ==
    /\ client.at = "off" /\ worker # "restarted"
    /\ \E heartbeat \in BOOLEAN : client' = [at |-> "subscribed", heartbeat |-> heartbeat]
    /\ woken' = FALSE
    /\ UNCHANGED <<fileVars, worker, listed, got, streamFaults>>

List ==
    /\ client.at = "subscribed"
    /\ listed' = SubSeq(file, Len(got) + 1, Len(file))
    /\ tail' = "none" /\ cached' = Len(file)
    /\ client' = [client EXCEPT !.at = "sending"]
    /\ UNCHANGED <<file, known, kept, worker, pruned, got, woken, streamFaults>>

Send ==
    /\ client.at = "sending" /\ listed # <<>>
    /\ got' = Append(got, Head(listed)) /\ listed' = Tail(listed)
    /\ UNCHANGED <<fileVars, worker, client, woken, streamFaults>>

(* Bug: it subscribes only when it begins to wait.                         *)
SubscribesLate ==
    /\ client.at = "sending" /\ listed = <<>>
    /\ client' = [client EXCEPT !.at = IF Terminal THEN "closed" ELSE "waiting"]
    /\ woken' = FALSE
    /\ UNCHANGED <<fileVars, worker, listed, got, streamFaults>>

(* With everything delivered it looks at the record.                       *)
LookAtRun ==
    /\ client.at = "sending" /\ listed = <<>>
    /\ client' = [client EXCEPT !.at = IF Terminal THEN "closed" ELSE "waiting"]
    /\ UNCHANGED <<fileVars, worker, listed, got, woken, streamFaults>>

Wake ==
    /\ client.at = "waiting" /\ (woken \/ client.heartbeat)
    /\ client' = [client EXCEPT !.at = "subscribed"] /\ woken' = FALSE
    /\ UNCHANGED <<fileVars, worker, listed, got, streamFaults>>

(* The connection breaks, or the caller's context ends.                    *)
Disconnect ==
    /\ Subscribed
    /\ client' = [at |-> "off", heartbeat |-> FALSE] /\ listed' = <<>> /\ woken' = FALSE
    /\ UNCHANGED <<fileVars, worker, got, streamFaults>>

Serve == List \/ Send \/ LookAtRun \/ Wake

StreamNext ==
    \/ Report \/ SaveTerminal \/ AppendTerminal \/ StreamRestart \/ Reconcile \/ Prune
    \/ Connect \/ Serve \/ Disconnect

(* The server's loops go on; a run that reached its end appends its event. *)
StreamGoesOn == Serve \/ AppendTerminal
StreamFairness == WF_streamVars(StreamGoesOn)

StreamSpec == StreamInit /\ [][StreamNext]_streamVars /\ StreamFairness

StreamTypeOK ==
    /\ file \in Seq(EventKinds) /\ kept \subseteq (Nat \X EventKinds)
    /\ got \in Seq(EventKinds) /\ listed \in Seq(EventKinds)
    /\ tail \in {"none", "half", "no newline"}
    /\ cached \in Nat \cup {Unknown} /\ known \in Nat
    /\ worker \in {"working", "ending", "saved", "finished", "restarted"}
    /\ client \in [at : {"off", "subscribed", "sending", "waiting", "closed"}, heartbeat : BOOLEAN]
    /\ {pruned, woken} \subseteq BOOLEAN /\ streamFaults \in 0..MaxStreamFaults

(* Failed writes, repairs, crashes and reconnections included, no event    *)
(* that was acknowledged is lost or spoilt, and a client has every event   *)
(* once and in order (event_repository.go:80-122, handler.go:1419-1450).   *)
EventsKept ==
    /\ \A i \in 1..Len(file) : file[i] # "garbage"
    /\ \A e \in kept : e[1] \in 1..Len(file) /\ file[e[1]] = e[2]
    /\ ~pruned => BeginsAs(got \o listed, file)

(* Who waits for the stream: a client that stays, for an acknowledged      *)
(* event it was not sent, or for the end of a run that has ended.  Notices *)
(* merge, and the loop is deaf while it delivers, but it subscribes before *)
(* it lists.  (A terminal event that cannot be appended wakes nobody:      *)
(* run_lifecycle.go:85.)                                                   *)
ClientWaits ==
    /\ Subscribed
    /\ \/ ~pruned /\ \E e \in kept : e[1] > Len(got)
       \/ Terminal /\ streamFaults = 0
=============================================================================
