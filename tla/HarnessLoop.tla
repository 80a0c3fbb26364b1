------------------------------ MODULE HarnessLoop ------------------------------
(***************************************************************************)
(* The agent loop of one session (harness/loop.go, tools.go): a run takes  *)
(* turns, a turn asks the model, the model answers or asks for tool calls, *)
(* and every call leaves a result in the transcript, also when a budget, a *)
(* cancel or a guard ends the turn.  The session's runs follow one another *)
(* (RunService!SingleWriter); the transcript survives them, and a crash.   *)
(*                                                                         *)
(* A call is the operation it asks for: a read, which is safe to repeat,   *)
(* or a write, which may name the resource it replaces.  The transcript is *)
(* kept reply by reply.  What the prompt says, the tool catalog and its    *)
(* retrieval, and planning tools are left out; BeforeTool and AfterTool    *)
(* are not set anywhere in the program.                                    *)
(***************************************************************************)
EXTENDS Naturals, Sequences, FiniteSets, SequencesExt

CONSTANTS
    Writes, Reads,   \* the operations a call can ask for, by full signature
    Resources,
    ResourceOf,      \* the resource a write replaces, or NoResource
    NoResource,
    Guarded,         \* writes that need an approval
    MaxTurns, MaxToolCalls,  \* the run budget; its tokens and its clock just run out
    MaxToolTurns,    \* MaxAutonomousToolTurns
    MaxChecks,       \* MaxCompletionChecks
    MaxRepairs, MaxEmpties,  \* maxToolProtocolRepairAttempts, maxEmptyAnswerRetries
    FailureLimit,    \* maxRepeatedFailuresPerStrategy
    RepeatLimit,     \* maxRepeatedIdenticalErrors
    BlockLimit,      \* maxBlockedCallsPerStrategy
    ReplyLength,     \* bound: calls in one reply
    MaxRuns,         \* bound: runs of the session
    MaxMishaps       \* bound: writes and emissions that fail, crashes

Ops == Writes \cup Reads

ASSUME OpsAssumption == Writes \cap Reads = {} /\ Guarded \subseteq Writes
ASSUME ResourceAssumption ==
    /\ ResourceOf \in [Writes -> Resources \cup {NoResource}]
    /\ NoResource \notin Resources \cup Writes
ASSUME LimitAssumption ==
    /\ {MaxTurns, FailureLimit, RepeatLimit, BlockLimit} \subseteq Nat \ {0}
    /\ {MaxToolCalls, MaxToolTurns, MaxChecks, MaxRepairs, MaxEmpties,
        ReplyLength, MaxRuns, MaxMishaps} \subseteq Nat

VARIABLES
    transcript,  \* durable: the replies with calls, and the results of the calls
    permanent,   \* durable: Session.PermanentToolApproval
    runs,        \* runs begun so far
    phase,       \* where Run is
    ctx,         \* the run's context
    count,       \* turns, calls and retries of the run
    spent,       \* the token budget is used up
    offer,       \* the tools callable in this turn
    reply,       \* the model's reply in hand
    next, work,  \* the first call of the group, and where its calls have got to
    guard,       \* toolLoopGuard
    tracker,     \* completionTracker
    outcome,     \* how the last run ended
    mishaps

memory      == <<phase, ctx, count, spent, offer, reply, next, work, guard, tracker, outcome>>
harnessVars == <<transcript, permanent, runs, memory, mishaps>>

-----------------------------------------------------------------------------
Errors   == {"failed", "rejected", "denied", "refused", "unknown"}
Results  == Errors \cup {"succeeded", "skipped"}
Outcomes == {"none", "running", "completed", "budget", "canceled", "failed", "crashed"}
Replies  == {"none", "answer", "empty", "garbled", "calls"}
Verdicts == {"none", "final", "plan", "check", "repair"}
Pending  == {"new", "asking", "retry", "cleared", "running"}

NoReply  == [kind |-> "none", calls |-> <<>>, verdict |-> "none"]
NewCount == [turn |-> 0, used |-> 0, toolTurns |-> 0, repairs |-> 0, empties |-> 0, plan |-> 0]

\* What a failure is held against: the very call when the error names its
\* content, the strategy (the resource) when it does not.
FailureKinds        == {"failed", "rejected", "denied"}
KeyOf(op, k) == IF k = "rejected" THEN op ELSE ResourceOf[op]
FailureKeys  == (Writes \X {"rejected"}) \cup (Resources \X {"failed", "denied"})

NewGuard(doubts) ==
    [uncertain |-> doubts, done |-> {}, latest |-> [f \in Resources |-> NoResource],
     failures |-> [s \in FailureKeys |-> 0], blocked |-> [s \in {} |-> 0],
     repeats |-> [f \in Resources \X FailureKinds |-> 0], forced |-> FALSE]

NewTracker == [failures |-> {}, ran |-> FALSE, checks |-> 0]

HarnessTypeOK ==
    /\ \A k \in 1..Len(transcript) :
         /\ transcript[k].run \in 1..runs
         /\ transcript[k].calls \in Seq(Ops) \ {<<>>}
         /\ transcript[k].results \in Seq([call : DOMAIN transcript[k].calls, state : Results])
         /\ transcript[k].consented \cup transcript[k].performed \subseteq DOMAIN transcript[k].calls
    /\ permanent \in BOOLEAN /\ spent \in BOOLEAN
    /\ runs \in 0..MaxRuns /\ mishaps \in 0..MaxMishaps
    /\ phase \in {"idle", "turn", "model", "reply", "answered", "calls", "tools"}
    /\ ctx \in {"live", "expired", "canceled"}
    /\ count.turn \in 0..MaxTurns /\ count.used \in 0..(ReplyLength * MaxTurns)
    /\ count.toolTurns \in 0..MaxTurns /\ count.repairs \in 0..(MaxRepairs + 1)
    /\ count.empties \in 0..MaxEmpties
    /\ offer \in {"all", "reads", "none"}
    /\ reply \in [kind : Replies, calls : Seq(Ops), verdict : Verdicts]
    /\ work # <<>> => work \in [DOMAIN work -> Pending \cup Results \cup {"broken"}]
    /\ phase = "tools" => DOMAIN work # {} /\ DOMAIN work \subseteq DOMAIN reply.calls
    /\ guard.uncertain \cup guard.done \subseteq Writes
    /\ tracker.checks \in 0..MaxChecks
    /\ outcome \in Outcomes /\ (phase = "idle" <=> outcome # "running")

HarnessInit ==
    /\ transcript = <<>> /\ permanent = FALSE /\ runs = 0
    /\ phase = "idle" /\ outcome = "none" /\ mishaps = 0
    /\ ctx = "live" /\ count = NewCount /\ spent = FALSE /\ offer = "all"
    /\ reply = NoReply /\ next = 1 /\ work = <<>>
    /\ guard = NewGuard({}) /\ tracker = NewTracker

-----------------------------------------------------------------------------
(* The transcript.                                                         *)

IsSettled(t, i) ==
    \E k \in 1..Len(t.results) : t.results[k].call = i /\ t.results[k].state # "unknown"

\* Mutant: a result that says "unknown" counts as a result.
InDoubtUnanswered == {w \in Writes : \E k \in 1..Len(transcript) : \E i \in DOMAIN transcript[k].calls :
    /\ transcript[k].calls[i] = w
    /\ \A n \in 1..Len(transcript[k].results) : transcript[k].results[n].call # i}

\* restoreUncertain: writes asked for whose result is missing or unknown.
InDoubt == {w \in Writes : \E k \in 1..Len(transcript) : \E i \in DOMAIN transcript[k].calls :
               transcript[k].calls[i] = w /\ ~IsSettled(transcript[k], i)}

Unsettled(t) == \E i \in DOMAIN t.calls : ~IsSettled(t, i)

Current == Len(transcript)

NewEntry(calls) ==
    [run |-> runs, calls |-> calls, results |-> <<>>, performed |-> {}, consented |-> {}]

\* The transcript tr with results for the calls i..j of its last reply.
Answering(tr, i, j, st(_)) ==
    IF j < i THEN tr
    ELSE [tr EXCEPT ![Len(tr)].results =
            @ \o [n \in 1..(j + 1 - i) |-> [call |-> i + n - 1, state |-> st(i + n - 1)]]]

NotRun(i) == "refused"

-----------------------------------------------------------------------------
(* How a run ends.                                                         *)

End(how) ==
    /\ phase' = "idle" /\ outcome' = how
    /\ ctx' = "live" /\ count' = NewCount /\ spent' = FALSE /\ offer' = "all"
    /\ reply' = NoReply /\ next' = 1 /\ work' = <<>> /\ guard' = NewGuard({})

Go(st)  == phase' = st /\ UNCHANGED outcome
Mishap  == mishaps < MaxMishaps /\ mishaps' = mishaps + 1
Works   == UNCHANGED mishaps

\* operationStatus
Failure == IF ctx = "live" THEN "failed" ELSE "canceled"

\* completeBudget: the calls that were not processed, from the given one on,
\* get a result that says so; persistContext keeps the writes alive.
BudgetExit(tr, from) ==
    LET last == Len(reply.calls) IN
    /\ \/ transcript' = Answering(tr, from, last, NotRun) /\ End("budget") /\ Works
       \/ \E n \in from..(last + 1) :
            transcript' = Answering(tr, from, n - 1, NotRun) /\ End("failed") /\ Mishap
    /\ UNCHANGED <<permanent, runs>>

-----------------------------------------------------------------------------
(* Run: the turns.                                                         *)

\* The replies that are settled mean nothing to the runs to come: those in
\* doubt are kept, in their order.
DoubtsRemain ==
    \E len \in 0..Len(transcript) : \E at \in [1..len -> DOMAIN transcript] :
        /\ \A m, n \in 1..len : m < n => at[m] < at[n]
        /\ {at[m] : m \in 1..len} = {k \in DOMAIN transcript : Unsettled(transcript[k])}
        /\ transcript' = [m \in 1..len |-> transcript[at[m]]]

BeginRun ==
    /\ phase = "idle" /\ runs < MaxRuns
    /\ runs' = runs + 1
    /\ DoubtsRemain
    /\ guard' = NewGuard(InDoubt)
    /\ tracker' = NewTracker
    /\ phase' = "turn" /\ outcome' = "running"
    /\ UNCHANGED <<permanent, ctx, count, spent, offer, reply, next, work, mishaps>>

ForceFinalization == MaxToolTurns > 0 /\ count.toolTurns >= MaxToolTurns

StartTurn ==
    /\ phase = "turn" /\ ctx = "live" /\ count.turn < MaxTurns
    /\ count' = [count EXCEPT !.turn = @ + 1]
    /\ offer' = CASE ForceFinalization                  -> "none"
                  [] ~ForceFinalization /\ guard.forced -> "reads"
                  [] OTHER                              -> "all"
    /\ Go("model")
    /\ UNCHANGED <<transcript, permanent, runs, ctx, spent, reply, next, work, guard, tracker, mishaps>>

TurnsEnd ==
    /\ phase = "turn"
    /\ \/ /\ ctx = "canceled" /\ count.turn < MaxTurns
          /\ End("canceled")
          /\ UNCHANGED <<transcript, permanent, runs, tracker, mishaps>>
       \/ /\ ctx = "expired" \/ count.turn = MaxTurns
          /\ BudgetExit(transcript, 1) /\ UNCHANGED tracker

\* The model streams a reply, and may use up the tokens with it.  Calls in a
\* turn that must conclude are replaced by a text.
Stream ==
    /\ phase = "model" /\ ~spent
    /\ \E kind \in Replies \ {"none"}, calls \in BoundedSeq(Ops, ReplyLength), up \in BOOLEAN :
         /\ (kind = "calls") = (calls # <<>>)
         /\ reply' = IF offer = "none" /\ kind = "calls"
                     THEN [NoReply EXCEPT !.kind = "answer"]
                     ELSE [NoReply EXCEPT !.kind = kind, !.calls = calls]
         /\ spent' = up
    /\ Go("reply")
    /\ UNCHANGED <<transcript, permanent, runs, ctx, count, offer, next, work, guard, tracker, mishaps>>

\* The stream, or the compaction before it, is stopped by a budget.
StreamStops ==
    /\ phase = "model" /\ ctx # "canceled"
    /\ BudgetExit(transcript, 1) /\ UNCHANGED tracker

-----------------------------------------------------------------------------
(* Run: what a reply means.  Before the reply is written, the loop decides *)
(* whether an answer may stand: not while a plan is unfinished that has    *)
(* moved since it was last pointed out, and not before the model has faced *)
(* its failed calls, or that it called nothing at all.                     *)

Repairable == reply.kind = "garbled" /\ count.repairs < MaxRepairs

Exhausted == reply.kind = "garbled" /\ count.repairs >= MaxRepairs

\* The state of the plan: 0 when nothing is left to do, 1 otherwise.
PlanSays(key) == key # 0 /\ offer # "none" /\ key # count.plan

\* Mutant: the model is challenged as often as it fails.
ChallengesForEver == tracker.failures # {} \/ (offer # "none" /\ ~tracker.ran)

\* challenge, challengeToolless: one allowance for both.
Challenges ==
    /\ tracker.checks < MaxChecks
    /\ tracker.failures # {} \/ (offer # "none" /\ ~tracker.ran)

Judge(key) ==
    IF reply.kind \in {"calls", "empty"} \/ Exhausted THEN "final"
    ELSE CASE Repairable                                        -> "repair"
           [] reply.kind = "answer" /\ PlanSays(key)            -> "plan"
           [] reply.kind = "answer" /\ ~PlanSays(key) /\ Challenges -> "check"
           [] OTHER                                             -> "final"

\* The reply is judged and written; one with calls becomes an entry.
WriteReply ==
    /\ phase = "reply"
    /\ \E key \in 0..1 :
         LET verdict == Judge(key)
             entry   == IF reply.kind = "calls" THEN Append(transcript, NewEntry(reply.calls))
                                                ELSE transcript IN
         /\ tracker' = IF verdict = "check" THEN [tracker EXCEPT !.checks = @ + 1] ELSE tracker
         /\ \/ /\ ctx = "live"
               /\ transcript' = entry
               /\ reply' = [reply EXCEPT !.verdict = verdict]
               /\ count' = [count EXCEPT !.plan = IF verdict = "plan" THEN key ELSE @,
                                         !.repairs = CASE verdict = "repair"     -> @ + 1
                                                       [] reply.kind = "calls"  -> 0
                                                       [] OTHER                 -> @]
               /\ Go("answered")
               /\ UNCHANGED <<permanent, runs, ctx, spent, offer, next, work, guard, mishaps>>
            \/ ctx = "expired" /\ BudgetExit(entry, 1)

AfterReply ==
    /\ phase = "answered"
    /\ IF spent \/ ctx = "expired" THEN BudgetExit(transcript, 1) /\ UNCHANGED tracker
       ELSE /\ ctx = "live"
            /\ \/ /\ reply.verdict \in {"repair", "plan", "check"} \/ reply.kind = "empty"
                  /\ reply.kind = "empty" => count.empties < MaxEmpties
                  /\ count' = IF reply.kind = "empty" THEN [count EXCEPT !.empties = @ + 1] ELSE count
                  /\ reply' = NoReply
                  /\ Go("turn")
                  /\ UNCHANGED <<ctx, spent, offer, next, work, guard>>
               \/ /\ reply.kind = "calls"
                  /\ next' = 1
                  /\ Go("calls")
                  /\ UNCHANGED <<ctx, count, spent, offer, reply, work, guard>>
               \/ reply.kind = "empty" /\ count.empties = MaxEmpties /\ End("failed")
               \/ reply.kind \in {"answer", "garbled"} /\ reply.verdict = "final" /\ End("completed")
            /\ UNCHANGED <<transcript, permanent, runs, tracker, mishaps>>

-----------------------------------------------------------------------------
(* Run: the calls of a reply, group by group.                              *)

\* planToolCalls, against the calls made before this reply.
WithinBudget(made) ==
    IF MaxToolCalls = 0 \/ MaxToolCalls - made >= Len(reply.calls) THEN Len(reply.calls)
    ELSE IF made > MaxToolCalls THEN 0 ELSE MaxToolCalls - made

\* The calls of this reply that the budget covers: the earlier ones of the
\* reply are already counted.
AllowedNow == WithinBudget(count.used - (next - 1))

\* groupToolCalls: a run of reads goes together, a write on its own.
GroupEnd ==
    IF reply.calls[next] \in Writes THEN next
    ELSE CHOOSE j \in next..AllowedNow :
           /\ \A i \in next..j : reply.calls[i] \in Reads
           /\ j = AllowedNow \/ reply.calls[j + 1] \in Writes

\* A wall clock or a cancel that came during the last group.
Interrupted == next > 1 /\ ctx # "live"

StartGroup ==
    /\ phase = "calls" /\ ctx = "live" /\ next <= AllowedNow
    /\ work' = [i \in next..GroupEnd |-> "new"]
    /\ count' = [count EXCEPT !.used = @ + (GroupEnd + 1 - next)]
    /\ Go("tools")
    /\ UNCHANGED <<transcript, permanent, runs, ctx, spent, offer, reply, next, guard, tracker, mishaps>>

\* Mutant: the calls left are counted from the end of the allowance.
AfterCallsFromAllowed ==
    /\ phase = "calls"
    /\ \/ Interrupted /\ ctx = "expired" /\ BudgetExit(transcript, AllowedNow + 1) /\ UNCHANGED tracker
       \/ /\ Interrupted /\ ctx = "canceled" /\ End("canceled")
          /\ UNCHANGED <<transcript, permanent, runs, tracker, mishaps>>
       \/ next > AllowedNow /\ AllowedNow < Len(reply.calls) /\ BudgetExit(transcript, next) /\ UNCHANGED tracker
       \/ /\ next > Len(reply.calls) /\ ctx = "live"
          /\ count' = [count EXCEPT !.toolTurns = @ + 1]
          /\ reply' = NoReply /\ next' = 1
          /\ Go("turn")
          /\ UNCHANGED <<transcript, permanent, runs, ctx, spent, offer, work, guard, tracker, mishaps>>

AfterCalls ==
    /\ phase = "calls"
    /\ \/ Interrupted /\ ctx = "expired" /\ BudgetExit(transcript, next) /\ UNCHANGED tracker
       \/ /\ Interrupted /\ ctx = "canceled" /\ End("canceled")
          /\ UNCHANGED <<transcript, permanent, runs, tracker, mishaps>>
       \/ next > AllowedNow /\ AllowedNow < Len(reply.calls) /\ BudgetExit(transcript, next) /\ UNCHANGED tracker
       \/ /\ next > Len(reply.calls) /\ ctx = "live"
          /\ count' = [count EXCEPT !.toolTurns = @ + 1]
          /\ reply' = NoReply /\ next' = 1
          /\ Go("turn")
          /\ UNCHANGED <<transcript, permanent, runs, ctx, spent, offer, work, guard, tracker, mishaps>>

-----------------------------------------------------------------------------
(* executeToolCall: one call of the group.                                 *)

At(i, w) == work' = [work EXCEPT ![i] = w]

StepKeeps == UNCHANGED <<runs, phase, ctx, count, spent, offer, reply, next, tracker, outcome>>

\* observe of toolLoopGuard: the guard after a result of the write op.
Observed(g, op, state) ==
    LET f       == ResourceOf[op]
        key     == <<KeyOf(op, state), state>>
        failed  == [g EXCEPT !.failures[key] = @ + 1, !.repeats[<<f, state>>] =
                        IF @ < RepeatLimit THEN @ + 1 ELSE @]
        done    == [g EXCEPT !.done = (@ \ (IF f = NoResource THEN {} ELSE {g.latest[f]})) \cup {op}]
        settled == [done EXCEPT
                      !.latest[f] = op,
                      !.blocked = [s \in DOMAIN @ \ {f, op} |-> @[s]],
                      !.repeats = [r \in DOMAIN @ |->
                                     IF r[1] = f /\ @[r] = RepeatLimit THEN 0 ELSE @[r]]] IN
    CASE op \notin Writes                          -> g
      [] op \in Writes /\ state = "unknown"        -> [g EXCEPT !.uncertain = @ \cup {op}]
      [] op \in Writes /\ state \in FailureKinds          ->
           IF f = NoResource THEN g
           ELSE IF failed.failures[key] < FailureLimit \/ key[1] \in DOMAIN g.blocked THEN failed
           ELSE [failed EXCEPT !.blocked =
                   [s \in DOMAIN @ \cup {key[1]} |-> IF s \in DOMAIN @ THEN @[s] ELSE 0]]
      [] op \in Writes /\ state = "succeeded"      -> IF f = NoResource THEN done ELSE settled

\* Not callable in this turn, or its contract is not the one the model saw.
Refuse(i) ==
    /\ work[i] = "new"
    /\ At(i, "refused")
    /\ UNCHANGED <<transcript, permanent, guard, mishaps>> /\ StepKeeps

Callable(op) == offer = "all" \/ (offer = "reads" /\ op \in Reads)

\* blockedErrorReason
Hopeless(f) == \E k \in FailureKinds : f # NoResource /\ guard.repeats[<<f, k>>] = RepeatLimit

\* The strategies a write is blocked by; its own attempt is looked at first.
BlockedBy(op) == DOMAIN guard.blocked \cap {op, ResourceOf[op]}

\* Mutant: only a run that must conclude skips what was done.
VerdictForced(op) ==
    IF op \in guard.uncertain THEN "doubt"
    ELSE IF guard.forced THEN "skip"
    ELSE IF Hopeless(ResourceOf[op]) THEN "hopeless"
    ELSE IF BlockedBy(op) # {} THEN "blocked" ELSE "pass"

\* What toolLoopGuard.before says of a write: first, that its last outcome is
\* in doubt; then, that it was done or that the run must conclude; then, that
\* its resource or its strategy has failed too often.
Verdict(op) ==
    IF op \in guard.uncertain THEN "doubt"
    ELSE IF guard.forced \/ op \in guard.done THEN "skip"
    ELSE IF Hopeless(ResourceOf[op]) THEN "hopeless"
    ELSE IF BlockedBy(op) # {} THEN "blocked" ELSE "pass"

\* A write that passes may need an approval; one in doubt needs it always.
CheckWrite(i) ==
    LET op  == reply.calls[i]
        key == IF op \in BlockedBy(op) THEN op ELSE ResourceOf[op] IN
    /\ work[i] = "new" /\ op \in Writes /\ Callable(op)
    /\ At(i, CASE Verdict(op) = "doubt"                  -> "retry"
               [] Verdict(op) = "skip"                   -> "skipped"
               [] Verdict(op) \in {"hopeless", "blocked"} -> "refused"
               [] Verdict(op) = "pass" -> IF op \in Guarded /\ ~permanent THEN "asking" ELSE "cleared")
    /\ guard' = CASE Verdict(op) = "skip"    -> [guard EXCEPT !.forced = TRUE]
                  [] Verdict(op) = "blocked" -> [guard EXCEPT !.blocked[key] = @ + 1,
                                                   !.forced = guard.blocked[key] + 1 >= BlockLimit]
                  [] OTHER                   -> guard
    /\ UNCHANGED <<transcript, permanent, mishaps>> /\ StepKeeps

\* A read is exempt from approvals.
CheckRead(i) ==
    /\ work[i] = "new" /\ reply.calls[i] \in Reads /\ Callable(reply.calls[i])
    /\ At(i, "cleared")
    /\ UNCHANGED <<transcript, permanent, guard, mishaps>> /\ StepKeeps

\* A user approves, once or for good; a doubtful write only once.
Approve(i) ==
    /\ work[i] \in {"asking", "retry"}
    /\ At(i, "cleared")
    /\ IF work[i] = "retry"
       THEN /\ transcript' = [transcript EXCEPT ![Current].consented = @ \cup {i}]
            /\ UNCHANGED permanent
       ELSE permanent' \in {permanent, TRUE} /\ UNCHANGED transcript
    /\ UNCHANGED <<guard, mishaps>> /\ StepKeeps

\* A user denies.
Deny(i) ==
    /\ work[i] \in {"asking", "retry"}
    /\ At(i, "denied")
    /\ guard' = Observed(guard, reply.calls[i], "denied")
    /\ UNCHANGED <<transcript, permanent, mishaps>> /\ StepKeeps

\* Mutant: the wait does not listen to the context.
WaitIsDeaf(i) == FALSE

\* The run's context ends the wait for a decision.
WaitEnds(i) == ctx # "live" /\ Deny(i)

\* The intent is recorded, with the run's context, and the tool starts.  (A
\* crash between the two is a crash after both: the scan cannot tell.)
Dispatch(i) ==
    /\ work[i] = "cleared" /\ ctx = "live"
    /\ At(i, "running")
    /\ transcript' = [transcript EXCEPT ![Current].performed = @ \cup {i}]
    /\ UNCHANGED <<permanent, guard, mishaps>> /\ StepKeeps

\* A record or an event that cannot be written fails the call, and the run.
BreakCall(i) ==
    /\ work[i] \in {"asking", "retry", "cleared"}
    /\ At(i, "broken")
    /\ (ctx # "live" /\ work[i] = "cleared" /\ Works) \/ Mishap
    /\ UNCHANGED <<transcript, permanent, guard>> /\ StepKeeps

\* The tool returns; a result without a state of its own is unknown when the
\* call has failed or the context is done.
Return(i) ==
    /\ work[i] = "running"
    /\ \E state \in {"succeeded", "failed", "rejected", "unknown"} :
         /\ state = "rejected" => reply.calls[i] \in Writes
         /\ At(i, state)
         /\ guard' = Observed(guard, reply.calls[i], state)
    /\ UNCHANGED <<transcript, permanent, mishaps>> /\ StepKeeps

Settled(w) == w \in Results \cup {"broken"}

OperationOf(op) ==
    IF op \in Writes /\ ResourceOf[op] # NoResource THEN ResourceOf[op] ELSE op

\* Mutant: a success also settles the doubt about an earlier call.
TrackedAnySuccess(t, k, i, state) ==
    LET op == reply.calls[i] IN
    IF state = "skipped" THEN t
    ELSE [failures |->
            IF state \in Errors
            THEN t.failures \cup {[call |-> <<k, i>>, operation |-> OperationOf(op),
                                   unknown |-> state = "unknown"]}
            ELSE {f \in t.failures : f.operation # OperationOf(op)},
          ran    |-> t.ran \/ state \notin {"refused", "denied"},
          checks |-> t.checks]

\* completionTracker.observe: a result that is not just a skip.
Tracked(t, k, i, state) ==
    LET op == reply.calls[i] IN
    IF state = "skipped" THEN t
    ELSE [failures |->
            IF state \in Errors
            THEN t.failures \cup {[call |-> <<k, i>>, operation |-> OperationOf(op),
                                   unknown |-> state = "unknown"]}
            ELSE {f \in t.failures : f.unknown \/ f.operation # OperationOf(op)},
          ran    |-> t.ran \/ state \notin {"refused", "denied"},
          checks |-> t.checks]

\* The results of the group are written in the order of the calls, the first
\* call that is broken ends the run, and so does a write that fails.
RecordGroup ==
    /\ phase = "tools" /\ \A i \in DOMAIN work : Settled(work[i])
    /\ LET last     == next + Cardinality(DOMAIN work) - 1
           good     == {n \in (next - 1)..last : \A i \in next..n : work[i] # "broken"}
           result(i) == work[i]
           seen[i \in (next - 1)..last] ==
               IF i < next THEN tracker ELSE Tracked(seen[i - 1], Current, i, work[i]) IN
       \/ /\ last \in good
          /\ transcript' = Answering(transcript, next, last, result)
          /\ tracker' = seen[last]
          /\ next' = last + 1 /\ work' = <<>>
          /\ Go("calls")
          /\ UNCHANGED <<permanent, runs, ctx, count, spent, offer, reply, guard, mishaps>>
       \/ \E n \in good :
            /\ IF last \in good THEN Mishap ELSE Works /\ n = Cardinality(good) + next - 2
            /\ transcript' = Answering(transcript, next, n, result)
            /\ End(Failure)
            /\ UNCHANGED <<permanent, runs, tracker>>

-----------------------------------------------------------------------------
(* What ends a run from outside.                                           *)

\* A write with the run's context fails when the context is done; any write or
\* emission, the provider and the model's protocol may fail.
Fail ==
    /\ \/ phase \in {"turn", "model", "reply", "answered", "calls"} /\ ctx # "live" /\ Works
       \/ phase \notin {"idle", "tools"} /\ Mishap
    /\ End(Failure)
    /\ UNCHANGED <<transcript, permanent, runs, tracker>>

ContextEnds(how) ==
    /\ phase # "idle" /\ ctx = "live"
    /\ ctx' = how
    /\ UNCHANGED <<transcript, permanent, runs, phase, count, spent, offer, reply, next, work,
                   guard, tracker, outcome, mishaps>>

Crash ==
    /\ phase # "idle" /\ Mishap
    /\ End("crashed")
    /\ UNCHANGED <<transcript, permanent, runs, tracker>>

CallStep(i) ==
    \/ Refuse(i) \/ CheckWrite(i) \/ CheckRead(i) \/ Dispatch(i) \/ BreakCall(i) \/ Return(i)
    \/ WaitEnds(i)

LoopStep ==
    \/ StartTurn \/ TurnsEnd \/ Stream \/ StreamStops \/ WriteReply \/ AfterReply
    \/ StartGroup \/ AfterCalls \/ RecordGroup \/ Fail
    \/ \E i \in DOMAIN work : CallStep(i)

GoesOn == LoopStep /\ Works

HarnessNext ==
    \/ BeginRun \/ LoopStep \/ Crash
    \/ \E i \in DOMAIN work : Approve(i) \/ Deny(i)
    \/ \E how \in {"expired", "canceled"} : ContextEnds(how)

HarnessSpec == HarnessInit /\ [][HarnessNext]_harnessVars

-----------------------------------------------------------------------------
(* Properties.                                                             *)

\* However a run ends that reports a message (an answer, or the pause at a
\* budget), every call of its replies has exactly one result, in the order of
\* the calls, and so it is before every new request to the model.
ResultsPaired ==
    (phase \in {"turn", "model", "reply"} \/ outcome \in {"completed", "budget"}) =>
        \A k \in 1..Len(transcript) : transcript[k].run = runs =>
            [n \in DOMAIN transcript[k].results |-> transcript[k].results[n].call]
                = [n \in DOMAIN transcript[k].calls |-> n]

\* A write that was started and whose result nobody knows, after a crash, a
\* failed write or an unclear answer, is not started again, in this run or a
\* later one, unless a user has agreed to that very call.
NoBlindRepeat ==
    \A k, n \in 1..Len(transcript) : \A i \in transcript[k].performed, j \in transcript[n].performed :
        /\ k < n \/ (k = n /\ i < j)
        /\ transcript[k].calls[i] = transcript[n].calls[j] /\ transcript[n].calls[j] \in Writes
        /\ ~IsSettled(transcript[k], i)
        => j \in transcript[n].consented

\* State of the result of call i of entry k, for a call that has one.
StateOf(k, i) ==
    LET t == transcript[k] IN
    IF \E n \in DOMAIN t.results : t.results[n].call = i
    THEN t.results[CHOOSE n \in DOMAIN t.results : t.results[n].call = i].state ELSE "none"

Later(k, i, n, j) == n > k \/ (n = k /\ j > i)

\* Another write of the same resource.
Replaces(other, op) ==
    /\ {other, op} \subseteq Writes /\ other # op
    /\ ResourceOf[other] = ResourceOf[op] /\ ResourceOf[op] # NoResource

\* A call of the run has failed, and no later success of the same operation has
\* made it good, or nobody knows whether it has failed.
LeftUnresolved(k, i) ==
    /\ transcript[k].run = runs /\ i \in DOMAIN transcript[k].calls
    /\ StateOf(k, i) \in Errors
    /\ StateOf(k, i) = "unknown" \/
       ~\E n \in k..Len(transcript) : \E j \in DOMAIN transcript[n].calls :
           /\ Later(k, i, n, j) /\ StateOf(n, j) = "succeeded"
           /\ OperationOf(transcript[n].calls[j]) = OperationOf(transcript[k].calls[i])

\* A run that completes reports exactly the failures the transcript shows: a
\* failed call that no later success of the same operation has made good, and
\* every call whose outcome is unknown.
UnresolvedIsReported ==
    outcome = "completed" =>
        {f.call : f \in tracker.failures} =
        {c \in (1..Len(transcript)) \X (1..ReplyLength) : LeftUnresolved(c[1], c[2])}

\* A write that has succeeded is not repeated in the same run, unless a user
\* agrees or another write has changed the resource since.
NoEcho ==
    \A k, n \in 1..Len(transcript) : \A i \in DOMAIN transcript[k].calls, j \in transcript[n].performed :
        /\ transcript[k].run = runs /\ Later(k, i, n, j)
        /\ transcript[k].calls[i] = transcript[n].calls[j] /\ transcript[n].calls[j] \in Writes
        /\ StateOf(k, i) = "succeeded"
        => \/ j \in transcript[n].consented
           \/ \E m \in k..n : \E x \in DOMAIN transcript[m].calls :
                /\ Later(k, i, m, x) /\ Later(m, x, n, j)
                /\ StateOf(m, x) = "succeeded"
                /\ Replaces(transcript[m].calls[x], transcript[n].calls[j])

\* A write is repeated neither in doubt nor after it has succeeded.
WritesOnce == NoBlindRepeat /\ NoEcho

\* Every call has its result, and every failure left is in the report.
AllAccounted == ResultsPaired /\ UnresolvedIsReported

-----------------------------------------------------------------------------
(* Liveness.  Run goes on by itself, and a user who does not answer is     *)
(* overtaken by the wall clock, where there is one.                        *)

HarnessFairness == WF_harnessVars(GoesOn) /\ WF_harnessVars(ContextEnds("expired"))

\* A run is at work, or at a question about a tool that is never answered.
HarnessAtWork == phase # "idle"
=============================================================================
