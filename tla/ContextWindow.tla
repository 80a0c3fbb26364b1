---------------------------- MODULE ContextWindow ----------------------------
(***************************************************************************)
(* What the model is shown of a session's transcript (harness/context.go). *)
(* The transcript only grows: messages, compactions, each with a summary   *)
(* of what came up to its through_sequence, and retractions.  A turn reads *)
(* what follows the latest compaction, repairs the tool calls in it, and   *)
(* when it is too large summarises the older part in a model call before   *)
(* it writes a compaction of its own.  CompactSession does the same on     *)
(* request; it looks whether a run is in progress, but holds nothing.      *)
(*                                                                         *)
(* Token counts are choices: whether the window is too large, how many     *)
(* retained messages still have to go, whether a summary was of any use.   *)
(* A summary is the set of messages it was made from; trimmed to nothing   *)
(* it is blank.                                                            *)
(***************************************************************************)
EXTENDS Naturals, Sequences, FiniteSets, SequencesExt, FiniteSetsExt

CONSTANTS
    RetainMessages,  \* ContextConfig.RetainMessages
    CallsPerReply,   \* bound: tool calls in one reply
    MaxEntries       \* bound: entries of the transcript

ASSUME ContextAssumption ==
    RetainMessages \in Nat \ {0} /\ CallsPerReply \in Nat /\ MaxEntries \in Nat

VARIABLES
    entries,  \* the transcript; an entry's sequence is its place
    working,  \* a run of the session is in progress
    asked,    \* the calls of the last reply that have no result yet
    reading   \* what a turn, or the user's request, holds of the transcript

contextVars == <<entries, working, asked, reading>>

Message(role, calls, answers) ==
    [type |-> "message", role |-> role, calls |-> calls, answers |-> answers]
Compaction(covers, through, blank) ==
    [type |-> "compaction", covers |-> covers, through |-> through, blank |-> blank]
Retraction(from) == [type |-> "retraction", from |-> from]

OfType(type) == {i \in DOMAIN entries : entries[i].type = type}

(* A retraction cuts the messages it finds back to the one it names; one   *)
(* it does not find changes nothing.                                       *)
CutBack(seen, named) ==
    IF named \in Range(seen)
    THEN SubSeq(seen, 1, (CHOOSE k \in DOMAIN seen : seen[k] = named) - 1) ELSE seen

NextRead(seen, i) ==
    CASE entries[i].type = "message"    -> Append(seen, i)
      [] entries[i].type = "retraction" -> CutBack(seen, entries[i].from)
      [] OTHER -> seen

ReadFrom(first) ==
    LET read[i \in 0..Len(entries)] ==
          IF i < first THEN <<>> ELSE NextRead(read[i - 1], i)
    IN  read[Len(entries)]

(* What the user sees (ListMessages).                                      *)
Shown == Range(ReadFrom(1))

NoCompaction == Compaction({}, 0, TRUE)

(* Bug: the summary's text is taken as it is, blank or not.                *)
LatestBlankOrNot ==
    LET written == OfType("compaction")
    IN  IF written = {} THEN NoCompaction ELSE entries[Max(written)]

(* A compaction whose summary is blank counts as none, whatever came       *)
(* before it.                                                              *)
LatestCompaction ==
    LET written == OfType("compaction")
    IN  IF written = {} \/ entries[Max(written)].blank THEN NoCompaction
        ELSE entries[Max(written)]

Carried(sequences) ==
    [k \in DOMAIN sequences |->
        [seq |-> sequences[k], role |-> entries[sequences[k]].role,
         calls |-> entries[sequences[k]].calls, answers |-> entries[sequences[k]].answers]]

(* The results that follow a reply, those that answer its calls, and how   *)
(* the reply goes on: every call gets its first result, a made-up one when *)
(* there is none, and a result without its call goes.                      *)
Follows(items, k) == {n \in k + 1..Len(items) : \A j \in k + 1..n : items[j].role = "tool"}
ResultsOf(items, k, call) == {n \in Follows(items, k) : items[n].answers = call}
Unanswered(items, k) == {call \in items[k].calls : ResultsOf(items, k, call) = {}}
FirstResults(items, k) ==
    {Min(ResultsOf(items, k, call)) : call \in items[k].calls \ Unanswered(items, k)}
MadeUp(item, call) == [seq |-> item.seq, role |-> "tool", calls |-> {}, answers |-> call]

InOrder(numbers) ==
    CHOOSE f \in [1..Cardinality(numbers) -> numbers] : \A i, j \in DOMAIN f : i < j => f[i] < f[j]

Group(items, k) ==
    IF items[k].role = "tool" THEN <<>>
    ELSE <<items[k]>>
         \o [n \in 1..Cardinality(FirstResults(items, k)) |-> items[InOrder(FirstResults(items, k))[n]]]
         \o [n \in 1..Cardinality(Unanswered(items, k)) |->
               MadeUp(items[k], InOrder(Unanswered(items, k))[n])]

Repaired(items) == FlattenSeq([k \in DOMAIN items |-> Group(items, k)])

Window(compaction) == Repaired(Carried(ReadFrom(compaction.through + 1)))

Sequences(items) == {items[k].seq : k \in DOMAIN items}

(* How many of the items are the older part: a reply stays with its        *)
(* results.                                                                *)
Older(items, retain) ==
    IF Len(items) <= retain THEN 0
    ELSE Max({k \in 0..Len(items) - retain : k = 0 \/ items[k + 1].role # "tool"})

ContextInit ==
    /\ entries = <<>>
    /\ working = FALSE
    /\ asked = {}
    /\ reading = [who \in {"turn", "user"} |-> [step |-> "none"]]

Room == Len(entries) < MaxEntries

(* StartRun: the run's message of the user.                                *)
BeginWork ==
    /\ ~working /\ Room
    /\ working' = TRUE
    /\ entries' = Append(entries, Message("user", {}, 0))
    /\ UNCHANGED <<asked, reading>>

(* The run ends, or the process dies: calls may be left without a result.  *)
EndWork ==
    /\ working
    /\ working' = FALSE
    /\ asked' = {}
    /\ reading' = [reading EXCEPT !["turn"] = [step |-> "none"]]
    /\ UNCHANGED entries

CanRead(who) ==
    \/ who = "turn" /\ working /\ asked = {} /\ reading[who].step = "none"
    \/ who = "user" /\ reading[who].step = "look"

(* CompactSession is refused while the records show a run in progress.     *)
LookForRuns ==
    /\ reading["user"].step = "none" /\ ~working /\ entries # <<>>
    /\ reading' = [reading EXCEPT !["user"] = [step |-> "look"]]
    /\ UNCHANGED <<entries, working, asked>>

(* BuildObserved, CompactNow: the latest compaction and what follows it.   *)
(* The turn may find it small enough and ask its model.                    *)
ReadTranscript(who) ==
    /\ CanRead(who)
    /\ LET items == Window(LatestCompaction)
           small == [step |-> IF who = "turn" THEN "model" ELSE "none"]
           retains == IF who = "turn" THEN 1..RetainMessages ELSE {RetainMessages}
       IN  \/ /\ who = "turn" \/ Older(items, RetainMessages) = 0
              /\ reading' = [reading EXCEPT ![who] = small]
           \/ \E retain \in retains :
              /\ Older(items, retain) > 0
              /\ reading' = [reading EXCEPT ![who] =
                   [step |-> "summary", before |-> LatestCompaction.covers,
                    items |-> items, older |-> Older(items, retain)]]
    /\ UNCHANGED <<entries, working, asked>>

(* The summary is made, or the call fails as a whole, or the reduction the *)
(* user asked for is none.                                                 *)
GiveUpCompaction(who) ==
    /\ reading[who].step = "summary"
    /\ reading' = [reading EXCEPT ![who] = [step |-> "none"]]
    /\ working' = (working /\ who # "turn")
    /\ UNCHANGED <<entries, asked>>

(* While the window is still too large its oldest message goes into the    *)
(* summary as well, one at a time, down to the last.                       *)
WriteCompaction(who) ==
    /\ reading[who].step = "summary" /\ Room
    /\ LET r == reading[who]
       IN  \E gone \in r.older..Len(r.items) - 1, blank \in BOOLEAN :
             entries' = Append(entries,
               Compaction(IF blank THEN {} ELSE r.before \cup Sequences(SubSeq(r.items, 1, gone)),
                          r.items[gone].seq, blank))
    /\ reading' = [reading EXCEPT ![who] = [step |-> IF who = "turn" THEN "model" ELSE "none"]]
    /\ UNCHANGED <<working, asked>>

(* The reply is written before its calls run, their results one by one.    *)
AppendReply ==
    /\ reading["turn"].step = "model" /\ Room
    /\ \E n \in 0..CallsPerReply :
         /\ entries' = Append(entries, Message("assistant", 1..n, 0))
         /\ asked' = 1..n
    /\ reading' = [reading EXCEPT !["turn"] = [step |-> "none"]]
    /\ UNCHANGED working

WriteResult ==
    /\ asked # {} /\ Room
    /\ entries' = Append(entries, Message("tool", {}, Min(asked)))
    /\ asked' = asked \ {Min(asked)}
    /\ UNCHANGED <<working, reading>>

(* Bug: the last entry of the file is taken for the user's last message.   *)
RetractLastEntry ==
    /\ ~working /\ Room
    /\ entries # <<>> /\ entries' = Append(entries, Retraction(Len(entries)))
    /\ UNCHANGED <<working, asked, reading>>

(* RetractMessages: no run of the session may be active, and only the last *)
(* message of the user the screen shows can go.                            *)
Retract ==
    /\ ~working /\ Room
    /\ LET users == {i \in Shown : entries[i].role = "user"}
       IN  users # {} /\ entries' = Append(entries, Retraction(Max(users)))
    /\ UNCHANGED <<working, asked, reading>>

ContextNext ==
    \/ BeginWork \/ EndWork \/ LookForRuns
    \/ \E who \in {"turn", "user"} :
         ReadTranscript(who) \/ GiveUpCompaction(who) \/ WriteCompaction(who)
    \/ AppendReply \/ WriteResult \/ Retract

ContextSpec == ContextInit /\ [][ContextNext]_contextVars

ContextTypeOK ==
    /\ Len(entries) <= MaxEntries /\ working \in BOOLEAN /\ asked \subseteq 1..CallsPerReply
    /\ \A i \in OfType("compaction") :
         entries[i].through < i /\ entries[i].covers \subseteq OfType("message")
    /\ \A i \in OfType("retraction") : entries[i].from \in OfType("message") /\ entries[i].from < i
    /\ \A who \in {"turn", "user"} : reading[who].step \in {"none", "look", "summary", "model"}

(* Everything the user still sees reaches the model, in the summary in     *)
(* force or as itself, whatever compactions overlapped: the user's and a   *)
(* turn's can be under way together (service.go:805-826).  A result whose  *)
(* reply went into the summary is the one thing that may be lost:          *)
(* compactMessages takes its messages one by one (context.go:311-317).     *)
NothingForgotten ==
    LET compaction == LatestCompaction
        reach == compaction.covers \cup Sequences(Window(compaction))
    IN  \A i \in Shown :
          \/ i \in reach
          \/ entries[i].role = "tool" /\ Max({k \in 1..i : entries[k].type = "message"
                                                /\ entries[k].role # "tool"}) \in compaction.covers
=============================================================================
