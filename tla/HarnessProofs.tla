---------------------------- MODULE HarnessProofs ----------------------------
(* The harness loop with the calls of a run, which MCLive checks on a      *)
(* small instance, for every value of its constants.                       *)
EXTENDS HarnessLoop, OrderProofs

-----------------------------------------------------------------------------
(* HarnessLoop: every call has its result and every failure left is in the *)
(* report; a write is not done again, in doubt or done, unless somebody    *)
(* agreed.  For any replies, runs, limits, failed writes and crashes.      *)

ResultRecords == [call : Nat, state : Results]
EntryRecords  == [run : Nat, calls : Seq(Ops), results : Seq(ResultRecords),
                  performed : SUBSET Nat, consented : SUBSET Nat]
FailureRecords == [call : Nat \X Nat, operation : Ops \cup Resources, unknown : BOOLEAN]
TrackerRecords == [failures : SUBSET FailureRecords, ran : BOOLEAN, checks : Nat]
CountRecords == [turn : Nat, used : Nat, toolTurns : Nat, repairs : Nat, empties : Nat, plan : Nat]
WorkStates   == Pending \cup Results \cup {"broken"}
Startables   == {"running", "succeeded", "failed", "rejected", "unknown"}

\* What a transcript says of a call, and of a call whose group, with the states
\* w, is at work on its last reply.
StateIn(tr, k, i) ==
    IF i \in 1..Len(tr[k].results) THEN tr[k].results[i].state ELSE "none"

AtWork(tr, w, k, i) == k = Len(tr) /\ i \in DOMAIN w

HasDone(tr, w, k, i) ==
    StateIn(tr, k, i) = "succeeded" \/ (AtWork(tr, w, k, i) /\ w[i] = "succeeded")

\* The results of a reply are those of its first calls, in their order.
WellAnswered(t) ==
    /\ Len(t.results) <= Len(t.calls)
    /\ \A n \in 1..Len(t.results) : t.results[n].call = n
    /\ t.performed \subseteq 1..Len(t.calls)

Entries(tr, r) ==
    \A k \in 1..Len(tr) :
        WellAnswered(tr[k]) /\ tr[k].run <= r /\ Len(tr[k].calls) <= ReplyLength

\* The reply in hand is the last entry, and its calls before the given one have
\* their results.
InHand(tr, r, asked, from) ==
    /\ tr # <<>> /\ tr[Len(tr)].run = r /\ tr[Len(tr)].calls = asked
    /\ from = Len(tr[Len(tr)].results) + 1

FullyAnswered(tr, r, K) ==
    \A k \in K : tr[k].run = r => Len(tr[k].results) = Len(tr[k].calls)

\* A guard that doubts the writes u knows every write in doubt.
DoubtsIn(tr, w, u) ==
    \A k \in 1..Len(tr) : \A i \in tr[k].performed :
        tr[k].calls[i] \in Writes =>
          IF AtWork(tr, w, k, i)
          THEN w[i] \in Startables /\ (w[i] = "unknown" => tr[k].calls[i] \in u)
          ELSE StateIn(tr, k, i) \notin {"none", "unknown"} \/ tr[k].calls[i] \in u

\* A guard that takes the writes d for done knows every write done in the run,
\* unless another has replaced its resource since.
Replaced(tr, w, k, i) ==
    \E m \in k..Len(tr) : \E x \in 1..Len(tr[m].calls) :
        /\ Later(k, i, m, x) /\ HasDone(tr, w, m, x)
        /\ Replaces(tr[m].calls[x], tr[k].calls[i])

DoneIn(tr, r, w, d) ==
    \A k \in 1..Len(tr) : \A i \in 1..Len(tr[k].calls) :
        tr[k].run = r /\ tr[k].calls[i] \in Writes /\ HasDone(tr, w, k, i) =>
            tr[k].calls[i] \in d \/ Replaced(tr, w, k, i)

\* NoBlindRepeat and NoEcho.
BlindIn(tr) ==
    \A k, n \in 1..Len(tr) : \A i \in tr[k].performed, j \in tr[n].performed :
        /\ Later(k, i, n, j) /\ tr[k].calls[i] = tr[n].calls[j] /\ tr[n].calls[j] \in Writes
        /\ StateIn(tr, k, i) \in {"none", "unknown"}
        => j \in tr[n].consented

ReplacedBefore(tr, k, i, n, j) ==
    \E m \in k..n : \E x \in 1..Len(tr[m].calls) :
        /\ Later(k, i, m, x) /\ Later(m, x, n, j) /\ StateIn(tr, m, x) = "succeeded"
        /\ Replaces(tr[m].calls[x], tr[n].calls[j])

EchoIn(tr, r) ==
    \A k, n \in 1..Len(tr) : \A i \in 1..Len(tr[k].calls), j \in tr[n].performed :
        /\ tr[k].run = r /\ Later(k, i, n, j)
        /\ tr[k].calls[i] = tr[n].calls[j] /\ tr[n].calls[j] \in Writes
        /\ StateIn(tr, k, i) = "succeeded"
        => j \in tr[n].consented \/ ReplacedBefore(tr, k, i, n, j)

\* What the tracker holds: the failures nothing has made good.
MadeGood(tr, k, i) ==
    \E n \in k..Len(tr) : \E j \in 1..Len(tr[n].calls) :
        /\ Later(k, i, n, j) /\ StateIn(tr, n, j) = "succeeded"
        /\ OperationOf(tr[n].calls[j]) = OperationOf(tr[k].calls[i])

Stands(tr, r, k, i) ==
    /\ tr[k].run = r /\ StateIn(tr, k, i) \in Errors
    /\ StateIn(tr, k, i) = "unknown" \/ ~MadeGood(tr, k, i)

FailureOf(tr, k, i) ==
    [call |-> <<k, i>>, operation |-> OperationOf(tr[k].calls[i]),
     unknown |-> StateIn(tr, k, i) = "unknown"]

FailuresStand(tr, r, failures) ==
    /\ \A f \in failures : \E k \in 1..Len(tr) : \E i \in 1..Len(tr[k].calls) :
         Stands(tr, r, k, i) /\ f = FailureOf(tr, k, i)
    /\ \A k \in 1..Len(tr) : \A i \in 1..Len(tr[k].calls) :
         Stands(tr, r, k, i) => FailureOf(tr, k, i) \in failures

GuardFits(g) ==
    /\ DOMAIN g = {"uncertain", "done", "latest", "failures", "blocked", "repeats", "forced"}
    /\ g.uncertain \subseteq Writes /\ g.done \subseteq Writes
    /\ g.latest \in [Resources -> Writes \cup {NoResource}]
    /\ \A f \in Resources : g.latest[f] \in Writes => ResourceOf[g.latest[f]] = f

HarnessShape ==
    /\ transcript \in Seq(EntryRecords) /\ runs \in Nat
    /\ phase \in {"idle", "turn", "model", "reply", "answered", "calls", "tools"}
    /\ phase = "idle" <=> outcome # "running"
    /\ count \in CountRecords /\ tracker \in TrackerRecords /\ GuardFits(guard)
    /\ reply \in [kind : Replies, calls : Seq(Ops), verdict : Verdicts]
    /\ reply.kind = "calls" <=> reply.calls # <<>>
    /\ reply.kind = "calls" => reply.verdict \in {"none", "final"}
    /\ Len(reply.calls) <= ReplyLength
    /\ phase \in {"idle", "turn", "model"} => reply.calls = <<>>
    /\ next \in Nat /\ (phase \notin {"calls", "tools"} => next = 1)
    /\ phase # "tools" => work = <<>>

\* The calls at work: a write by itself, or reads.
GroupFits ==
    phase = "tools" =>
      \E last \in next..Len(reply.calls) :
        /\ work \in [next..last -> WorkStates]
        /\ last = next \/ \A i \in next..last : reply.calls[i] \in Reads

\* The reply in hand asks for calls and is the last entry.
InReply == phase \in {"calls", "tools"} \/ (phase = "answered" /\ reply.kind = "calls")

ReplyFits ==
    InReply =>
      /\ reply.kind = "calls" /\ InHand(transcript, runs, reply.calls, next)
      /\ transcript[Len(transcript)].performed \subseteq 1..(next - 1) \cup DOMAIN work

\* But for the reply in hand, every reply of the run has all its results.
AllAnswered ==
    phase # "idle" \/ outcome \in {"completed", "budget"} =>
      FullyAnswered(transcript, runs,
                    {k \in 1..Len(transcript) : InReply => k # Len(transcript)})

\* A write that may start was neither in doubt nor done, or somebody agreed.
ClearedIsFree ==
    phase = "tools" =>
      \A i \in DOMAIN work : reply.calls[i] \in Writes =>
        /\ work[i] = "asking" => reply.calls[i] \notin guard.uncertain \cup guard.done
        /\ work[i] = "cleared" => \/ reply.calls[i] \notin guard.uncertain \cup guard.done
                                  \/ i \in transcript[Len(transcript)].consented

KnownToGuard ==
    phase # "idle" => /\ DoubtsIn(transcript, work, guard.uncertain)
                      /\ DoneIn(transcript, runs, work, guard.done)

KnownToTracker ==
    phase # "idle" \/ outcome = "completed" => FailuresStand(transcript, runs, tracker.failures)

HarnessInv ==
    /\ HarnessShape /\ GroupFits /\ Entries(transcript, runs) /\ ReplyFits /\ AllAnswered
    /\ KnownToGuard /\ ClearedIsFree /\ KnownToTracker
    /\ BlindIn(transcript) /\ EchoIn(transcript, runs)


\* The results s of the calls from..to, as they are written.
ResultsFor(more, from, to, s) ==
    /\ from \in Nat /\ to \in Nat /\ from <= to + 1 /\ s \in [from..to -> Results]
    /\ more \in [1..(to + 1 - from) -> ResultRecords]
    /\ \A n \in 1..(to + 1 - from) : more[n] = [call |-> from + n - 1, state |-> s[from + n - 1]]

\* The transcript tr2 is tr with the results s for the calls from..to of its
\* last reply.
AnsweredTo(tr, tr2, from, to, s) ==
    /\ tr2 \in Seq(EntryRecords) /\ Len(tr2) = Len(tr)
    /\ \A k \in 1..Len(tr) :
         /\ tr2[k].run = tr[k].run /\ tr2[k].calls = tr[k].calls
         /\ tr2[k].performed = tr[k].performed /\ tr2[k].consented = tr[k].consented
         /\ k # Len(tr) => tr2[k].results = tr[k].results
    /\ WellAnswered(tr2[Len(tr)]) /\ Len(tr2[Len(tr)].results) = to
    /\ \A k \in 1..Len(tr) : \A i \in 1..Len(tr[k].calls) :
         StateIn(tr2, k, i) = IF k = Len(tr) /\ i \in from..to THEN s[i] ELSE StateIn(tr, k, i)

-----------------------------------------------------------------------------
(* What answering does to a transcript.                                    *)

\* The results of the first calls, and the results s of the next.
LEMMA MoreResults ==
    ASSUME NEW old \in Seq(ResultRecords), NEW from, NEW to, NEW s, NEW more,
           ResultsFor(more, from, to, s), from = Len(old) + 1
    PROVE  /\ old \o more \in Seq(ResultRecords) /\ Len(old \o more) = to
           /\ \A n \in 1..to : (old \o more)[n] = IF n < from THEN old[n]
                                                  ELSE [call |-> n, state |-> s[n]]
<1>0. PICK res : res = old \o more
  OBVIOUS
<1>1. Len(old) \in Nat
  BY LenProperties
<1>2. from \in Nat /\ to \in Nat /\ to + 1 - from \in Nat
  BY DEF ResultsFor
<1>3. more \in [1..(to + 1 - from) -> ResultRecords]
  BY DEF ResultsFor
<1>4. \A n \in 1..(to + 1 - from) : more[n] = [call |-> from + n - 1, state |-> s[from + n - 1]]
  BY DEF ResultsFor
<1>5. more \in Seq(ResultRecords) /\ Len(more) = to + 1 - from
  <2> DEFINE size == to + 1 - from
  <2>1. size \in Nat /\ more \in [1..size -> ResultRecords]
    BY <1>2, <1>3
  <2>2. more \in Seq(ResultRecords) /\ Len(more) = size
    <3> HIDE DEF size
    <3> QED
      BY <2>1, FunctionIsSeq
  <2> QED
    BY <2>2
<1>7. /\ res \in Seq(ResultRecords) /\ Len(res) = Len(old) + Len(more)
      /\ \A n \in 1..Len(old) + Len(more) : res[n] = IF n <= Len(old) THEN old[n] ELSE more[n - Len(old)]
  <2>1. /\ old \o more \in Seq(ResultRecords) /\ Len(old \o more) = Len(old) + Len(more)
        /\ \A n \in 1..Len(old) + Len(more) :
             (old \o more)[n] = IF n <= Len(old) THEN old[n] ELSE more[n - Len(old)]
    BY <1>5, ConcatProperties, Zenon
  <2> QED
    BY <1>0, <2>1
<1>8. Len(old) + Len(more) = to
  BY <1>1, <1>2, <1>5
<1>9. ASSUME NEW n \in 1..to, ~(n < from) PROVE res[n] = [call |-> n, state |-> s[n]]
  <2>1. n - Len(old) \in 1..(to + 1 - from) /\ from + (n - Len(old)) - 1 = n
    BY <1>1, <1>2, <1>9
  <2>2. more[n - Len(old)] = [call |-> n, state |-> s[n]]
    BY <2>1, <1>4
  <2>3. ~(n <= Len(old)) /\ n \in 1..Len(old) + Len(more)
    BY <1>1, <1>2, <1>8, <1>9
  <2> QED
    BY <1>7, <2>2, <2>3
<1>10. ASSUME NEW n \in 1..to, n < from PROVE res[n] = old[n]
  <2>1. n <= Len(old) /\ n \in 1..Len(old) + Len(more)
    BY <1>1, <1>2, <1>8, <1>10
  <2> QED
    BY <1>7, <2>1
<1> QED
  BY <1>0, <1>7, <1>8, <1>9, <1>10

\* t2 is the reply t with the results s for the calls from..to.
EntryAnswered(t, t2, from, to, s) ==
    /\ t2 \in EntryRecords /\ WellAnswered(t2) /\ Len(t2.results) = to
    /\ t2.run = t.run /\ t2.calls = t.calls
    /\ t2.performed = t.performed /\ t2.consented = t.consented
    /\ from \in Nat /\ to \in Nat /\ from <= to + 1 /\ from = Len(t.results) + 1
    /\ \A n \in 1..to : t2.results[n] = IF n < from THEN t.results[n]
                                       ELSE [call |-> n, state |-> s[n]]

\* A reply with more results.
LEMMA EntryMore ==
    ASSUME NEW t \in EntryRecords, WellAnswered(t), NEW from, NEW to, NEW s, NEW more,
           ResultsFor(more, from, to, s), from = Len(t.results) + 1, to <= Len(t.calls), NEW t2,
           t2 = [t EXCEPT !.results = @ \o more]
    PROVE  EntryAnswered(t, t2, from, to, s)
<1>1. t.results \in Seq(ResultRecords) /\ t.calls \in Seq(Ops)
  BY DEF EntryRecords
<1>2. Len(t.results) \in Nat /\ Len(t.calls) \in Nat
  BY <1>1, LenProperties
<1>3. PICK res : res = t.results \o more
  OBVIOUS
<1>4. /\ res \in Seq(ResultRecords) /\ Len(res) = to
      /\ \A n \in 1..to : res[n] = IF n < from THEN t.results[n] ELSE [call |-> n, state |-> s[n]]
  BY <1>1, <1>3, MoreResults
<1>5. t2 = [t EXCEPT !.results = res]
  BY <1>3
<1>6. /\ t2 \in EntryRecords /\ t2.results = res /\ t2.run = t.run /\ t2.calls = t.calls
      /\ t2.performed = t.performed /\ t2.consented = t.consented
  BY <1>4, <1>5 DEF EntryRecords
<1>7. ASSUME NEW n \in 1..to PROVE res[n].call = n
  <2>1. CASE n < from
    <3>1. n \in 1..Len(t.results)
      BY <1>2, <2>1 DEF ResultsFor
    <3>2. t.results[n].call = n
      BY <3>1 DEF WellAnswered
    <3> QED
      BY <1>4, <2>1, <3>2
  <2>2. CASE ~(n < from)
    BY <1>4, <2>2
  <2> QED
    BY <2>1, <2>2
<1>8. WellAnswered(t2)
  BY <1>4, <1>6, <1>7 DEF WellAnswered
<1>9. \A n \in 1..to : t2.results[n] = IF n < from THEN t.results[n]
                                       ELSE [call |-> n, state |-> s[n]]
  BY <1>4, <1>6
<1>10. from \in Nat /\ to \in Nat /\ from <= to + 1
  BY DEF ResultsFor
<1> QED
  BY <1>4, <1>6, <1>8, <1>9, <1>10 DEF EntryAnswered

LEMMA LastAnswered ==
    ASSUME NEW tr \in Seq(EntryRecords), tr # <<>>, NEW t, t = tr[Len(tr)],
           NEW t2, NEW from, NEW to, NEW s, EntryAnswered(t, t2, from, to, s),
           NEW tr2, tr2 = [tr EXCEPT ![Len(tr)] = t2]
    PROVE  AnsweredTo(tr, tr2, from, to, s)
<1>1. PICK last : last = Len(tr)
  OBVIOUS
<1>2. t = tr[last] /\ t2 \in EntryRecords
  BY <1>1 DEF EntryAnswered
<1>3. last \in Nat /\ last \in 1..last /\ tr \in [1..last -> EntryRecords]
  BY <1>1, EmptySeq, LenProperties
<1>4. t \in EntryRecords
  BY <1>2, <1>3
<1>5. t.results \in Seq(ResultRecords) /\ t.calls \in Seq(Ops)
  BY <1>4 DEF EntryRecords
<1>6. Len(t.results) \in Nat /\ Len(t.calls) \in Nat
  BY <1>5, LenProperties
<1>7. /\ tr2 \in [1..last -> EntryRecords]
      /\ \A k \in 1..last : tr2[k] = IF k = last THEN t2 ELSE tr[k]
  BY <1>1, <1>2, <1>3
<1>8. tr2 \in Seq(EntryRecords) /\ Len(tr2) = last
  BY <1>3, <1>7, FunctionIsSeq
<1>9. /\ from \in Nat /\ to \in Nat /\ from = Len(t.results) + 1 /\ from <= to + 1
      /\ Len(t2.results) = to
      /\ \A n \in 1..to : t2.results[n] = IF n < from THEN t.results[n]
                                         ELSE [call |-> n, state |-> s[n]]
  BY DEF EntryAnswered
<1>10. ASSUME NEW k \in 1..last, NEW i \in 1..Len(tr[k].calls)
       PROVE  StateIn(tr2, k, i) = IF k = last /\ i \in from..to THEN s[i] ELSE StateIn(tr, k, i)
  <2>1. CASE k # last
    BY <1>7, <2>1 DEF StateIn
  <2>2. CASE k = last
    <3>1. tr2[k] = t2 /\ tr[k] = t
      BY <1>2, <1>7, <2>2
    <3>2. i \in Nat /\ 1 <= i
      BY <1>6, <3>1
    <3>3. CASE i \in from..to
      <4>1. i \in 1..to /\ ~(i < from)
        BY <1>9, <3>2, <3>3
      <4>2. t2.results[i] = [call |-> i, state |-> s[i]]
        BY <1>9, <4>1
      <4> QED
        BY <1>9, <2>2, <3>1, <3>3, <4>1, <4>2 DEF StateIn
    <3>4. CASE i < from
      <4>1. i \in 1..Len(t2.results) /\ i \in 1..Len(t.results) /\ i \notin from..to
        BY <1>6, <1>9, <3>2, <3>4
      <4>2. t2.results[i] = t.results[i]
        BY <1>9, <3>4, <4>1
      <4> QED
        BY <2>2, <3>1, <4>1, <4>2 DEF StateIn
    <3>5. CASE to < i
      <4>1. i \notin 1..Len(t2.results) /\ i \notin 1..Len(t.results) /\ i \notin from..to
        BY <1>6, <1>9, <3>2, <3>5
      <4> QED
        BY <2>2, <3>1, <4>1 DEF StateIn
    <3> QED
      BY <1>9, <3>2, <3>3, <3>4, <3>5
  <2> QED
    BY <2>1, <2>2
<1>11. WellAnswered(tr2[last]) /\ Len(tr2[last].results) = to
  BY <1>3, <1>7 DEF EntryAnswered
<1>12. ASSUME NEW k \in 1..last
       PROVE  /\ tr2[k].run = tr[k].run /\ tr2[k].calls = tr[k].calls
              /\ tr2[k].performed = tr[k].performed /\ tr2[k].consented = tr[k].consented
              /\ k # last => tr2[k].results = tr[k].results
  <2>1. CASE k = last
    BY <1>2, <1>7, <2>1 DEF EntryAnswered
  <2>2. CASE k # last
    BY <1>7, <2>2
  <2> QED
    BY <2>1, <2>2
<1> QED
  <2>1. \A k \in 1..Len(tr) : \A i \in 1..Len(tr[k].calls) :
          StateIn(tr2, k, i) = IF k = Len(tr) /\ i \in from..to THEN s[i] ELSE StateIn(tr, k, i)
    BY <1>1, <1>10, Zenon
  <2>2. WellAnswered(tr2[Len(tr)]) /\ Len(tr2[Len(tr)].results) = to
    BY <1>1, <1>11, Zenon
  <2>3. \A k \in 1..Len(tr) :
          /\ tr2[k].run = tr[k].run /\ tr2[k].calls = tr[k].calls
          /\ tr2[k].performed = tr[k].performed /\ tr2[k].consented = tr[k].consented
          /\ k # Len(tr) => tr2[k].results = tr[k].results
    BY <1>1, <1>12, Zenon
  <2> QED
    BY <1>1, <1>8, <2>1, <2>2, <2>3 DEF AnsweredTo

LEMMA AnsweringIs ==
    ASSUME NEW tr \in Seq(EntryRecords), tr # <<>>, WellAnswered(tr[Len(tr)]),
           NEW from, NEW to, NEW s, NEW more, ResultsFor(more, from, to, s),
           from = Len(tr[Len(tr)].results) + 1, to <= Len(tr[Len(tr)].calls), NEW tr2, tr2 = [tr EXCEPT ![Len(tr)].results = @ \o more]
    PROVE  AnsweredTo(tr, tr2, from, to, s)
<1>1. PICK t : t = tr[Len(tr)]
  OBVIOUS
<1>2. Len(tr) \in 1..Len(tr) /\ tr \in [1..Len(tr) -> EntryRecords]
  BY EmptySeq, LenProperties
<1>3. t \in EntryRecords
  BY <1>1, <1>2
<1>4. PICK t2 : t2 = [t EXCEPT !.results = @ \o more]
  OBVIOUS
<1>5. tr2 = [tr EXCEPT ![Len(tr)] = t2]
  BY <1>1, <1>2, <1>4
<1>6. EntryAnswered(t, t2, from, to, s)
  BY <1>1, <1>3, <1>4, EntryMore
<1> QED
  BY <1>1, <1>5, <1>6, LastAnswered


\* A transcript whose writes are in order, and what the guard knows of it.
Known(tr, r, w, u, d) ==
    /\ tr \in Seq(EntryRecords) /\ r \in Nat
    /\ Entries(tr, r) /\ BlindIn(tr) /\ EchoIn(tr, r)
    /\ DoubtsIn(tr, w, u) /\ DoneIn(tr, r, w, d)

\* A result that is there stays.
LEMMA ResultsStay ==
    ASSUME NEW tr \in Seq(EntryRecords), tr # <<>>,
           NEW tr2, NEW from, NEW to, NEW s, AnsweredTo(tr, tr2, from, to, s),
           from = Len(tr[Len(tr)].results) + 1,
           NEW k \in 1..Len(tr), NEW i \in 1..Len(tr[k].calls), StateIn(tr, k, i) # "none"
    PROVE  StateIn(tr2, k, i) = StateIn(tr, k, i)
<1>1. Len(tr) \in 1..Len(tr) /\ tr \in [1..Len(tr) -> EntryRecords]
  BY EmptySeq, LenProperties
<1>2. tr[Len(tr)].results \in Seq(ResultRecords)
  BY <1>1 DEF EntryRecords
<1>3. Len(tr[Len(tr)].results) \in Nat
  BY <1>2, LenProperties
<1>4. k = Len(tr) => i \notin from..to
  BY <1>3 DEF StateIn
<1> QED
  BY <1>4 DEF AnsweredTo

\* More results for the last reply keep what holds of the writes: no write of it
\* was started after a call that has its result only now.
Answerable(tr, r, from, to) ==
    /\ tr \in Seq(EntryRecords) /\ tr # <<>> /\ r \in Nat /\ Entries(tr, r)
    /\ from = Len(tr[Len(tr)].results) + 1
    /\ \A j \in tr[Len(tr)].performed, i \in from..to :
          j <= i \/ tr[Len(tr)].calls[j] \notin Writes
    /\ BlindIn(tr) /\ EchoIn(tr, r)

LEMMA AnsweredKeeps ==
    ASSUME NEW tr, NEW r, NEW tr2, NEW from, NEW to, NEW s, AnsweredTo(tr, tr2, from, to, s),
           Answerable(tr, r, from, to)
    PROVE  Entries(tr2, r) /\ BlindIn(tr2) /\ EchoIn(tr2, r)
<1>0. /\ tr \in Seq(EntryRecords) /\ tr # <<>> /\ r \in Nat /\ Entries(tr, r)
      /\ from = Len(tr[Len(tr)].results) + 1
      /\ \A j \in tr[Len(tr)].performed, i \in from..to :
            j <= i \/ tr[Len(tr)].calls[j] \notin Writes
      /\ BlindIn(tr) /\ EchoIn(tr, r)
  BY DEF Answerable
<1> USE <1>0
<1>1. /\ Len(tr2) = Len(tr)
      /\ \A k \in 1..Len(tr) :
           /\ tr2[k].run = tr[k].run /\ tr2[k].calls = tr[k].calls
           /\ tr2[k].performed = tr[k].performed /\ tr2[k].consented = tr[k].consented
           /\ k # Len(tr) => tr2[k].results = tr[k].results
  BY DEF AnsweredTo
<1>2. \A k \in 1..Len(tr) : tr[k].performed \subseteq 1..Len(tr[k].calls)
  BY DEF Entries, WellAnswered
<1>3. Entries(tr2, r)
  <2>1. ASSUME NEW k \in 1..Len(tr) PROVE WellAnswered(tr2[k])
    <3>1. CASE k = Len(tr)
      BY <3>1 DEF AnsweredTo
    <3>2. CASE k # Len(tr)
      BY <1>1, <3>2 DEF Entries, WellAnswered
    <3> QED
      BY <3>1, <3>2
  <2> QED
    BY <1>1, <2>1 DEF Entries
<1>4. BlindIn(tr2)
  <2> SUFFICES ASSUME NEW k \in 1..Len(tr2), NEW n \in 1..Len(tr2),
                      NEW i \in tr2[k].performed, NEW j \in tr2[n].performed,
                      Later(k, i, n, j), tr2[k].calls[i] = tr2[n].calls[j],
                      tr2[n].calls[j] \in Writes, StateIn(tr2, k, i) \in {"none", "unknown"}
               PROVE  j \in tr2[n].consented
    BY DEF BlindIn
  <2>1. /\ k \in 1..Len(tr) /\ n \in 1..Len(tr) /\ i \in tr[k].performed /\ j \in tr[n].performed
        /\ tr[k].calls[i] = tr[n].calls[j] /\ tr[n].calls[j] \in Writes
        /\ tr2[n].consented = tr[n].consented
    BY <1>1
  <2>2. StateIn(tr, k, i) \in {"none", "unknown"}
    <3>1. i \in 1..Len(tr[k].calls)
      BY <1>2, <2>1
    <3>2. ASSUME StateIn(tr, k, i) # "none" PROVE StateIn(tr2, k, i) = StateIn(tr, k, i)
      BY <2>1, <3>1, <3>2, ResultsStay
    <3> QED
      BY <3>2
  <2> QED
    BY <2>1, <2>2 DEF BlindIn
<1>5. EchoIn(tr2, r)
  <2> SUFFICES ASSUME NEW k \in 1..Len(tr2), NEW n \in 1..Len(tr2),
                      NEW i \in 1..Len(tr2[k].calls), NEW j \in tr2[n].performed,
                      tr2[k].run = r, Later(k, i, n, j), tr2[k].calls[i] = tr2[n].calls[j],
                      tr2[n].calls[j] \in Writes, StateIn(tr2, k, i) = "succeeded"
               PROVE  j \in tr2[n].consented \/ ReplacedBefore(tr2, k, i, n, j)
    BY DEF EchoIn
  <2>1. /\ k \in 1..Len(tr) /\ n \in 1..Len(tr)
        /\ i \in 1..Len(tr[k].calls) /\ j \in tr[n].performed
        /\ tr[k].run = r /\ tr[k].calls[i] = tr[n].calls[j] /\ tr[n].calls[j] \in Writes
        /\ tr2[n].consented = tr[n].consented
    BY <1>1
  <2>2. j \in 1..Len(tr[n].calls) /\ Len(tr) \in Nat
    BY <1>2, <2>1, LenProperties
  <2>3. ~(k = Len(tr) /\ i \in from..to)
    <3> SUFFICES ASSUME k = Len(tr), i \in from..to PROVE FALSE
      OBVIOUS
    <3>1. n = k /\ j > i
      BY <2>1, <2>2 DEF Later
    <3>2. tr[n].calls[j] \notin Writes
      <4>1. tr[Len(tr)].calls = tr[Len(tr)].calls /\ Len(tr[Len(tr)].calls) \in Nat
        <5>1. Len(tr) \in 1..Len(tr) /\ tr \in [1..Len(tr) -> EntryRecords]
          BY EmptySeq, LenProperties
        <5>2. tr[Len(tr)].calls \in Seq(Ops)
          BY <5>1 DEF EntryRecords
        <5> QED
          BY <5>2, LenProperties
      <4>2. j \in Nat /\ i \in Nat
        BY <2>1, <2>2, <3>1, <4>1
      <4>3. ~(j <= i)
        BY <3>1, <4>2
      <4> QED
        BY <2>1, <3>1, <4>3
    <3> QED
      BY <2>1, <3>2
  <2>4. StateIn(tr, k, i) = "succeeded"
    BY <2>1, <2>3 DEF AnsweredTo
  <2>5. j \in tr[n].consented \/ ReplacedBefore(tr, k, i, n, j)
    BY <2>1, <2>4 DEF EchoIn
  <2>6. ASSUME ReplacedBefore(tr, k, i, n, j) PROVE ReplacedBefore(tr2, k, i, n, j)
    <3>1. PICK m \in k..n : \E x \in 1..Len(tr[m].calls) :
            /\ Later(k, i, m, x) /\ Later(m, x, n, j) /\ StateIn(tr, m, x) = "succeeded"
            /\ Replaces(tr[m].calls[x], tr[n].calls[j])
      BY <2>6 DEF ReplacedBefore
    <3>2. PICK x \in 1..Len(tr[m].calls) :
            /\ Later(k, i, m, x) /\ Later(m, x, n, j) /\ StateIn(tr, m, x) = "succeeded"
            /\ Replaces(tr[m].calls[x], tr[n].calls[j])
      BY <3>1
    <3>3. m \in 1..Len(tr)
      BY <2>1, <2>2
    <3>4. StateIn(tr2, m, x) = "succeeded"
      BY <3>2, <3>3, ResultsStay
    <3>5. x \in 1..Len(tr2[m].calls) /\ Replaces(tr2[m].calls[x], tr2[n].calls[j])
      BY <1>1, <2>1, <3>2, <3>3
    <3> QED
      BY <3>2, <3>4, <3>5 DEF ReplacedBefore
  <2> QED
    BY <2>1, <2>5, <2>6
<1> QED
  BY <1>3, <1>4, <1>5

\* What is known to be done stays known while no other call is done.
LEMMA SameDone ==
    ASSUME NEW tr, NEW tr2, Len(tr2) = Len(tr), Len(tr) \in Nat, NEW r, NEW w, NEW w2, NEW d,
           \A k \in 1..Len(tr) : tr2[k].run = tr[k].run /\ tr2[k].calls = tr[k].calls,
           \A k \in 1..Len(tr) : \A i \in 1..Len(tr[k].calls) :
               HasDone(tr2, w2, k, i) <=> HasDone(tr, w, k, i),
           DoneIn(tr, r, w, d)
    PROVE  DoneIn(tr2, r, w2, d)
<1> SUFFICES ASSUME NEW k \in 1..Len(tr), NEW i \in 1..Len(tr[k].calls),
                    tr2[k].run = r, tr2[k].calls[i] \in Writes, HasDone(tr2, w2, k, i),
                    tr2[k].calls[i] \notin d
             PROVE  Replaced(tr2, w2, k, i)
  BY DEF DoneIn
<1>1. Replaced(tr, w, k, i)
  BY DEF DoneIn
<1>2. PICK m \in k..Len(tr) : \E x \in 1..Len(tr[m].calls) :
        /\ Later(k, i, m, x) /\ HasDone(tr, w, m, x)
        /\ Replaces(tr[m].calls[x], tr[k].calls[i])
  BY <1>1 DEF Replaced
<1>3. PICK x \in 1..Len(tr[m].calls) :
        /\ Later(k, i, m, x) /\ HasDone(tr, w, m, x)
        /\ Replaces(tr[m].calls[x], tr[k].calls[i])
  BY <1>2
<1>4. m \in 1..Len(tr)
  OBVIOUS
<1>5. /\ x \in 1..Len(tr2[m].calls) /\ HasDone(tr2, w2, m, x)
      /\ Replaces(tr2[m].calls[x], tr2[k].calls[i]) /\ m \in k..Len(tr2)
  BY <1>3, <1>4
<1> QED
  BY <1>3, <1>5 DEF Replaced

\* When the results of the group at work are written, what the guard knows of
\* the calls at work it knows of their results.
Recordable(tr, r, w, u, d, from, to) ==
    /\ Known(tr, r, w, u, d) /\ tr # <<>>
    /\ from \in Nat /\ to \in Nat /\ w \in [from..to -> Results]
    /\ from = Len(tr[Len(tr)].results) + 1

LEMMA RecordedKnown ==
    ASSUME NEW tr, NEW r, NEW w, NEW u, NEW d, NEW from, NEW to, Recordable(tr, r, w, u, d, from, to),
           NEW tr2, AnsweredTo(tr, tr2, from, to, w)
    PROVE  DoubtsIn(tr2, <<>>, u) /\ DoneIn(tr2, r, <<>>, d)
<1>00. /\ tr \in Seq(EntryRecords) /\ tr # <<>> /\ r \in Nat /\ Entries(tr, r)
       /\ from \in Nat /\ to \in Nat /\ w \in [from..to -> Results]
       /\ from = Len(tr[Len(tr)].results) + 1
       /\ DoubtsIn(tr, w, u) /\ DoneIn(tr, r, w, d)
  BY DEF Recordable, Known
<1> USE <1>00
<1>1. /\ Len(tr2) = Len(tr)
      /\ \A k \in 1..Len(tr) :
           /\ tr2[k].run = tr[k].run /\ tr2[k].calls = tr[k].calls
           /\ tr2[k].performed = tr[k].performed
      /\ \A k \in 1..Len(tr) : \A i \in 1..Len(tr[k].calls) :
           StateIn(tr2, k, i) = IF k = Len(tr) /\ i \in from..to THEN w[i] ELSE StateIn(tr, k, i)
  BY DEF AnsweredTo
<1>2. \A k \in 1..Len(tr) : tr[k].performed \subseteq 1..Len(tr[k].calls)
  BY DEF Entries, WellAnswered
<1>3. DOMAIN w = from..to
  OBVIOUS
<1>4. \A k, i : ~AtWork(tr2, <<>>, k, i)
  BY DEF AtWork
<1>5. DoubtsIn(tr2, <<>>, u)
  <2> SUFFICES ASSUME NEW k \in 1..Len(tr2), NEW i \in tr2[k].performed, tr2[k].calls[i] \in Writes
               PROVE  StateIn(tr2, k, i) \notin {"none", "unknown"} \/ tr2[k].calls[i] \in u
    BY <1>4 DEF DoubtsIn
  <2>1. /\ k \in 1..Len(tr) /\ i \in tr[k].performed /\ i \in 1..Len(tr[k].calls)
        /\ tr[k].calls[i] = tr2[k].calls[i] /\ tr[k].calls[i] \in Writes
    BY <1>1, <1>2
  <2>2. CASE AtWork(tr, w, k, i)
    <3>1. k = Len(tr) /\ i \in from..to
      BY <1>3, <2>2 DEF AtWork
    <3>2. StateIn(tr2, k, i) = w[i] /\ w[i] \in Results
      BY <1>1, <2>1, <3>1
    <3>3. w[i] = "unknown" => tr[k].calls[i] \in u
      BY <2>1, <2>2 DEF DoubtsIn
    <3> QED
      BY <2>1, <3>2, <3>3 DEF Results, Errors
  <2>3. CASE ~AtWork(tr, w, k, i)
    <3>1. ~(k = Len(tr) /\ i \in from..to)
      BY <1>3, <2>3 DEF AtWork
    <3>2. StateIn(tr2, k, i) = StateIn(tr, k, i)
      BY <1>1, <2>1, <3>1
    <3> QED
      BY <2>1, <2>3, <3>2 DEF DoubtsIn
  <2> QED
    BY <2>2, <2>3
<1>6. ASSUME NEW k \in 1..Len(tr), NEW i \in 1..Len(tr[k].calls)
      PROVE  HasDone(tr2, <<>>, k, i) <=> HasDone(tr, w, k, i)
  <2>1. CASE k = Len(tr) /\ i \in from..to
    <3>1. StateIn(tr2, k, i) = w[i] /\ AtWork(tr, w, k, i)
      BY <1>1, <1>3, <2>1 DEF AtWork
    <3>2. StateIn(tr, k, i) = "none"
      <4>1. Len(tr) \in 1..Len(tr) /\ tr \in [1..Len(tr) -> EntryRecords]
        BY EmptySeq, LenProperties
      <4>2. tr[Len(tr)].results \in Seq(ResultRecords)
        BY <4>1 DEF EntryRecords
      <4>3. Len(tr[Len(tr)].results) \in Nat
        BY <4>2, LenProperties
      <4> QED
        BY <2>1, <4>3 DEF StateIn
    <3> QED
      BY <1>4, <3>1, <3>2 DEF HasDone
  <2>2. CASE ~(k = Len(tr) /\ i \in from..to)
    <3>1. StateIn(tr2, k, i) = StateIn(tr, k, i) /\ ~AtWork(tr, w, k, i)
      BY <1>1, <1>3, <2>2 DEF AtWork
    <3> QED
      BY <1>4, <3>1 DEF HasDone
  <2> QED
    BY <2>1, <2>2
<1>7. DoneIn(tr2, r, <<>>, d)
  BY <1>1, <1>6, LenProperties, SameDone
<1> QED
  BY <1>5, <1>7


-----------------------------------------------------------------------------
(* A reply is added.                                                       *)

BlankReply(e, r) ==
    /\ e \in EntryRecords /\ e.results = <<>> /\ e.performed = {} /\ e.run = r
    /\ Len(e.calls) <= ReplyLength

LEMMA AddedKeeps ==
    ASSUME NEW tr, NEW r, NEW u, NEW d, Known(tr, r, <<>>, u, d),
           NEW e, BlankReply(e, r), NEW tr2, tr2 = Append(tr, e)
    PROVE  /\ Entries(tr2, r) /\ BlindIn(tr2) /\ EchoIn(tr2, r)
           /\ DoubtsIn(tr2, <<>>, u) /\ DoneIn(tr2, r, <<>>, d)
<1>0. /\ tr \in Seq(EntryRecords) /\ r \in Nat
      /\ Entries(tr, r) /\ BlindIn(tr) /\ EchoIn(tr, r)
      /\ DoubtsIn(tr, <<>>, u) /\ DoneIn(tr, r, <<>>, d)
  BY DEF Known
<1>01. /\ e \in EntryRecords /\ e.results = <<>> /\ e.performed = {} /\ e.run = r
       /\ Len(e.calls) <= ReplyLength
  BY DEF BlankReply
<1> USE <1>0, <1>01
<1>1. /\ tr2 \in Seq(EntryRecords) /\ Len(tr) \in Nat /\ Len(tr2) = Len(tr) + 1
      /\ \A k \in 1..Len(tr) : tr2[k] = tr[k]
      /\ tr2[Len(tr) + 1] = e
  BY AppendProperties, LenProperties
<1>2. \A k \in 1..Len(tr2) : k \in 1..Len(tr) \/ tr2[k] = e
  BY <1>1
<1>3. \A k \in 1..Len(tr) : \A i : StateIn(tr2, k, i) = StateIn(tr, k, i)
  BY <1>1 DEF StateIn
<1>4. \A k \in 1..Len(tr2) : \A i : k \notin 1..Len(tr) => StateIn(tr2, k, i) = "none"
  <2>1. Len(e.results) = 0
    BY EmptySeq
  <2> QED
    BY <1>2, <2>1 DEF StateIn
<1>5. \A k, i : ~AtWork(tr, <<>>, k, i) /\ ~AtWork(tr2, <<>>, k, i)
  BY DEF AtWork
<1>6. Entries(tr2, r)
  <2>1. WellAnswered(e)
    <3>1. Len(e.results) = 0 /\ e.calls \in Seq(Ops)
      BY EmptySeq DEF EntryRecords
    <3>2. Len(e.calls) \in Nat
      BY <3>1, LenProperties
    <3> QED
      BY <3>1, <3>2 DEF WellAnswered
  <2> QED
    BY <1>1, <1>2, <2>1 DEF Entries
<1>7. BlindIn(tr2)
  <2> SUFFICES ASSUME NEW k \in 1..Len(tr2), NEW n \in 1..Len(tr2),
                      NEW i \in tr2[k].performed, NEW j \in tr2[n].performed,
                      Later(k, i, n, j), tr2[k].calls[i] = tr2[n].calls[j],
                      tr2[n].calls[j] \in Writes, StateIn(tr2, k, i) \in {"none", "unknown"}
               PROVE  j \in tr2[n].consented
    BY DEF BlindIn
  <2>1. k \in 1..Len(tr) /\ n \in 1..Len(tr)
    BY <1>2
  <2>2. tr2[k] = tr[k] /\ tr2[n] = tr[n] /\ StateIn(tr2, k, i) = StateIn(tr, k, i)
    BY <1>1, <1>3, <2>1
  <2> QED
    BY <2>1, <2>2 DEF BlindIn
<1>8. EchoIn(tr2, r)
  <2> SUFFICES ASSUME NEW k \in 1..Len(tr2), NEW n \in 1..Len(tr2),
                      NEW i \in 1..Len(tr2[k].calls), NEW j \in tr2[n].performed,
                      tr2[k].run = r, Later(k, i, n, j), tr2[k].calls[i] = tr2[n].calls[j],
                      tr2[n].calls[j] \in Writes, StateIn(tr2, k, i) = "succeeded",
                      j \notin tr2[n].consented
               PROVE  ReplacedBefore(tr2, k, i, n, j)
    BY DEF EchoIn
  <2>1. k \in 1..Len(tr) /\ n \in 1..Len(tr)
    BY <1>2, <1>4
  <2>2. tr2[k] = tr[k] /\ tr2[n] = tr[n] /\ StateIn(tr2, k, i) = StateIn(tr, k, i)
    BY <1>1, <1>3, <2>1
  <2>3. ReplacedBefore(tr, k, i, n, j)
    BY <2>1, <2>2 DEF EchoIn
  <2>4. \A m \in k..n : m \in 1..Len(tr)
    BY <1>1, <2>1
  <2>5. \A m \in k..n : \A x : tr2[m] = tr[m] /\ StateIn(tr2, m, x) = StateIn(tr, m, x)
    BY <1>1, <1>3, <2>4
  <2> QED
    BY <2>2, <2>3, <2>5 DEF ReplacedBefore
<1>9. DoubtsIn(tr2, <<>>, u)
  <2> SUFFICES ASSUME NEW k \in 1..Len(tr2), NEW i \in tr2[k].performed, tr2[k].calls[i] \in Writes
               PROVE  StateIn(tr2, k, i) \notin {"none", "unknown"} \/ tr2[k].calls[i] \in u
    BY <1>5 DEF DoubtsIn
  <2>1. k \in 1..Len(tr)
    BY <1>2
  <2>2. tr2[k] = tr[k] /\ StateIn(tr2, k, i) = StateIn(tr, k, i)
    BY <1>1, <1>3, <2>1
  <2> QED
    BY <1>5, <2>1, <2>2 DEF DoubtsIn
<1>10. DoneIn(tr2, r, <<>>, d)
  <2> SUFFICES ASSUME NEW k \in 1..Len(tr2), NEW i \in 1..Len(tr2[k].calls),
                      tr2[k].run = r, tr2[k].calls[i] \in Writes, HasDone(tr2, <<>>, k, i),
                      tr2[k].calls[i] \notin d
               PROVE  Replaced(tr2, <<>>, k, i)
    BY DEF DoneIn
  <2>1. k \in 1..Len(tr)
    BY <1>4, <1>5 DEF HasDone
  <2>2. \A m \in 1..Len(tr) : \A x :
          tr2[m] = tr[m] /\ (HasDone(tr2, <<>>, m, x) <=> HasDone(tr, <<>>, m, x))
    BY <1>1, <1>3, <1>5 DEF HasDone
  <2>3. Replaced(tr, <<>>, k, i)
    BY <2>1, <2>2 DEF DoneIn
  <2>4. PICK m \in k..Len(tr) : \E x \in 1..Len(tr[m].calls) :
          /\ Later(k, i, m, x) /\ HasDone(tr, <<>>, m, x)
          /\ Replaces(tr[m].calls[x], tr[k].calls[i])
    BY <2>3 DEF Replaced
  <2>5. m \in 1..Len(tr) /\ m \in k..Len(tr2)
    BY <1>1, <2>1
  <2> QED
    BY <2>1, <2>2, <2>4, <2>5 DEF Replaced
<1> QED
  BY <1>6, <1>7, <1>8, <1>9, <1>10

\* The failures of a transcript are told by its runs, calls and states.
LEMMA SameFailures ==
    ASSUME NEW tr, NEW tr2, Len(tr2) = Len(tr), Len(tr) \in Nat, NEW r, NEW failures,
           \A k \in 1..Len(tr) : tr2[k].run = tr[k].run /\ tr2[k].calls = tr[k].calls,
           \A k \in 1..Len(tr) : \A i \in 1..Len(tr[k].calls) : StateIn(tr2, k, i) = StateIn(tr, k, i),
           FailuresStand(tr, r, failures)
    PROVE  FailuresStand(tr2, r, failures)
<1>1. ASSUME NEW k \in 1..Len(tr), NEW i \in 1..Len(tr[k].calls)
      PROVE  /\ Stands(tr2, r, k, i) <=> Stands(tr, r, k, i)
             /\ FailureOf(tr2, k, i) = FailureOf(tr, k, i)
  <2>1. \A n \in k..Len(tr) : n \in 1..Len(tr)
    OBVIOUS
  <2>2. MadeGood(tr2, k, i) <=> MadeGood(tr, k, i)
    BY <2>1 DEF MadeGood
  <2> QED
    BY <2>2 DEF Stands, FailureOf
<1> QED
  BY <1>1 DEF FailuresStand

LEMMA AddedFailures ==
    ASSUME NEW tr \in Seq(EntryRecords), NEW r, NEW failures, FailuresStand(tr, r, failures),
           NEW e \in EntryRecords, e.results = <<>>, NEW tr2, tr2 = Append(tr, e)
    PROVE  FailuresStand(tr2, r, failures)
<1>1. /\ tr2 \in Seq(EntryRecords) /\ Len(tr) \in Nat /\ Len(tr2) = Len(tr) + 1
      /\ \A k \in 1..Len(tr) : tr2[k] = tr[k]
      /\ tr2[Len(tr) + 1] = e
  BY AppendProperties, LenProperties
<1>2. \A k \in 1..Len(tr) : \A i : StateIn(tr2, k, i) = StateIn(tr, k, i)
  BY <1>1 DEF StateIn
<1>3. \A k \in 1..Len(tr2) : \A i : k \notin 1..Len(tr) => StateIn(tr2, k, i) = "none"
  <2>1. Len(e.results) = 0
    BY EmptySeq
  <2>2. \A k \in 1..Len(tr2) : k \in 1..Len(tr) \/ tr2[k] = e
    BY <1>1
  <2> QED
    BY <2>1, <2>2 DEF StateIn
<1>4. ASSUME NEW k \in 1..Len(tr), NEW i \in 1..Len(tr[k].calls)
      PROVE  /\ Stands(tr2, r, k, i) <=> Stands(tr, r, k, i)
             /\ FailureOf(tr2, k, i) = FailureOf(tr, k, i)
  <2>1. MadeGood(tr2, k, i) <=> MadeGood(tr, k, i)
    <3>1. ASSUME MadeGood(tr, k, i) PROVE MadeGood(tr2, k, i)
      <4>1. \A n \in k..Len(tr) : n \in 1..Len(tr) /\ n \in k..Len(tr2)
        BY <1>1
      <4> QED
        BY <1>1, <1>2, <3>1, <4>1 DEF MadeGood
    <3>2. ASSUME MadeGood(tr2, k, i) PROVE MadeGood(tr, k, i)
      <4>1. PICK n \in k..Len(tr2) : \E j \in 1..Len(tr2[n].calls) :
              /\ Later(k, i, n, j) /\ StateIn(tr2, n, j) = "succeeded"
              /\ OperationOf(tr2[n].calls[j]) = OperationOf(tr2[k].calls[i])
        BY <3>2 DEF MadeGood
      <4>2. n \in 1..Len(tr2)
        BY <1>1
      <4>3. n \in 1..Len(tr) /\ n \in k..Len(tr)
        BY <1>1, <1>3, <4>1, <4>2
      <4> QED
        BY <1>1, <1>2, <4>1, <4>3 DEF MadeGood
    <3> QED
      BY <3>1, <3>2
  <2> QED
    BY <1>1, <1>2, <2>1 DEF Stands, FailureOf
<1>5. \A k \in 1..Len(tr2) : \A i : Stands(tr2, r, k, i) => k \in 1..Len(tr)
  BY <1>3 DEF Stands, Errors
<1>6. \A k \in 1..Len(tr) : k \in 1..Len(tr2)
  BY <1>1
<1>7. ASSUME NEW f \in failures
      PROVE  \E k \in 1..Len(tr2) : \E i \in 1..Len(tr2[k].calls) :
               Stands(tr2, r, k, i) /\ f = FailureOf(tr2, k, i)
  BY <1>1, <1>4, <1>6 DEF FailuresStand
<1>8. ASSUME NEW k \in 1..Len(tr2), NEW i \in 1..Len(tr2[k].calls), Stands(tr2, r, k, i)
      PROVE  FailureOf(tr2, k, i) \in failures
  <2>1. k \in 1..Len(tr)
    BY <1>5, <1>8
  <2> QED
    BY <1>1, <1>4, <1>8, <2>1 DEF FailuresStand
<1> QED
  BY <1>7, <1>8 DEF FailuresStand


-----------------------------------------------------------------------------
(* What the tracker makes of the next result.                              *)

LEMMA OneTracked ==
    ASSUME NEW tr \in Seq(EntryRecords), tr # <<>>, NEW r, tr[Len(tr)].run = r,
           tr[Len(tr)].calls = reply.calls,
           NEW j, j = Len(tr[Len(tr)].results) + 1, j \in 1..Len(tr[Len(tr)].calls),
           NEW s, s[j] \in Results, NEW tr2, AnsweredTo(tr, tr2, j, j, s),
           NEW t \in TrackerRecords, FailuresStand(tr, r, t.failures)
    PROVE  FailuresStand(tr2, r, Tracked(t, Len(tr), j, s[j]).failures)
<1>1. PICK last : last = Len(tr)
  OBVIOUS
<1>2. last \in Nat /\ last \in 1..last /\ tr \in [1..last -> EntryRecords]
  BY <1>1, EmptySeq, LenProperties
<1>3. \A k \in 1..last : Len(tr[k].results) \in Nat /\ Len(tr[k].calls) \in Nat
  <2> SUFFICES ASSUME NEW k \in 1..last PROVE Len(tr[k].results) \in Nat /\ Len(tr[k].calls) \in Nat
    OBVIOUS
  <2>1. tr[k].results \in Seq(ResultRecords) /\ tr[k].calls \in Seq(Ops)
    BY <1>2 DEF EntryRecords
  <2> QED
    BY <2>1, LenProperties
<1>4. /\ Len(tr2) = last
      /\ \A k \in 1..last : tr2[k].run = tr[k].run /\ tr2[k].calls = tr[k].calls
      /\ \A k \in 1..last : \A i \in 1..Len(tr[k].calls) :
           StateIn(tr2, k, i) = IF k = last /\ i = j THEN s[j] ELSE StateIn(tr, k, i)
  <2>1. j \in Nat
    BY <1>1, <1>2, <1>3
  <2>2. \A i : i \in j..j <=> i = j
    BY <2>1
  <2> QED
    BY <1>1, <2>1, <2>2 DEF AnsweredTo
<1>5. j \in Nat /\ j \in 1..Len(tr[last].calls) /\ j = Len(tr[last].results) + 1
  BY <1>1, <1>2, <1>3
<1>6. \A k \in 1..last : \A i \in 1..Len(tr[k].calls) :
        StateIn(tr, k, i) # "none" => Later(k, i, last, j) /\ ~(k = last /\ i = j)
  BY <1>2, <1>3, <1>5 DEF StateIn, Later
<1>7. \A k \in 1..last : \A i \in 1..Len(tr[k].calls) :
        StateIn(tr2, k, i) # "none" => ~Later(last, j, k, i)
  <2> SUFFICES ASSUME NEW k \in 1..last, NEW i \in 1..Len(tr[k].calls), StateIn(tr2, k, i) # "none"
               PROVE  ~Later(last, j, k, i)
    OBVIOUS
  <2>1. i \in Nat
    BY <1>3
  <2>2. CASE k = last /\ i = j
    BY <1>2, <1>5, <2>1, <2>2 DEF Later
  <2>3. CASE ~(k = last /\ i = j)
    <3>1. Later(k, i, last, j)
      BY <1>4, <1>6, <2>3
    <3> QED
      BY <1>2, <1>5, <2>1, <3>1 DEF Later
  <2> QED
    BY <2>2, <2>3
<1>8. PICK op : op = tr[last].calls[j] /\ op = reply.calls[j]
  BY <1>1
\* A failure that stood, but for the call answered now.
<1>9. ASSUME NEW k \in 1..last, NEW i \in 1..Len(tr[k].calls), ~(k = last /\ i = j)
      PROVE  /\ StateIn(tr2, k, i) = StateIn(tr, k, i)
             /\ FailureOf(tr2, k, i) = FailureOf(tr, k, i)
  BY <1>4, <1>9 DEF FailureOf
<1>10. ASSUME NEW k \in 1..last, NEW i \in 1..Len(tr[k].calls), StateIn(tr, k, i) # "none"
       PROVE  MadeGood(tr2, k, i) <=> \/ MadeGood(tr, k, i)
                                      \/ s[j] = "succeeded" /\ OperationOf(op) = OperationOf(tr[k].calls[i])
  <2>1. ASSUME MadeGood(tr, k, i) PROVE MadeGood(tr2, k, i)
    <3>1. PICK n \in k..last : \E x \in 1..Len(tr[n].calls) :
            /\ Later(k, i, n, x) /\ StateIn(tr, n, x) = "succeeded"
            /\ OperationOf(tr[n].calls[x]) = OperationOf(tr[k].calls[i])
      BY <1>1, <2>1 DEF MadeGood
    <3>2. PICK x \in 1..Len(tr[n].calls) :
            /\ Later(k, i, n, x) /\ StateIn(tr, n, x) = "succeeded"
            /\ OperationOf(tr[n].calls[x]) = OperationOf(tr[k].calls[i])
      BY <3>1
    <3>3. n \in 1..last
      BY <1>2
    <3>4. StateIn(tr2, n, x) = "succeeded"
      BY <1>4, <1>6, <3>2, <3>3
    <3> QED
      BY <1>4, <3>2, <3>3, <3>4 DEF MadeGood
  <2>2. ASSUME s[j] = "succeeded", OperationOf(op) = OperationOf(tr[k].calls[i])
        PROVE  MadeGood(tr2, k, i)
    <3>1. StateIn(tr2, last, j) = "succeeded"
      BY <1>2, <1>4, <1>5, <2>2
    <3>2. last \in k..Len(tr2) /\ j \in 1..Len(tr2[last].calls) /\ Later(k, i, last, j)
      BY <1>2, <1>4, <1>5, <1>6, <1>10
    <3>3. OperationOf(tr2[last].calls[j]) = OperationOf(tr2[k].calls[i])
      BY <1>2, <1>4, <1>8, <2>2
    <3> QED
      BY <3>1, <3>2, <3>3 DEF MadeGood
  <2>3. ASSUME MadeGood(tr2, k, i), ~MadeGood(tr, k, i)
        PROVE  s[j] = "succeeded" /\ OperationOf(op) = OperationOf(tr[k].calls[i])
    <3>1. PICK n \in k..last : \E x \in 1..Len(tr2[n].calls) :
            /\ Later(k, i, n, x) /\ StateIn(tr2, n, x) = "succeeded"
            /\ OperationOf(tr2[n].calls[x]) = OperationOf(tr2[k].calls[i])
      BY <1>4, <2>3 DEF MadeGood
    <3>2. PICK x \in 1..Len(tr2[n].calls) :
            /\ Later(k, i, n, x) /\ StateIn(tr2, n, x) = "succeeded"
            /\ OperationOf(tr2[n].calls[x]) = OperationOf(tr2[k].calls[i])
      BY <3>1
    <3>3. n \in 1..last
      BY <1>2
    <3>4. n = last /\ x = j
      <4> SUFFICES ASSUME ~(n = last /\ x = j) PROVE FALSE
        OBVIOUS
      <4>1. StateIn(tr, n, x) = "succeeded" /\ x \in 1..Len(tr[n].calls)
        BY <1>4, <3>2, <3>3
      <4> QED
        BY <1>1, <1>4, <2>3, <3>2, <3>3, <4>1 DEF MadeGood
    <3> QED
      BY <1>2, <1>4, <1>5, <1>8, <3>2, <3>4
  <2> QED
    BY <2>1, <2>2, <2>3
\* The call answered now stands when it has failed.
<1>11. Stands(tr2, r, last, j) <=> s[j] \in Errors
  <2>1. StateIn(tr2, last, j) = s[j] /\ tr2[last].run = r
    BY <1>1, <1>2, <1>4, <1>5
  <2>2. ~MadeGood(tr2, last, j)
    <3>1. \A n \in last..last : n = last
      BY <1>2
    <3> QED
      BY <1>2, <1>4, <1>7, <3>1 DEF MadeGood
  <2> QED
    BY <2>1, <2>2 DEF Stands
<1>12. \A k \in 1..last : \A i \in 1..Len(tr[k].calls) :
         /\ Stands(tr, r, k, i) => StateIn(tr, k, i) # "none"
         /\ Stands(tr2, r, k, i) => StateIn(tr2, k, i) # "none"
  BY DEF Stands, Errors
<1>13. ASSUME NEW k \in 1..last, NEW i \in 1..Len(tr[k].calls), ~(k = last /\ i = j)
       PROVE  Stands(tr2, r, k, i) <=>
                /\ Stands(tr, r, k, i)
                /\ s[j] = "succeeded" => \/ StateIn(tr, k, i) = "unknown"
                                         \/ OperationOf(op) # OperationOf(tr[k].calls[i])
  <2>1. CASE StateIn(tr, k, i) = "none"
    <3>1. StateIn(tr2, k, i) = "none"
      BY <1>9, <1>13, <2>1
    <3> QED
      BY <1>12, <2>1, <3>1
  <2>2. CASE StateIn(tr, k, i) # "none"
    BY <1>4, <1>9, <1>10, <1>13, <2>2 DEF Stands
  <2> QED
    BY <2>1, <2>2
<1>14. FailureOf(tr2, last, j) = [call |-> <<last, j>>, operation |-> OperationOf(op),
                                  unknown |-> s[j] = "unknown"]
  <2>1. StateIn(tr2, last, j) = s[j] /\ tr2[last].calls[j] = op
    BY <1>2, <1>4, <1>5, <1>8
  <2> QED
    BY <2>1 DEF FailureOf
<1>15. /\ \A f \in t.failures : \E k \in 1..last : \E i \in 1..Len(tr[k].calls) :
            Stands(tr, r, k, i) /\ f = FailureOf(tr, k, i)
       /\ \A k \in 1..last : \A i \in 1..Len(tr[k].calls) :
            Stands(tr, r, k, i) => FailureOf(tr, k, i) \in t.failures
  BY <1>1 DEF FailuresStand
<1>16. ~Stands(tr, r, last, j)
  BY <1>2, <1>5, <1>6, <1>12
<1> DEFINE new == Tracked(t, last, j, s[j]).failures
\* What the tracker holds then.
<1>17. \A f : f \in new <=>
         \/ /\ f \in t.failures
            /\ s[j] = "succeeded" => f.unknown \/ f.operation # OperationOf(op)
         \/ s[j] \in Errors /\ f = FailureOf(tr2, last, j)
  <2>1. CASE s[j] = "skipped"
    <3>1. new = t.failures
      BY <2>1 DEF Tracked
    <3> QED
      BY <2>1, <3>1 DEF Errors
  <2>2. CASE s[j] \in Errors
    <3>1. new = t.failures \cup {FailureOf(tr2, last, j)}
      BY <1>8, <1>14, <2>2 DEF Tracked, Errors
    <3>2. s[j] # "succeeded"
      BY <2>2 DEF Errors
    <3> QED
      BY <2>2, <3>1, <3>2
  <2>3. CASE s[j] = "succeeded"
    <3>1. new = {f \in t.failures : f.unknown \/ f.operation # OperationOf(op)}
      BY <1>8, <2>3 DEF Tracked, Errors
    <3> QED
      BY <2>3, <3>1 DEF Errors
  <2> QED
    BY <2>1, <2>2, <2>3 DEF Results
<1> HIDE DEF new
<1>18. ASSUME NEW f \in new
       PROVE  \E k \in 1..last : \E i \in 1..Len(tr[k].calls) :
                Stands(tr2, r, k, i) /\ f = FailureOf(tr2, k, i)
  <2>1. CASE s[j] \in Errors /\ f = FailureOf(tr2, last, j)
    BY <1>2, <1>5, <1>11, <2>1
  <2>2. CASE /\ f \in t.failures
             /\ s[j] = "succeeded" => f.unknown \/ f.operation # OperationOf(op)
    <3>0. PICK k \in 1..last : \E i \in 1..Len(tr[k].calls) :
            Stands(tr, r, k, i) /\ f = FailureOf(tr, k, i)
      BY <1>15, <2>2
    <3>1. PICK i \in 1..Len(tr[k].calls) : Stands(tr, r, k, i) /\ f = FailureOf(tr, k, i)
      BY <3>0
    <3>2. ~(k = last /\ i = j)
      BY <1>16, <3>1
    <3>3. /\ f.unknown <=> StateIn(tr, k, i) = "unknown"
          /\ f.operation = OperationOf(tr[k].calls[i])
      BY <3>1 DEF FailureOf
    <3>4. Stands(tr2, r, k, i)
      BY <1>13, <2>2, <3>1, <3>2, <3>3
    <3> QED
      BY <1>9, <3>1, <3>2, <3>4
  <2> QED
    BY <1>17, <2>1, <2>2
<1>19. ASSUME NEW k \in 1..last, NEW i \in 1..Len(tr[k].calls), Stands(tr2, r, k, i)
       PROVE  FailureOf(tr2, k, i) \in new
  <2>1. CASE k = last /\ i = j
    BY <1>11, <1>17, <1>19, <2>1
  <2>2. CASE ~(k = last /\ i = j)
    <3>1. /\ Stands(tr, r, k, i) /\ FailureOf(tr2, k, i) = FailureOf(tr, k, i)
          /\ s[j] = "succeeded" => \/ StateIn(tr, k, i) = "unknown"
                                   \/ OperationOf(op) # OperationOf(tr[k].calls[i])
      BY <1>9, <1>13, <1>19, <2>2
    <3>2. FailureOf(tr, k, i) \in t.failures
      BY <1>15, <3>1
    <3>3. /\ FailureOf(tr, k, i).unknown <=> StateIn(tr, k, i) = "unknown"
          /\ FailureOf(tr, k, i).operation = OperationOf(tr[k].calls[i])
      BY DEF FailureOf
    <3> QED
      BY <1>17, <3>1, <3>2, <3>3
  <2> QED
    BY <2>1, <2>2
<1>20. FailuresStand(tr2, r, new)
  BY <1>4, <1>18, <1>19, SMTT(30) DEF FailuresStand
<1> QED
  BY <1>1, <1>20 DEF new


-----------------------------------------------------------------------------
(* A call is started, or agreed to.                                        *)

\* The transcript tr2 is tr with the calls p of its last reply started and the
\* calls c agreed to.
Marked(tr, tr2, p, c) ==
    /\ tr2 \in Seq(EntryRecords) /\ Len(tr2) = Len(tr)
    /\ \A k \in 1..Len(tr) :
         /\ tr2[k].run = tr[k].run /\ tr2[k].calls = tr[k].calls /\ tr2[k].results = tr[k].results
         /\ tr2[k].performed = IF k = Len(tr) THEN tr[k].performed \cup p ELSE tr[k].performed
         /\ tr2[k].consented = IF k = Len(tr) THEN tr[k].consented \cup c ELSE tr[k].consented

\* The same of the reply itself.
EntryMarked(t, e, p, c) ==
    /\ e \in EntryRecords /\ e.run = t.run /\ e.calls = t.calls /\ e.results = t.results
    /\ e.performed = t.performed \cup p /\ e.consented = t.consented \cup c

LEMMA MarkedSeq ==
    ASSUME NEW tr \in Seq(EntryRecords), tr # <<>>, NEW t, t = tr[Len(tr)],
           NEW e, NEW p, NEW c, EntryMarked(t, e, p, c),
           NEW tr2, tr2 = [tr EXCEPT ![Len(tr)] = e]
    PROVE  Marked(tr, tr2, p, c)
<1>1. Len(tr) \in Nat /\ Len(tr) \in 1..Len(tr) /\ tr \in [1..Len(tr) -> EntryRecords]
  BY EmptySeq, LenProperties
<1>2. e \in EntryRecords
  BY DEF EntryMarked
<1>3. /\ tr2 \in [1..Len(tr) -> EntryRecords]
      /\ \A k \in 1..Len(tr) : tr2[k] = IF k = Len(tr) THEN e ELSE tr[k]
  BY <1>1, <1>2, SMTT(30)
<1>4. tr2 \in Seq(EntryRecords) /\ Len(tr2) = Len(tr)
  BY <1>1, <1>3, FunctionIsSeq
<1>5. ASSUME NEW k \in 1..Len(tr)
      PROVE  /\ tr2[k].run = tr[k].run /\ tr2[k].calls = tr[k].calls /\ tr2[k].results = tr[k].results
             /\ tr2[k].performed = IF k = Len(tr) THEN tr[k].performed \cup p ELSE tr[k].performed
             /\ tr2[k].consented = IF k = Len(tr) THEN tr[k].consented \cup c ELSE tr[k].consented
  <2>1. CASE k = Len(tr)
    BY <1>3, <2>1 DEF EntryMarked
  <2>2. CASE k # Len(tr)
    BY <1>3, <2>2
  <2> QED
    BY <2>1, <2>2
<1> QED
  BY <1>4, <1>5 DEF Marked

LEMMA StartedIs ==
    ASSUME NEW tr \in Seq(EntryRecords), tr # <<>>, NEW i \in Nat,
           NEW tr2, tr2 = [tr EXCEPT ![Len(tr)].performed = @ \cup {i}]
    PROVE  Marked(tr, tr2, {i}, {})
<1>1. PICK t : t = tr[Len(tr)]
  OBVIOUS
<1>2. Len(tr) \in 1..Len(tr) /\ tr \in [1..Len(tr) -> EntryRecords]
  BY EmptySeq, LenProperties
<1>3. PICK e : e = [t EXCEPT !.performed = @ \cup {i}]
  OBVIOUS
<1>4. tr2 = [tr EXCEPT ![Len(tr)] = e]
  BY <1>1, <1>2, <1>3
<1>5. t \in EntryRecords
  BY <1>1, <1>2
<1>6. EntryMarked(t, e, {i}, {})
  BY <1>3, <1>5 DEF EntryRecords, EntryMarked
<1> QED
  BY <1>1, <1>4, <1>6, MarkedSeq

LEMMA AgreedIs ==
    ASSUME NEW tr \in Seq(EntryRecords), tr # <<>>, NEW i \in Nat,
           NEW tr2, tr2 = [tr EXCEPT ![Len(tr)].consented = @ \cup {i}]
    PROVE  Marked(tr, tr2, {}, {i})
<1>1. PICK t : t = tr[Len(tr)]
  OBVIOUS
<1>2. Len(tr) \in 1..Len(tr) /\ tr \in [1..Len(tr) -> EntryRecords]
  BY EmptySeq, LenProperties
<1>3. PICK e : e = [t EXCEPT !.consented = @ \cup {i}]
  OBVIOUS
<1>4. tr2 = [tr EXCEPT ![Len(tr)] = e]
  BY <1>1, <1>2, <1>3
<1>5. t \in EntryRecords
  BY <1>1, <1>2
<1>6. EntryMarked(t, e, {}, {i})
  BY <1>3, <1>5 DEF EntryRecords, EntryMarked
<1> QED
  BY <1>1, <1>4, <1>6, MarkedSeq

\* The group from..to with the states w, at work on the last reply.
GroupOn(tr, w, from, to) ==
    /\ tr \in Seq(EntryRecords) /\ tr # <<>>
    /\ from \in Nat /\ to \in Nat /\ from = Len(tr[Len(tr)].results) + 1
    /\ from <= to /\ to <= Len(tr[Len(tr)].calls)
    /\ w \in [from..to -> WorkStates]
    /\ to = from \/ \A x \in from..to : tr[Len(tr)].calls[x] \in Reads
    /\ tr[Len(tr)].performed \subseteq 1..to

LEMMA GroupFacts ==
    ASSUME NEW tr, NEW w, NEW from, NEW to, GroupOn(tr, w, from, to)
    PROVE  /\ Len(tr) \in Nat /\ Len(tr) \in 1..Len(tr) /\ DOMAIN w = from..to
           /\ \A k \in 1..Len(tr) : Len(tr[k].results) \in Nat /\ Len(tr[k].calls) \in Nat
           /\ \A i \in from..to : i \in 1..Len(tr[Len(tr)].calls) /\ StateIn(tr, Len(tr), i) = "none"
           /\ \A i \in from..to : tr[Len(tr)].calls[i] \in Writes => from = to /\ i = to
<1>1. /\ tr \in Seq(EntryRecords) /\ tr # <<>>
      /\ from \in Nat /\ to \in Nat /\ from = Len(tr[Len(tr)].results) + 1
      /\ from <= to /\ to <= Len(tr[Len(tr)].calls)
      /\ w \in [from..to -> WorkStates]
      /\ to = from \/ \A x \in from..to : tr[Len(tr)].calls[x] \in Reads
  BY DEF GroupOn
<1>2. Len(tr) \in Nat /\ Len(tr) \in 1..Len(tr) /\ tr \in [1..Len(tr) -> EntryRecords]
  BY <1>1, EmptySeq, LenProperties
<1>3. ASSUME NEW k \in 1..Len(tr)
      PROVE  Len(tr[k].results) \in Nat /\ Len(tr[k].calls) \in Nat
  <2>1. tr[k].results \in Seq(ResultRecords) /\ tr[k].calls \in Seq(Ops)
    BY <1>2 DEF EntryRecords
  <2> QED
    BY <2>1, LenProperties
<1>4. ASSUME NEW i \in from..to
      PROVE  i \in 1..Len(tr[Len(tr)].calls) /\ StateIn(tr, Len(tr), i) = "none"
  <2>1. Len(tr[Len(tr)].results) \in Nat /\ Len(tr[Len(tr)].calls) \in Nat
    BY <1>2, <1>3
  <2>2. i \notin 1..Len(tr[Len(tr)].results) /\ i \in 1..Len(tr[Len(tr)].calls)
    BY <1>1, <2>1
  <2> QED
    BY <2>2 DEF StateIn
<1>5. ASSUME NEW i \in from..to, tr[Len(tr)].calls[i] \in Writes PROVE from = to /\ i = to
  <2>1. tr[Len(tr)].calls[i] \notin Reads
    BY <1>5, OpsAssumption
  <2> QED
    BY <1>1, <2>1
<1> QED
  BY <1>1, <1>2, <1>3, <1>4, <1>5

\* A write that may start is neither in doubt nor done, or agreed to.
MayBegin(tr, i, u, d) ==
    tr[Len(tr)].calls[i] \in Writes =>
        tr[Len(tr)].calls[i] \notin u \cup d \/ i \in tr[Len(tr)].consented

\* The group at work, and what is known of it.
Busy(tr, r, w, u, d, from, to) == GroupOn(tr, w, from, to) /\ Known(tr, r, w, u, d)

Starting(tr, tr2, w, u, d, from, to, i0) ==
    /\ i0 \in from..to /\ w[i0] = "cleared" /\ MayBegin(tr, i0, u, d)
    /\ Marked(tr, tr2, {i0}, {})

LEMMA StartedKeeps ==
    ASSUME NEW tr, NEW r, NEW w, NEW u, NEW d, NEW from, NEW to, Busy(tr, r, w, u, d, from, to),
           NEW tr2, NEW i0, Starting(tr, tr2, w, u, d, from, to, i0)
    PROVE  Entries(tr2, r) /\ BlindIn(tr2) /\ EchoIn(tr2, r)
<1>00. /\ GroupOn(tr, w, from, to) /\ tr \in Seq(EntryRecords) /\ r \in Nat
       /\ Entries(tr, r) /\ BlindIn(tr) /\ EchoIn(tr, r)
       /\ DoubtsIn(tr, w, u) /\ DoneIn(tr, r, w, d)
  BY DEF Busy, Known
<1>01. i0 \in from..to /\ w[i0] = "cleared" /\ MayBegin(tr, i0, u, d) /\ Marked(tr, tr2, {i0}, {})
  BY DEF Starting
<1> USE <1>00, <1>01
<1>1. PICK last : last = Len(tr)
  OBVIOUS
<1>2. /\ last \in Nat /\ last \in 1..last /\ DOMAIN w = from..to
      /\ \A k \in 1..last : Len(tr[k].results) \in Nat /\ Len(tr[k].calls) \in Nat
      /\ \A i \in from..to : i \in 1..Len(tr[last].calls) /\ StateIn(tr, last, i) = "none"
      /\ \A i \in from..to : tr[last].calls[i] \in Writes => from = to /\ i = to
  BY <1>1, GroupFacts
<1>3. /\ Len(tr2) = last
      /\ \A k \in 1..last :
           /\ tr2[k].run = tr[k].run /\ tr2[k].calls = tr[k].calls /\ tr2[k].results = tr[k].results
           /\ tr2[k].consented = tr[k].consented
           /\ tr2[k].performed = IF k = last THEN tr[k].performed \cup {i0} ELSE tr[k].performed
  BY <1>1 DEF Marked
<1>4. \A k \in 1..last : \A i : StateIn(tr2, k, i) = StateIn(tr, k, i)
  BY <1>3 DEF StateIn
<1>5. /\ from \in Nat /\ to \in Nat /\ tr[last].performed \subseteq 1..to
      /\ from = Len(tr[last].results) + 1
  BY <1>1 DEF GroupOn
<1>6. Entries(tr2, r)
  <2>1. ASSUME NEW k \in 1..last PROVE WellAnswered(tr2[k])
    <3>1. WellAnswered(tr[k])
      BY <1>1 DEF Entries
    <3>2. tr2[k].performed \subseteq 1..Len(tr[k].calls)
      <4>1. PICK old : old = tr[k].performed
        OBVIOUS
      <4>2. old \subseteq 1..Len(tr[k].calls)
        BY <3>1, <4>1, Zenon DEF WellAnswered
      <4>3. i0 \in 1..Len(tr[last].calls)
        BY <1>2
      <4>4. tr2[k].performed = IF k = last THEN old \cup {i0} ELSE old
        BY <1>3, <4>1
      <4>5. CASE k = last
        BY <4>2, <4>3, <4>4, <4>5
      <4>6. CASE k # last
        BY <4>2, <4>4, <4>6
      <4> QED
        BY <4>5, <4>6
    <3> QED
      BY <1>3, <3>1, <3>2 DEF WellAnswered
  <2> QED
    BY <1>1, <1>3, <2>1 DEF Entries
<1>7. PICK op : op = tr[last].calls[i0]
  OBVIOUS
\* Of a write, the group is that call alone.
<1>8. ASSUME op \in Writes
      PROVE  /\ from = i0 /\ to = i0
             /\ \A k \in 1..last : \A i : AtWork(tr, w, k, i) <=> k = last /\ i = i0
  BY <1>1, <1>2, <1>5, <1>7, <1>8 DEF AtWork
<1>9. op \in Writes => i0 \in tr[last].consented \/ op \notin u \cup d
  BY <1>1, <1>7 DEF MayBegin
<1>10. BlindIn(tr2)
  <2> SUFFICES ASSUME NEW k \in 1..Len(tr2), NEW n \in 1..Len(tr2),
                      NEW i \in tr2[k].performed, NEW j \in tr2[n].performed,
                      Later(k, i, n, j), tr2[k].calls[i] = tr2[n].calls[j],
                      tr2[n].calls[j] \in Writes, StateIn(tr2, k, i) \in {"none", "unknown"}
               PROVE  j \in tr2[n].consented
    BY DEF BlindIn
  <2>0. /\ k \in 1..last /\ n \in 1..last /\ tr[k].calls[i] = tr[n].calls[j]
        /\ tr[n].calls[j] \in Writes /\ StateIn(tr, k, i) \in {"none", "unknown"}
        /\ tr2[n].consented = tr[n].consented
    BY <1>3, <1>4
  <2>1. CASE i \in tr[k].performed /\ j \in tr[n].performed
    BY <1>1, <2>0, <2>1 DEF BlindIn
  <2>2. CASE j \notin tr[n].performed
    <3>1. n = last /\ j = i0 /\ op \in Writes
      BY <1>3, <1>7, <2>0, <2>2
    <3>2. ~(k = last /\ i = i0)
      BY <1>2, <1>5, <3>1 DEF Later
    <3>3. i \in tr[k].performed
      BY <1>3, <2>0, <3>2
    <3>4. ~AtWork(tr, w, k, i)
      BY <1>8, <2>0, <3>1, <3>2
    <3>5. tr[k].calls[i] \in u
      BY <1>1, <1>7, <2>0, <3>1, <3>3, <3>4 DEF DoubtsIn
    <3> QED
      BY <1>7, <1>9, <2>0, <3>1, <3>5
  <2>3. CASE i \notin tr[k].performed
    <3>1. k = last /\ i = i0 /\ op \in Writes
      <4>1. PICK old : old = tr[k].performed
        OBVIOUS
      <4>2. tr2[k].performed = IF k = last THEN old \cup {i0} ELSE old
        BY <1>3, <2>0, <4>1
      <4>3. k = last /\ i = i0
        BY <2>3, <4>1, <4>2
      <4>4. tr[last].calls[i0] \in Writes
        BY <2>0, <4>3
      <4> QED
        BY <1>7, <4>3, <4>4
    <3>2. n = last /\ j > i0
      BY <1>2, <2>0, <3>1 DEF Later
    <3>3. j \in 1..to
      <4>1. 1..to \cup {i0} = 1..to
        <5>1. i0 \in from..to /\ from \in Nat /\ to \in Nat /\ from >= 1
          <6>1. Len(tr[last].results) \in Nat
            BY <1>2, Zenon
          <6> QED
            BY <1>5, <6>1
        <5> HIDE <1>00, <1>01
        <5> QED
          BY <5>1
      <4>2. tr2[n].performed = tr[last].performed \cup {i0}
        BY <1>2, <1>3, <3>2
      <4> QED
        BY <1>5, <4>1, <4>2
    <3> QED
      BY <1>2, <1>5, <1>8, <3>1, <3>2, <3>3
  <2> QED
    BY <2>1, <2>2, <2>3
<1>11. EchoIn(tr2, r)
  <2> SUFFICES ASSUME NEW k \in 1..Len(tr2), NEW n \in 1..Len(tr2),
                      NEW i \in 1..Len(tr2[k].calls), NEW j \in tr2[n].performed,
                      tr2[k].run = r, Later(k, i, n, j), tr2[k].calls[i] = tr2[n].calls[j],
                      tr2[n].calls[j] \in Writes, StateIn(tr2, k, i) = "succeeded",
                      j \notin tr2[n].consented
               PROVE  ReplacedBefore(tr2, k, i, n, j)
    BY DEF EchoIn
  <2>0. /\ k \in 1..last /\ n \in 1..last /\ i \in 1..Len(tr[k].calls) /\ tr[k].run = r
        /\ tr[k].calls[i] = tr[n].calls[j] /\ tr[n].calls[j] \in Writes
        /\ StateIn(tr, k, i) = "succeeded" /\ j \notin tr[n].consented
        /\ tr2[n].calls = tr[n].calls
    BY <1>3, <1>4
  <2>1. ReplacedBefore(tr, k, i, n, j)
    <3>1. CASE j \in tr[n].performed
      BY <1>1, <2>0, <3>1 DEF EchoIn
    <3>2. CASE j \notin tr[n].performed
      <4>1. n = last /\ j = i0 /\ op \in Writes /\ tr[k].calls[i] = op
        <5>1. PICK old : old = tr[n].performed
          OBVIOUS
        <5>2. tr2[n].performed = IF n = last THEN old \cup {i0} ELSE old
          BY <1>3, <2>0, <5>1
        <5>3. n = last /\ j = i0
          BY <3>2, <5>1, <5>2
        <5> QED
          BY <1>7, <2>0, <5>3, Zenon
      <4>2. tr[k].calls[i] \notin d /\ HasDone(tr, w, k, i)
        BY <1>9, <2>0, <4>1 DEF HasDone
      <4>3. Replaced(tr, w, k, i)
        BY <1>1, <2>0, <4>1, <4>2 DEF DoneIn
      <4>4. PICK m \in k..last : \E x \in 1..Len(tr[m].calls) :
              /\ Later(k, i, m, x) /\ HasDone(tr, w, m, x)
              /\ Replaces(tr[m].calls[x], tr[k].calls[i])
        BY <1>1, <4>3 DEF Replaced
      <4>5. PICK x \in 1..Len(tr[m].calls) :
              /\ Later(k, i, m, x) /\ HasDone(tr, w, m, x)
              /\ Replaces(tr[m].calls[x], tr[k].calls[i])
        BY <4>4
      <4>6. m \in 1..last
        BY <1>2, <2>0
      <4>7. StateIn(tr, m, x) = "succeeded"
        BY <1>8, <4>1, <4>5, <4>6 DEF HasDone
      <4>8. Later(m, x, n, j)
        <5>1. m = last => x < i0
          <6>1. m = last => x \in 1..Len(tr[last].results)
            BY <4>7 DEF StateIn
          <6> QED
            BY <1>2, <1>5, <1>8, <4>1, <6>1
        <5> QED
          BY <1>2, <4>1, <4>6, <5>1 DEF Later
      <4>9. m \in k..n /\ Replaces(tr[m].calls[x], tr[n].calls[j])
        BY <2>0, <4>1, <4>5
      <4> QED
        BY <4>5, <4>7, <4>8, <4>9 DEF ReplacedBefore
    <3> QED
      BY <3>1, <3>2
  <2>2. PICK m \in k..n : \E x \in 1..Len(tr[m].calls) :
          /\ Later(k, i, m, x) /\ Later(m, x, n, j) /\ StateIn(tr, m, x) = "succeeded"
          /\ Replaces(tr[m].calls[x], tr[n].calls[j])
    BY <2>1 DEF ReplacedBefore
  <2>3. m \in 1..last
    BY <1>2, <2>0, SMTT(30)
  <2>4. /\ tr2[m].calls = tr[m].calls
        /\ \A x : StateIn(tr2, m, x) = StateIn(tr, m, x)
    BY <1>3, <1>4, <2>3
  <2> QED
    BY <2>0, <2>2, <2>4 DEF ReplacedBefore
<1> QED
  BY <1>6, <1>10, <1>11

LEMMA StartedKnown ==
    ASSUME NEW tr, NEW r, NEW w, NEW u, NEW d, NEW from, NEW to, Busy(tr, r, w, u, d, from, to),
           NEW tr2, NEW i0, Starting(tr, tr2, w, u, d, from, to, i0),
           NEW w2, w2 = [w EXCEPT ![i0] = "running"]
    PROVE  DoubtsIn(tr2, w2, u) /\ DoneIn(tr2, r, w2, d)
<1>00. /\ GroupOn(tr, w, from, to) /\ tr \in Seq(EntryRecords) /\ r \in Nat
       /\ Entries(tr, r) /\ BlindIn(tr) /\ EchoIn(tr, r)
       /\ DoubtsIn(tr, w, u) /\ DoneIn(tr, r, w, d)
  BY DEF Busy, Known
<1>01. i0 \in from..to /\ w[i0] = "cleared" /\ MayBegin(tr, i0, u, d) /\ Marked(tr, tr2, {i0}, {})
  BY DEF Starting
<1> USE <1>00, <1>01
<1>1. PICK last : last = Len(tr)
  OBVIOUS
<1>2. last \in Nat /\ last \in 1..last /\ DOMAIN w = from..to
  BY <1>1, GroupFacts
<1>3. /\ Len(tr2) = last
      /\ \A k \in 1..last :
           /\ tr2[k].run = tr[k].run /\ tr2[k].calls = tr[k].calls /\ tr2[k].results = tr[k].results
           /\ tr2[k].performed = IF k = last THEN tr[k].performed \cup {i0} ELSE tr[k].performed
  BY <1>1 DEF Marked
<1>4. \A k \in 1..last : \A i : StateIn(tr2, k, i) = StateIn(tr, k, i)
  BY <1>3 DEF StateIn
<1>5. /\ DOMAIN w2 = DOMAIN w /\ w2[i0] = "running"
      /\ \A i \in DOMAIN w : i # i0 => w2[i] = w[i]
  BY <1>2
<1>6. \A k \in 1..last : \A i : AtWork(tr2, w2, k, i) <=> AtWork(tr, w, k, i)
  BY <1>1, <1>3, <1>5 DEF AtWork
<1>7. DoubtsIn(tr2, w2, u)
  <2> SUFFICES ASSUME NEW k \in 1..last, NEW i \in tr2[k].performed, tr[k].calls[i] \in Writes
               PROVE  IF AtWork(tr2, w2, k, i)
                      THEN w2[i] \in Startables /\ (w2[i] = "unknown" => tr[k].calls[i] \in u)
                      ELSE StateIn(tr, k, i) \notin {"none", "unknown"} \/ tr[k].calls[i] \in u
    BY <1>3, <1>4 DEF DoubtsIn
  <2>1. CASE k = last /\ i = i0
    <3>1. AtWork(tr2, w2, k, i)
      BY <1>2, <1>3, <1>5, <2>1 DEF AtWork
    <3> QED
      BY <1>5, <2>1, <3>1 DEF Startables
  <2>2. CASE ~(k = last /\ i = i0)
    <3>1. i \in tr[k].performed
      BY <1>3, <2>2
    <3>2. CASE AtWork(tr2, w2, k, i)
      <4>1. w2[i] = w[i] /\ AtWork(tr, w, k, i)
        BY <1>1, <1>5, <1>6, <2>2, <3>2 DEF AtWork
      <4> QED
        BY <1>1, <3>1, <3>2, <4>1 DEF DoubtsIn
    <3>3. CASE ~AtWork(tr2, w2, k, i)
      BY <1>1, <1>6, <3>1, <3>3 DEF DoubtsIn
    <3> QED
      BY <3>2, <3>3
  <2> QED
    BY <2>1, <2>2
<1>8. ASSUME NEW k \in 1..last, NEW i \in 1..Len(tr[k].calls)
      PROVE  HasDone(tr2, w2, k, i) <=> HasDone(tr, w, k, i)
  <2>1. CASE AtWork(tr, w, k, i) /\ i = i0
    <3>1. w[i] # "succeeded" /\ w2[i] # "succeeded"
      BY <1>5, <2>1
    <3> QED
      BY <1>4, <3>1 DEF HasDone
  <2>2. CASE AtWork(tr, w, k, i) /\ i # i0
    <3>1. w2[i] = w[i]
      BY <1>5, <2>2 DEF AtWork
    <3> QED
      BY <1>4, <1>6, <3>1 DEF HasDone
  <2>3. CASE ~AtWork(tr, w, k, i)
    BY <1>4, <1>6, <2>3 DEF HasDone
  <2> QED
    BY <2>1, <2>2, <2>3
<1>9. DoneIn(tr2, r, w2, d)
  BY <1>1, <1>2, <1>3, <1>8, SameDone
<1> QED
  BY <1>7, <1>9


LEMMA AgreedKeeps ==
    ASSUME NEW tr, NEW r, NEW w, NEW u, NEW d, Known(tr, r, w, u, d),
           NEW c, NEW tr2, Marked(tr, tr2, {}, c)
    PROVE  Known(tr2, r, w, u, d)
<1>00. /\ tr \in Seq(EntryRecords) /\ r \in Nat
       /\ Entries(tr, r) /\ BlindIn(tr) /\ EchoIn(tr, r)
       /\ DoubtsIn(tr, w, u) /\ DoneIn(tr, r, w, d)
  BY DEF Known
<1>01. Len(tr) \in Nat /\ tr2 \in Seq(EntryRecords)
  BY <1>00, LenProperties DEF Marked
<1> USE <1>00, <1>01
<1>1. /\ Len(tr2) = Len(tr)
      /\ \A k \in 1..Len(tr) :
           /\ tr2[k].run = tr[k].run /\ tr2[k].calls = tr[k].calls /\ tr2[k].results = tr[k].results
           /\ tr2[k].performed = tr[k].performed
           /\ tr[k].consented \subseteq tr2[k].consented
  BY DEF Marked
<1>2. \A k \in 1..Len(tr) : \A i : StateIn(tr2, k, i) = StateIn(tr, k, i)
  BY <1>1 DEF StateIn
<1>3. \A k, i : AtWork(tr2, w, k, i) <=> AtWork(tr, w, k, i)
  BY <1>1 DEF AtWork
<1>4. Entries(tr2, r)
  BY <1>1 DEF Entries, WellAnswered
<1>5. BlindIn(tr2)
  <2> SUFFICES ASSUME NEW k \in 1..Len(tr2), NEW n \in 1..Len(tr2),
                      NEW i \in tr2[k].performed, NEW j \in tr2[n].performed,
                      Later(k, i, n, j), tr2[k].calls[i] = tr2[n].calls[j],
                      tr2[n].calls[j] \in Writes, StateIn(tr2, k, i) \in {"none", "unknown"}
               PROVE  j \in tr2[n].consented
    BY DEF BlindIn
  <2>1. /\ k \in 1..Len(tr) /\ n \in 1..Len(tr) /\ i \in tr[k].performed /\ j \in tr[n].performed
        /\ tr[k].calls[i] = tr[n].calls[j] /\ tr[n].calls[j] \in Writes
        /\ StateIn(tr, k, i) \in {"none", "unknown"}
    BY <1>1, <1>2
  <2>2. j \in tr[n].consented
    BY <2>1 DEF BlindIn
  <2> QED
    BY <1>1, <2>1, <2>2
<1>6. EchoIn(tr2, r)
  <2> SUFFICES ASSUME NEW k \in 1..Len(tr2), NEW n \in 1..Len(tr2),
                      NEW i \in 1..Len(tr2[k].calls), NEW j \in tr2[n].performed,
                      tr2[k].run = r, Later(k, i, n, j), tr2[k].calls[i] = tr2[n].calls[j],
                      tr2[n].calls[j] \in Writes, StateIn(tr2, k, i) = "succeeded",
                      j \notin tr2[n].consented
               PROVE  ReplacedBefore(tr2, k, i, n, j)
    BY DEF EchoIn
  <2>1. /\ k \in 1..Len(tr) /\ n \in 1..Len(tr) /\ i \in 1..Len(tr[k].calls) /\ tr[k].run = r
        /\ j \in tr[n].performed /\ tr[k].calls[i] = tr[n].calls[j] /\ tr[n].calls[j] \in Writes
        /\ StateIn(tr, k, i) = "succeeded" /\ j \notin tr[n].consented
        /\ tr2[n].calls = tr[n].calls
    BY <1>1, <1>2
  <2>2. ReplacedBefore(tr, k, i, n, j)
    BY <2>1 DEF EchoIn
  <2>3. PICK m \in k..n : \E x \in 1..Len(tr[m].calls) :
          /\ Later(k, i, m, x) /\ Later(m, x, n, j) /\ StateIn(tr, m, x) = "succeeded"
          /\ Replaces(tr[m].calls[x], tr[n].calls[j])
    BY <2>2 DEF ReplacedBefore
  <2>4. m \in 1..Len(tr)
    BY <2>1
  <2>5. /\ tr2[m].calls = tr[m].calls
        /\ \A x : StateIn(tr2, m, x) = StateIn(tr, m, x)
    BY <1>1, <1>2, <2>4
  <2> QED
    BY <2>1, <2>3, <2>5 DEF ReplacedBefore
<1>7. DoubtsIn(tr2, w, u)
  <2> SUFFICES ASSUME NEW k \in 1..Len(tr2), NEW i \in tr2[k].performed, tr2[k].calls[i] \in Writes
               PROVE  IF AtWork(tr2, w, k, i)
                      THEN w[i] \in Startables /\ (w[i] = "unknown" => tr2[k].calls[i] \in u)
                      ELSE StateIn(tr2, k, i) \notin {"none", "unknown"} \/ tr2[k].calls[i] \in u
    BY DEF DoubtsIn
  <2>1. /\ k \in 1..Len(tr) /\ i \in tr[k].performed /\ tr2[k].calls[i] = tr[k].calls[i]
        /\ StateIn(tr2, k, i) = StateIn(tr, k, i)
    BY <1>1, <1>2
  <2> QED
    BY <1>3, <2>1 DEF DoubtsIn
<1>8. \A k \in 1..Len(tr) : \A i \in 1..Len(tr[k].calls) :
        HasDone(tr2, w, k, i) <=> HasDone(tr, w, k, i)
  BY <1>2, <1>3 DEF HasDone
<1>9. DoneIn(tr2, r, w, d)
  BY <1>1, <1>8, SameDone
<1> QED
  BY <1>4, <1>5, <1>6, <1>7, <1>9 DEF Known

-----------------------------------------------------------------------------
(* A call at work moves on.                                                *)

\* The states w2 are w, but for the call i0, which has got to st.
Moved(w, w2, i0, st) == w2 = [w EXCEPT ![i0] = st]

Moving(w, w2, from, to, i0, st) == i0 \in from..to /\ Moved(w, w2, i0, st)

\* A call that has been started and moves on is started, and in doubt when its
\* outcome is unknown.
LEMMA DoubtsMove ==
    ASSUME NEW tr, NEW r, NEW w, NEW u, NEW d, NEW from, NEW to, Busy(tr, r, w, u, d, from, to),
           NEW w2, NEW i0, NEW st, Moving(w, w2, from, to, i0, st),
           NEW u2, u \subseteq u2,
           tr[Len(tr)].calls[i0] \in Writes /\ w[i0] \in Startables =>
               st \in Startables /\ (st = "unknown" => tr[Len(tr)].calls[i0] \in u2)
    PROVE  DoubtsIn(tr, w2, u2)
<1>00. /\ GroupOn(tr, w, from, to) /\ tr \in Seq(EntryRecords) /\ r \in Nat
       /\ Entries(tr, r) /\ BlindIn(tr) /\ EchoIn(tr, r)
       /\ DoubtsIn(tr, w, u) /\ DoneIn(tr, r, w, d)
  BY DEF Busy, Known
<1>01. i0 \in from..to /\ Moved(w, w2, i0, st)
  BY DEF Moving
<1> USE <1>00, <1>01
<1>0. DOMAIN w = from..to
  BY GroupFacts
<1>1. /\ DOMAIN w = from..to /\ DOMAIN w2 = DOMAIN w /\ w2[i0] = st
      /\ \A i \in DOMAIN w : i # i0 => w2[i] = w[i]
  BY <1>0 DEF Moved
<1>2. \A k, i : AtWork(tr, w2, k, i) <=> AtWork(tr, w, k, i)
  BY <1>1 DEF AtWork
<1> SUFFICES ASSUME NEW k \in 1..Len(tr), NEW i \in tr[k].performed, tr[k].calls[i] \in Writes
             PROVE  IF AtWork(tr, w2, k, i)
                    THEN w2[i] \in Startables /\ (w2[i] = "unknown" => tr[k].calls[i] \in u2)
                    ELSE StateIn(tr, k, i) \notin {"none", "unknown"} \/ tr[k].calls[i] \in u2
  BY DEF DoubtsIn
<1>3. CASE AtWork(tr, w, k, i)
  <2>1. w[i] \in Startables /\ (w[i] = "unknown" => tr[k].calls[i] \in u)
    BY <1>3 DEF DoubtsIn
  <2>2. k = Len(tr) /\ i \in DOMAIN w
    BY <1>3 DEF AtWork
  <2>3. CASE i = i0
    BY <1>1, <1>2, <1>3, <2>1, <2>2, <2>3
  <2>4. CASE i # i0
    BY <1>1, <1>2, <1>3, <2>1, <2>2, <2>4
  <2> QED
    BY <2>3, <2>4
<1>4. CASE ~AtWork(tr, w, k, i)
  BY <1>2, <1>4 DEF DoubtsIn
<1> QED
  BY <1>3, <1>4

LEMMA DoneMove ==
    ASSUME NEW tr, NEW r, NEW w, NEW u, NEW d, NEW from, NEW to, Busy(tr, r, w, u, d, from, to),
           NEW w2, NEW i0, NEW st, Moving(w, w2, from, to, i0, st),
           st # "succeeded", w[i0] # "succeeded"
    PROVE  DoneIn(tr, r, w2, d)
<1>00. /\ GroupOn(tr, w, from, to) /\ tr \in Seq(EntryRecords) /\ r \in Nat
       /\ Entries(tr, r) /\ BlindIn(tr) /\ EchoIn(tr, r)
       /\ DoubtsIn(tr, w, u) /\ DoneIn(tr, r, w, d)
  BY DEF Busy, Known
<1>01. i0 \in from..to /\ Moved(w, w2, i0, st)
  BY DEF Moving
<1> USE <1>00, <1>01
<1>0. DOMAIN w = from..to /\ Len(tr) \in Nat
  BY GroupFacts
<1>1. /\ DOMAIN w = from..to /\ DOMAIN w2 = DOMAIN w /\ w2[i0] = st /\ Len(tr) \in Nat
      /\ \A i \in DOMAIN w : i # i0 => w2[i] = w[i]
  BY <1>0 DEF Moved
<1>2. \A k \in 1..Len(tr) : \A i \in 1..Len(tr[k].calls) :
        HasDone(tr, w2, k, i) <=> HasDone(tr, w, k, i)
  BY <1>1 DEF HasDone, AtWork
<1> QED
  BY <1>1, <1>2, SameDone

\* A write that succeeds is known to be done, and replaces what it has undone.
LEMMA DoneReturn ==
    ASSUME NEW tr, NEW r, NEW w, NEW u, NEW d, NEW from, NEW to, Busy(tr, r, w, u, d, from, to),
           NEW w2, NEW i0, Moving(w, w2, from, to, i0, "succeeded"), w[i0] # "succeeded",
           NEW op, op = tr[Len(tr)].calls[i0], NEW d2, op \in Writes => op \in d2,
           \A x \in d : x \in d2 \/ (op \in Writes /\ Replaces(op, x))
    PROVE  DoneIn(tr, r, w2, d2)
<1>00. /\ GroupOn(tr, w, from, to) /\ tr \in Seq(EntryRecords) /\ r \in Nat
       /\ Entries(tr, r) /\ BlindIn(tr) /\ EchoIn(tr, r)
       /\ DoubtsIn(tr, w, u) /\ DoneIn(tr, r, w, d)
  BY DEF Busy, Known
<1>01. i0 \in from..to /\ Moved(w, w2, i0, "succeeded")
  BY DEF Moving
<1> USE <1>00, <1>01
<1>1. PICK last : last = Len(tr)
  OBVIOUS
<1>2. /\ last \in Nat /\ last \in 1..last /\ DOMAIN w = from..to
      /\ \A k \in 1..last : Len(tr[k].results) \in Nat /\ Len(tr[k].calls) \in Nat
      /\ \A i \in from..to : i \in 1..Len(tr[last].calls) /\ StateIn(tr, last, i) = "none"
      /\ \A i \in from..to : tr[last].calls[i] \in Writes => from = to /\ i = to
  BY <1>1, GroupFacts
<1>3. from \in Nat /\ to \in Nat /\ from = Len(tr[last].results) + 1
  BY <1>1 DEF GroupOn
<1>4. /\ DOMAIN w2 = DOMAIN w /\ w2[i0] = "succeeded"
      /\ \A i \in DOMAIN w : i # i0 => w2[i] = w[i]
  BY <1>2 DEF Moved
<1>5. ASSUME NEW k \in 1..last, NEW i \in 1..Len(tr[k].calls)
      PROVE  HasDone(tr, w2, k, i) <=> HasDone(tr, w, k, i) \/ (k = last /\ i = i0)
  BY <1>1, <1>2, <1>4 DEF HasDone, AtWork
<1> SUFFICES ASSUME NEW k \in 1..last, NEW i \in 1..Len(tr[k].calls),
                    tr[k].run = r, tr[k].calls[i] \in Writes, HasDone(tr, w2, k, i),
                    tr[k].calls[i] \notin d2
             PROVE  Replaced(tr, w2, k, i)
  BY <1>1 DEF DoneIn
<1>6. ~(k = last /\ i = i0)
  BY <1>1
<1>7. HasDone(tr, w, k, i)
  BY <1>5, <1>6
<1>8. CASE tr[k].calls[i] \in d
  <2>1. op \in Writes /\ Replaces(op, tr[k].calls[i])
    BY <1>8
  <2>2. from = to /\ i0 = to
    BY <1>1, <1>2, <2>1
  <2>3. Later(k, i, last, i0)
    <3>1. CASE k = last
      <4>1. StateIn(tr, k, i) = "succeeded"
        BY <1>1, <1>2, <1>3, <1>6, <1>7, <2>2, <3>1 DEF HasDone, AtWork
      <4>2. i \in 1..Len(tr[last].results)
        BY <3>1, <4>1 DEF StateIn
      <4> QED
        BY <1>2, <1>3, <2>2, <3>1, <4>2 DEF Later
    <3>2. CASE k # last
      BY <1>2, <3>2 DEF Later
    <3> QED
      BY <3>1, <3>2
  <2>4. /\ last \in k..Len(tr) /\ i0 \in 1..Len(tr[last].calls) /\ HasDone(tr, w2, last, i0)
        /\ Replaces(tr[last].calls[i0], tr[k].calls[i])
    BY <1>1, <1>2, <1>5, <2>1
  <2> QED
    BY <2>3, <2>4 DEF Replaced
<1>9. CASE tr[k].calls[i] \notin d
  <2>1. Replaced(tr, w, k, i)
    BY <1>1, <1>7, <1>9 DEF DoneIn
  <2>2. PICK m \in k..Len(tr) : \E x \in 1..Len(tr[m].calls) :
          /\ Later(k, i, m, x) /\ HasDone(tr, w, m, x)
          /\ Replaces(tr[m].calls[x], tr[k].calls[i])
    BY <2>1 DEF Replaced
  <2>3. m \in 1..last
    BY <1>1, <1>2
  <2>4. \A x \in 1..Len(tr[m].calls) : HasDone(tr, w, m, x) => HasDone(tr, w2, m, x)
    BY <1>5, <2>3
  <2> QED
    BY <2>2, <2>4 DEF Replaced
<1> QED
  BY <1>8, <1>9

\* A group that begins is neither started nor done.
LEMMA GroupBegins ==
    ASSUME NEW tr, NEW r, NEW u, NEW d, Known(tr, r, <<>>, u, d), tr # <<>>, NEW from, NEW to,
           from = Len(tr[Len(tr)].results) + 1,
           NEW w, w = [i \in from..to |-> "new"],
           \A i \in tr[Len(tr)].performed : i \notin from..to
    PROVE  Known(tr, r, w, u, d)
<1>00. /\ tr \in Seq(EntryRecords) /\ r \in Nat
       /\ Entries(tr, r) /\ BlindIn(tr) /\ EchoIn(tr, r)
       /\ DoubtsIn(tr, <<>>, u) /\ DoneIn(tr, r, <<>>, d)
  BY DEF Known
<1> USE <1>00
<1>1. DOMAIN w = from..to /\ \A i \in from..to : w[i] = "new"
  OBVIOUS
<1>2. \A k, i : ~AtWork(tr, <<>>, k, i)
  BY DEF AtWork
<1>3. \A k \in 1..Len(tr) : \A i \in tr[k].performed : ~AtWork(tr, w, k, i)
  BY <1>1 DEF AtWork
<1>4. DoubtsIn(tr, w, u)
  BY <1>2, <1>3 DEF DoubtsIn
<1>5. \A k \in 1..Len(tr) : \A i \in 1..Len(tr[k].calls) :
        HasDone(tr, w, k, i) <=> HasDone(tr, <<>>, k, i)
  BY <1>1, <1>2 DEF HasDone, AtWork
<1>6. Len(tr) \in Nat
  BY LenProperties
<1>7. DoneIn(tr, r, w, d)
  BY <1>5, <1>6, SameDone
<1> QED
  BY <1>4, <1>7 DEF Known

-----------------------------------------------------------------------------
(* A run begins with what is in doubt.                                     *)

\* The transcript tr2 is made of the replies of tr that at tells, in their order.
Picked(tr, tr2, at, len) ==
    /\ len \in Nat /\ at \in [1..len -> 1..Len(tr)]
    /\ \A m, n \in 1..len : m < n => at[m] < at[n]
    /\ tr2 = [m \in 1..len |-> tr[at[m]]]

\* The writes in doubt are all in u.
Doubted(tr, r, u) ==
    /\ tr \in Seq(EntryRecords) /\ r \in Nat /\ Entries(tr, r) /\ BlindIn(tr)
    /\ \A k \in 1..Len(tr) : \A i \in 1..Len(tr[k].calls) :
          tr[k].calls[i] \in Writes /\ StateIn(tr, k, i) \in {"none", "unknown"} =>
              tr[k].calls[i] \in u

LEMMA PickedKeeps ==
    ASSUME NEW tr, NEW r, NEW u, Doubted(tr, r, u),
           NEW tr2, NEW at, NEW len, Picked(tr, tr2, at, len)
    PROVE  /\ tr2 \in Seq(EntryRecords) /\ Entries(tr2, r + 1)
           /\ \A k \in 1..Len(tr2) : tr2[k].run # r + 1
           /\ BlindIn(tr2) /\ DoubtsIn(tr2, <<>>, u)
<1>00. /\ tr \in Seq(EntryRecords) /\ r \in Nat /\ Entries(tr, r) /\ BlindIn(tr)
       /\ \A k \in 1..Len(tr) : \A i \in 1..Len(tr[k].calls) :
             tr[k].calls[i] \in Writes /\ StateIn(tr, k, i) \in {"none", "unknown"} =>
                 tr[k].calls[i] \in u
  BY DEF Doubted
<1> USE <1>00
<1>1. Len(tr) \in Nat /\ tr \in [1..Len(tr) -> EntryRecords]
  BY LenProperties
<1>2. /\ len \in Nat /\ \A m \in 1..len : at[m] \in 1..Len(tr) /\ tr2[m] = tr[at[m]]
      /\ tr2 \in [1..len -> EntryRecords]
      /\ \A m, n \in 1..len : m < n => at[m] < at[n]
  BY <1>1 DEF Picked
<1>3. tr2 \in Seq(EntryRecords) /\ Len(tr2) = len
  BY <1>2, FunctionIsSeq
<1>4. \A k \in 1..len : \A i : StateIn(tr2, k, i) = StateIn(tr, at[k], i)
  BY <1>2 DEF StateIn
<1>5. \A k \in 1..len : tr2[k].run \in Nat /\ tr2[k].run <= r
  <2> SUFFICES ASSUME NEW k \in 1..len PROVE tr2[k].run \in Nat /\ tr2[k].run <= r
    OBVIOUS
  <2>1. tr2[k] \in EntryRecords /\ tr2[k] = tr[at[k]] /\ at[k] \in 1..Len(tr)
    BY <1>2
  <2> QED
    BY <2>1 DEF EntryRecords, Entries
<1>6. Entries(tr2, r + 1)
  <2> SUFFICES ASSUME NEW k \in 1..len
               PROVE  WellAnswered(tr2[k]) /\ tr2[k].run <= r + 1 /\ Len(tr2[k].calls) <= ReplyLength
    BY <1>3 DEF Entries
  <2>1. tr2[k] = tr[at[k]] /\ at[k] \in 1..Len(tr)
    BY <1>2
  <2>2. WellAnswered(tr2[k]) /\ Len(tr2[k].calls) <= ReplyLength
    BY <2>1 DEF Entries
  <2> QED
    BY <1>5, <2>2
<1>7. \A k \in 1..Len(tr2) : tr2[k].run # r + 1
  BY <1>3, <1>5
<1>8. \A k, i : ~AtWork(tr2, <<>>, k, i)
  BY DEF AtWork
<1>9. DoubtsIn(tr2, <<>>, u)
  <2> SUFFICES ASSUME NEW k \in 1..Len(tr2), NEW i \in tr2[k].performed, tr2[k].calls[i] \in Writes
               PROVE  StateIn(tr2, k, i) \notin {"none", "unknown"} \/ tr2[k].calls[i] \in u
    BY <1>8 DEF DoubtsIn
  <2>1. /\ at[k] \in 1..Len(tr) /\ tr2[k] = tr[at[k]]
        /\ StateIn(tr2, k, i) = StateIn(tr, at[k], i)
    BY <1>2, <1>3, <1>4
  <2>2. i \in 1..Len(tr[at[k]].calls)
    BY <2>1 DEF Entries, WellAnswered
  <2> QED
    BY <2>1, <2>2
<1>10. BlindIn(tr2)
  <2> SUFFICES ASSUME NEW k \in 1..Len(tr2), NEW n \in 1..Len(tr2),
                      NEW i \in tr2[k].performed, NEW j \in tr2[n].performed,
                      Later(k, i, n, j), tr2[k].calls[i] = tr2[n].calls[j],
                      tr2[n].calls[j] \in Writes, StateIn(tr2, k, i) \in {"none", "unknown"}
               PROVE  j \in tr2[n].consented
    BY DEF BlindIn
  <2>1. /\ at[k] \in 1..Len(tr) /\ at[n] \in 1..Len(tr)
        /\ tr2[k] = tr[at[k]] /\ tr2[n] = tr[at[n]]
        /\ StateIn(tr2, k, i) = StateIn(tr, at[k], i)
    BY <1>2, <1>3, <1>4
  <2>2. Later(at[k], i, at[n], j)
    <3>1. k < n \/ (k = n /\ j > i)
      BY <1>3 DEF Later
    <3>2. k < n => at[k] < at[n]
      BY <1>2, <1>3
    <3> QED
      BY <2>1, <3>1, <3>2 DEF Later
  <2> QED
    BY <2>1, <2>2 DEF BlindIn
<1> QED
  BY <1>3, <1>6, <1>7, <1>9, <1>10

\* In a run that has no reply yet nothing is done and nothing has failed.
LEMMA NothingYet ==
    ASSUME NEW tr, NEW r, \A k \in 1..Len(tr) : tr[k].run # r, NEW w, NEW d
    PROVE  EchoIn(tr, r) /\ DoneIn(tr, r, w, d) /\ FailuresStand(tr, r, {})
BY DEF EchoIn, DoneIn, FailuresStand, Stands

-----------------------------------------------------------------------------
(* What the guard makes of a result.                                       *)

Observing(g, op, state, g2) ==
    /\ GuardFits(g) /\ op \in Ops /\ g2 = Observed(g, op, state)
    /\ state \in {"succeeded", "failed", "rejected", "denied", "unknown"}

LEMMA ObservedGives ==
    ASSUME NEW g, NEW op, NEW state, NEW g2, Observing(g, op, state, g2)
    PROVE  /\ GuardFits(g2) /\ g.uncertain \subseteq g2.uncertain
           /\ op \in Writes /\ state = "unknown" => op \in g2.uncertain
           /\ op \notin Writes \/ state # "unknown" => g2.uncertain = g.uncertain
           /\ op \notin Writes \/ state # "succeeded" => g2.done = g.done
           /\ op \in Writes /\ state = "succeeded" =>
                /\ op \in g2.done
                /\ \A x \in g.done : x \in g2.done \/ Replaces(op, x)
<1>00. /\ GuardFits(g) /\ op \in Ops /\ g2 = Observed(g, op, state)
       /\ state \in {"succeeded", "failed", "rejected", "denied", "unknown"}
  BY DEF Observing
<1> USE <1>00
<1> DEFINE f       == ResourceOf[op]
           key     == <<KeyOf(op, state), state>>
           failed  == [g EXCEPT !.failures[key] = @ + 1, !.repeats[<<f, state>>] =
                           IF @ < RepeatLimit THEN @ + 1 ELSE @]
           done    == [g EXCEPT !.done = (@ \ (IF f = NoResource THEN {} ELSE {g.latest[f]})) \cup {op}]
           settled == [done EXCEPT
                         !.latest[f] = op,
                         !.blocked = [s \in DOMAIN @ \ {f, op} |-> @[s]],
                         !.repeats = [r \in DOMAIN @ |->
                                        IF r[1] = f /\ @[r] = RepeatLimit THEN 0 ELSE @[r]]]
<1>1. CASE op \notin Writes
  <2>1. g2 = g
    BY <1>1 DEF Observed
  <2> QED
    BY <1>1, <2>1
<1>2. CASE op \in Writes /\ state = "unknown"
  <2>1. g2 = [g EXCEPT !.uncertain = @ \cup {op}]
    BY <1>2 DEF Observed, FailureKinds
  <2>2. /\ DOMAIN g2 = DOMAIN g /\ g2.uncertain = g.uncertain \cup {op} /\ g2.done = g.done
        /\ g2.latest = g.latest
    BY <2>1 DEF GuardFits
  <2> QED
    BY <1>2, <2>2 DEF GuardFits
<1>3. CASE op \in Writes /\ state \in FailureKinds
  <2>1. \/ g2 = g \/ g2 = failed
        \/ \E b : g2 = [failed EXCEPT !.blocked = b]
    BY <1>3 DEF Observed, FailureKinds
  <2>2. /\ DOMAIN failed = DOMAIN g /\ failed.uncertain = g.uncertain /\ failed.done = g.done
        /\ failed.latest = g.latest
    BY DEF GuardFits
  <2>3. /\ DOMAIN g2 = DOMAIN g /\ g2.uncertain = g.uncertain /\ g2.done = g.done
        /\ g2.latest = g.latest
    <3> HIDE DEF failed
    <3> QED
      BY <2>1, <2>2 DEF GuardFits
  <2> QED
    BY <1>3, <2>3, SMTT(30) DEF GuardFits, FailureKinds
<1>4. CASE op \in Writes /\ state = "succeeded"
  <2>1. g2 = IF f = NoResource THEN done ELSE settled
    BY <1>4 DEF Observed, FailureKinds
  <2>2. /\ DOMAIN done = DOMAIN g /\ done.uncertain = g.uncertain /\ done.latest = g.latest
        /\ done.done = (g.done \ (IF f = NoResource THEN {} ELSE {g.latest[f]})) \cup {op}
    BY DEF GuardFits
  <2>3. f \in Resources \cup {NoResource}
    BY <1>4, ResourceAssumption
  <2> HIDE DEF done
  <2>4. CASE f = NoResource
    <3>1. /\ DOMAIN g2 = DOMAIN g /\ g2.uncertain = g.uncertain /\ g2.latest = g.latest
          /\ g2.done = g.done \cup {op}
      BY <2>1, <2>2, <2>4
    <3> QED
      BY <1>4, <3>1 DEF GuardFits
  <2>5. CASE f # NoResource
    <3>1. /\ DOMAIN g2 = DOMAIN g /\ g2.uncertain = g.uncertain
          /\ g2.latest = [g.latest EXCEPT ![f] = op]
          /\ g2.done = (g.done \ {g.latest[f]}) \cup {op}
      BY <2>1, <2>2, <2>5 DEF GuardFits
    <3>2. f \in Resources
      BY <2>3, <2>5
    <3>3. /\ g2.latest \in [Resources -> Writes \cup {NoResource}]
          /\ \A x \in Resources : g2.latest[x] \in Writes => ResourceOf[g2.latest[x]] = x
      BY <1>4, <3>1, <3>2 DEF GuardFits
    <3>4. GuardFits(g2)
      BY <1>4, <3>1, <3>3 DEF GuardFits
    <3>5. ASSUME NEW x \in g.done, x \notin g2.done PROVE Replaces(op, x)
      <4>1. x = g.latest[f] /\ x # op
        BY <3>1, <3>5
      <4>2. x \in Writes
        BY DEF GuardFits
      <4>3. ResourceOf[x] = f
        BY <3>2, <4>1, <4>2 DEF GuardFits
      <4> QED
        BY <1>4, <2>5, <4>1, <4>2, <4>3 DEF Replaces
    <3> QED
      BY <1>4, <3>1, <3>4, <3>5
  <2> QED
    BY <2>4, <2>5
<1> QED
  BY <1>1, <1>2, <1>3, <1>4 DEF FailureKinds


-----------------------------------------------------------------------------
(* What the tracker makes of the results of a group.                       *)

LEMMA TrackedFits ==
    ASSUME NEW t \in TrackerRecords, NEW k \in Nat, NEW i \in Nat, reply.calls[i] \in Ops,
           NEW state \in Results
    PROVE  Tracked(t, k, i, state) \in TrackerRecords
<1> DEFINE op == reply.calls[i]
           f  == [call |-> <<k, i>>, operation |-> OperationOf(op), unknown |-> state = "unknown"]
<1>1. OperationOf(op) \in Ops \cup Resources
  BY ResourceAssumption DEF OperationOf
<1>2. f \in FailureRecords
  BY <1>1 DEF FailureRecords
<1>3. /\ t.failures \subseteq FailureRecords /\ t.ran \in BOOLEAN /\ t.checks \in Nat
  BY DEF TrackerRecords
<1>4. t.failures \cup {f} \subseteq FailureRecords
  BY <1>2, <1>3
<1>5. {x \in t.failures : x.unknown \/ x.operation # OperationOf(op)} \subseteq FailureRecords
  BY <1>3
<1>6. (t.ran \/ state \notin {"refused", "denied"}) \in BOOLEAN
  OBVIOUS
<1> HIDE DEF f
<1>7. CASE state = "skipped"
  BY <1>7 DEF Tracked
<1>8. CASE state # "skipped" /\ state \in Errors
  <2>1. Tracked(t, k, i, state) = [failures |-> t.failures \cup {f},
                                   ran |-> t.ran \/ state \notin {"refused", "denied"},
                                   checks |-> t.checks]
    BY <1>8 DEF Tracked, f
  <2> QED
    BY <1>3, <1>4, <1>6, <2>1 DEF TrackerRecords
<1>9. CASE state # "skipped" /\ state \notin Errors
  <2>1. Tracked(t, k, i, state) =
          [failures |-> {x \in t.failures : x.unknown \/ x.operation # OperationOf(op)},
           ran |-> t.ran \/ state \notin {"refused", "denied"}, checks |-> t.checks]
    BY <1>9 DEF Tracked
  <2> QED
    BY <1>3, <1>5, <1>6, <2>1 DEF TrackerRecords
<1> QED
  BY <1>7, <1>8, <1>9

\* Results one by one are the results of the group.
LEMMA OneMore ==
    ASSUME NEW tr \in Seq(EntryRecords), tr # <<>>, NEW from \in Nat, NEW n \in Nat, NEW w,
           from <= n + 1, n + 1 <= Len(tr[Len(tr)].calls), w[n + 1] \in Results,
           NEW x, AnsweredTo(tr, x, from, n, w)
    PROVE  \E x2 : \E s : /\ s[n + 1] = w[n + 1] /\ AnsweredTo(x, x2, n + 1, n + 1, s)
                          /\ AnsweredTo(tr, x2, from, n + 1, w)
<1>1. PICK last : last = Len(tr)
  OBVIOUS
<1>2. last \in Nat /\ last \in 1..last
  BY <1>1, EmptySeq, LenProperties
<1>3. /\ x \in Seq(EntryRecords) /\ Len(x) = last
      /\ \A k \in 1..last :
           /\ x[k].run = tr[k].run /\ x[k].calls = tr[k].calls
           /\ x[k].performed = tr[k].performed /\ x[k].consented = tr[k].consented
           /\ k # last => x[k].results = tr[k].results
      /\ WellAnswered(x[last]) /\ Len(x[last].results) = n
      /\ \A k \in 1..last : \A i \in 1..Len(tr[k].calls) :
           StateIn(x, k, i) = IF k = last /\ i \in from..n THEN w[i] ELSE StateIn(tr, k, i)
  BY <1>1 DEF AnsweredTo
<1>4. PICK j : j = n + 1
  OBVIOUS
<1>5. PICK s : s = [i \in j..j |-> w[i]]
  OBVIOUS
<1>6. s \in [j..j -> Results] /\ s[j] = w[j] /\ j \in Nat
  <2>1. \A i \in j..j : i = j
    BY <1>4
  <2> QED
    BY <1>4, <1>5, <2>1
<1>7. PICK more : more = [i \in 1..(j + 1 - j) |-> [call |-> j + i - 1, state |-> s[j + i - 1]]]
  OBVIOUS
<1>8. ResultsFor(more, j, j, s)
  <2>1. \A i \in 1..(j + 1 - j) : i = 1 /\ j + i - 1 = j
    BY <1>4
  <2>2. \A i \in 1..(j + 1 - j) : [call |-> j + i - 1, state |-> s[j + i - 1]] \in ResultRecords
    BY <1>6, <2>1 DEF ResultRecords
  <2>3. more \in [1..(j + 1 - j) -> ResultRecords]
    BY <1>7, <2>2
  <2>4. \A i \in 1..(j + 1 - j) : more[i] = [call |-> j + i - 1, state |-> s[j + i - 1]]
    BY <1>7
  <2>5. j <= j + 1
    BY <1>4
  <2> QED
    BY <1>6, <2>3, <2>4, <2>5 DEF ResultsFor
<1>9. PICK x2 : x2 = [x EXCEPT ![Len(x)].results = @ \o more]
  OBVIOUS
<1>10. AnsweredTo(x, x2, j, j, s)
  <2>1. x # <<>>
    BY <1>2, <1>3, EmptySeq
  <2>2. /\ WellAnswered(x[Len(x)]) /\ j = Len(x[Len(x)].results) + 1
        /\ j <= Len(x[Len(x)].calls)
    BY <1>1, <1>2, <1>3, <1>4
  <2> QED
    BY <1>3, <1>8, <1>9, <2>1, <2>2, AnsweringIs
<1>11. AnsweredTo(tr, x2, from, j, w)
  <2>1. /\ x2 \in Seq(EntryRecords) /\ Len(x2) = last
        /\ \A k \in 1..last :
             /\ x2[k].run = x[k].run /\ x2[k].calls = x[k].calls
             /\ x2[k].performed = x[k].performed /\ x2[k].consented = x[k].consented
             /\ k # last => x2[k].results = x[k].results
        /\ WellAnswered(x2[last]) /\ Len(x2[last].results) = j
        /\ \A k \in 1..last : \A i \in 1..Len(x[k].calls) :
             StateIn(x2, k, i) = IF k = last /\ i \in j..j THEN s[i] ELSE StateIn(x, k, i)
    BY <1>3, <1>10 DEF AnsweredTo
  <2>2. ASSUME NEW k \in 1..last, NEW i \in 1..Len(tr[k].calls)
        PROVE  StateIn(x2, k, i) = IF k = last /\ i \in from..j THEN w[i] ELSE StateIn(tr, k, i)
    <3>1. /\ StateIn(x, k, i) = IF k = last /\ i \in from..n THEN w[i] ELSE StateIn(tr, k, i)
          /\ StateIn(x2, k, i) = IF k = last /\ i \in j..j THEN s[i] ELSE StateIn(x, k, i)
      BY <1>3, <2>1
    <3>2. CASE i \in j..j
      <4>1. i = j /\ i \in from..j
        BY <1>4, <3>2
      <4> QED
        BY <1>6, <3>1, <3>2, <4>1
    <3>3. CASE i \notin j..j
      <4>1. i \in from..j <=> i \in from..n
        BY <1>4, <3>3
      <4> QED
        BY <3>1, <3>3, <4>1
    <3> QED
      BY <3>2, <3>3
  <2>3. \A k \in 1..last :
          /\ x2[k].run = tr[k].run /\ x2[k].calls = tr[k].calls
          /\ x2[k].performed = tr[k].performed /\ x2[k].consented = tr[k].consented
          /\ k # last => x2[k].results = tr[k].results
    BY <1>3, <2>1
  <2> QED
    BY <1>1, <2>1, <2>2, <2>3 DEF AnsweredTo
<1> QED
  BY <1>4, <1>6, <1>10, <1>11

Trackable(tr, r, w, from, to, t0) ==
    /\ GroupOn(tr, w, from, to) /\ w \in [from..to -> Results]
    /\ WellAnswered(tr[Len(tr)]) /\ tr[Len(tr)].run = r
    /\ tr[Len(tr)].calls = reply.calls /\ reply.calls \in Seq(Ops)
    /\ t0 \in TrackerRecords /\ FailuresStand(tr, r, t0.failures)

TrackedBy(seen, tr, w, from, to, t0) ==
    /\ seen[from - 1] = t0
    /\ \A i \in from..to : seen[i] = Tracked(seen[i - 1], Len(tr), i, w[i])

LEMMA GroupTracked ==
    ASSUME NEW tr, NEW r, NEW w, NEW from, NEW to, NEW t0, Trackable(tr, r, w, from, to, t0),
           NEW seen, TrackedBy(seen, tr, w, from, to, t0),
           NEW tr2, AnsweredTo(tr, tr2, from, to, w)
    PROVE  seen[to] \in TrackerRecords /\ FailuresStand(tr2, r, seen[to].failures)
<1>00. /\ GroupOn(tr, w, from, to) /\ w \in [from..to -> Results]
       /\ WellAnswered(tr[Len(tr)]) /\ tr[Len(tr)].run = r
       /\ tr[Len(tr)].calls = reply.calls /\ reply.calls \in Seq(Ops)
       /\ t0 \in TrackerRecords /\ FailuresStand(tr, r, t0.failures)
  BY DEF Trackable
<1>01. /\ seen[from - 1] = t0
       /\ \A i \in from..to : seen[i] = Tracked(seen[i - 1], Len(tr), i, w[i])
  BY DEF TrackedBy
<1> USE <1>00, <1>01
<1>1. PICK last : last = Len(tr)
  OBVIOUS
<1>2. /\ tr \in Seq(EntryRecords) /\ tr # <<>> /\ last \in Nat /\ last \in 1..last
      /\ from \in Nat /\ to \in Nat /\ from <= to
      /\ from = Len(tr[last].results) + 1 /\ to <= Len(tr[last].calls)
      /\ Len(tr[last].results) \in Nat /\ Len(tr[last].calls) \in Nat
  BY <1>1, GroupFacts DEF GroupOn
<1>3. PICK a : a = from - 1
  OBVIOUS
<1> DEFINE Told(n) == \E x : AnsweredTo(tr, x, from, n, w) /\ FailuresStand(x, r, seen[n].failures)
           S == {n \in a..to : seen[n] \in TrackerRecords /\ Told(n)}
<1>4. a \in Nat /\ a \in a..to
  BY <1>2, <1>3
<1>5. a \in S
  <2>1. \A k \in 1..last : \A i \in 1..Len(tr[k].calls) : ~(i \in from..a)
    BY <1>2, <1>3
  <2>2. Len(tr[last].results) = a
    BY <1>2, <1>3
  <2>3. AnsweredTo(tr, tr, from, a, w)
    BY <1>1, <1>2, <2>1, <2>2 DEF AnsweredTo
  <2>4. seen[a] = t0
    BY <1>3
  <2> QED
    BY <1>4, <2>3, <2>4
<1>6. ASSUME NEW n \in a..to, n \in S, n < to PROVE n + 1 \in S
  <2>1. PICK x : AnsweredTo(tr, x, from, n, w) /\ FailuresStand(x, r, seen[n].failures)
    BY <1>6
  <2>2. /\ n \in Nat /\ n + 1 \in from..to /\ from <= n + 1 /\ n + 1 \in a..to
        /\ n + 1 <= Len(tr[last].calls) /\ n + 1 \in 1..Len(tr[last].calls)
    <3>1. n \in a..to /\ n < to
      BY <1>6, Zenon
    <3>2. PICK size : size = Len(tr[last].calls)
      OBVIOUS
    <3>3. /\ from \in Nat /\ to \in Nat /\ a \in Nat /\ size \in Nat
          /\ a = from - 1 /\ to <= size
      BY <1>2, <1>3, <1>4, <3>2, Zenon
    <3>4. /\ n \in Nat /\ n + 1 \in from..to /\ from <= n + 1 /\ n + 1 \in a..to
          /\ n + 1 <= size /\ n + 1 \in 1..size
      <4> HIDE <1>00, <1>01
      <4> HIDE DEF S, Told
      <4> QED
        BY <3>1, <3>3
    <3> QED
      BY <3>2, <3>4, Zenon
  <2>3. w[n + 1] \in Results
    BY <2>2
  <2>4. PICK x2 : \E s : /\ s[n + 1] = w[n + 1] /\ AnsweredTo(x, x2, n + 1, n + 1, s)
                         /\ AnsweredTo(tr, x2, from, n + 1, w)
    BY <1>1, <1>2, <2>1, <2>2, <2>3, OneMore
  <2>5. PICK s : /\ s[n + 1] = w[n + 1] /\ AnsweredTo(x, x2, n + 1, n + 1, s)
                 /\ AnsweredTo(tr, x2, from, n + 1, w)
    BY <2>4
  <2>6. /\ x \in Seq(EntryRecords) /\ Len(x) = last /\ Len(x[last].results) = n
        /\ x[last].run = tr[last].run /\ x[last].calls = tr[last].calls
    BY <1>1, <1>2, <2>1 DEF AnsweredTo
  <2>7. x # <<>>
    BY <1>2, <2>6, EmptySeq
  <2>8. PICK j : j = n + 1
    OBVIOUS
  <2>9. /\ x[Len(x)].run = r /\ x[Len(x)].calls = reply.calls
        /\ j = Len(x[Len(x)].results) + 1 /\ j \in 1..Len(x[Len(x)].calls)
        /\ s[j] \in Results /\ AnsweredTo(x, x2, j, j, s)
    BY <1>1, <2>2, <2>3, <2>5, <2>6, <2>8
  <2>10. PICK t : t = seen[n]
    OBVIOUS
  <2>11. t \in TrackerRecords /\ FailuresStand(x, r, t.failures)
    BY <1>6, <2>1, <2>10
  <2>12. FailuresStand(x2, r, Tracked(t, Len(x), j, s[j]).failures)
    BY <2>6, <2>7, <2>9, <2>11, OneTracked
  <2>13. seen[j] = Tracked(t, Len(x), j, s[j])
    <3>1. seen[n + 1] = Tracked(seen[(n + 1) - 1], Len(tr), n + 1, w[n + 1])
      BY <2>2
    <3>2. (n + 1) - 1 = n
      BY <2>2
    <3> QED
      BY <1>1, <2>5, <2>6, <2>8, <2>10, <3>1, <3>2
  <2>14. seen[j] \in TrackerRecords
    <3>1. reply.calls[j] \in Ops
      BY <1>1, <2>2, <2>8, ElementOfSeq
    <3>2. Len(x) \in Nat /\ j \in Nat
      BY <1>2, <2>2, <2>6, <2>8
    <3> QED
      BY <2>9, <2>11, <2>13, <3>1, <3>2, TrackedFits
  <2> QED
    BY <2>2, <2>5, <2>8, <2>12, <2>13, <2>14
<1>7. \A n \in a..to : n \in S
  <2> HIDE DEF S
  <2> QED
    BY <1>2, <1>4, <1>5, <1>6, Climbing
<1>8. to \in S
  <2>1. to \in a..to
    BY <1>2, <1>3
  <2> QED
    BY <1>7, <2>1
<1>9. PICK x : AnsweredTo(tr, x, from, to, w) /\ FailuresStand(x, r, seen[to].failures)
  BY <1>8
<1>10. /\ Len(x) = last /\ Len(tr2) = Len(x)
       /\ \A k \in 1..Len(x) : tr2[k].run = x[k].run /\ tr2[k].calls = x[k].calls
       /\ \A k \in 1..Len(x) : \A i \in 1..Len(x[k].calls) : StateIn(tr2, k, i) = StateIn(x, k, i)
  <2>1. AnsweredTo(tr, tr2, from, to, w)
    BY <1>1
  <2>2. Len(x) = Len(tr) /\ Len(tr2) = Len(tr) /\ Len(tr) = last
    BY <1>1, <1>9, <2>1 DEF AnsweredTo
  <2>3. \A k \in 1..Len(tr) : /\ tr2[k].run = tr[k].run /\ tr2[k].calls = tr[k].calls
                              /\ x[k].run = tr[k].run /\ x[k].calls = tr[k].calls
    BY <1>9, <2>1, Zenon DEF AnsweredTo
  <2>4. ASSUME NEW k \in 1..Len(tr), NEW i \in 1..Len(tr[k].calls)
        PROVE  StateIn(tr2, k, i) = StateIn(x, k, i)
    <3>1. PICK v : v = IF k = Len(tr) /\ i \in from..to THEN w[i] ELSE StateIn(tr, k, i)
      OBVIOUS
    <3>2. StateIn(tr2, k, i) = v
      BY <2>1, <2>4, <3>1, Zenon DEF AnsweredTo
    <3>3. StateIn(x, k, i) = v
      BY <1>9, <2>4, <3>1, Zenon DEF AnsweredTo
    <3> QED
      BY <3>2, <3>3, Zenon
  <2> QED
    BY <2>2, <2>3, <2>4
<1>11. FailuresStand(tr2, r, seen[to].failures)
  BY <1>2, <1>9, <1>10, SameFailures
<1> QED
  BY <1>8, <1>11

\* The trackers that follow one another, as the recursion defines them.
SeenFrom(w, from, to, last, t0) ==
    /\ from \in Nat /\ to \in Nat /\ from >= 1 /\ from <= to /\ w \in [from..to -> Results]
    /\ \A i \in from..to : reply.calls[i] \in Ops
    /\ last \in Nat /\ t0 \in TrackerRecords

SeenIs(seen, w, from, to, last, t0) ==
    seen = [i \in (from - 1)..to |->
              IF i < from THEN t0 ELSE Tracked(seen[i - 1], last, i, w[i])]

LEMMA SeenExists ==
    ASSUME NEW w, NEW from, NEW to, NEW last, NEW t0, SeenFrom(w, from, to, last, t0)
    PROVE  \E seen : SeenIs(seen, w, from, to, last, t0)
<1>00. /\ from \in Nat /\ to \in Nat /\ from >= 1 /\ from <= to /\ w \in [from..to -> Results]
       /\ \A i \in from..to : reply.calls[i] \in Ops
       /\ last \in Nat /\ t0 \in TrackerRecords
  BY DEF SeenFrom
<1> USE <1>00 DEF SeenIs
<1>1. PICK a : a = from - 1
  OBVIOUS
<1>2. a \in Nat /\ a <= to /\ from = a + 1
  BY <1>1
<1> DEFINE g == [p \in ((a + 1)..to) \X TrackerRecords |-> Tracked(p[2], last, p[1], w[p[1]])]
<1>3. g \in [((a + 1)..to) \X TrackerRecords -> TrackerRecords]
  <2>1. ASSUME NEW i \in (a + 1)..to, NEW t \in TrackerRecords
        PROVE  Tracked(t, last, i, w[i]) \in TrackerRecords
    <3>1. i \in from..to /\ i \in Nat
      BY <1>2
    <3>2. w[i] \in Results /\ reply.calls[i] \in Ops
      BY <3>1
    <3> QED
      BY <3>1, <3>2, TrackedFits
  <2> QED
    BY <2>1
<1>4. PICK h \in [a..to -> TrackerRecords] :
        h[a] = t0 /\ \A n \in (a + 1)..to : h[n] = g[<<n, h[n - 1]>>]
  <2>1. StepsOn(g, TrackerRecords, a, to)
    BY <1>2, <1>3 DEF StepsOn
  <2> HIDE DEF g
  <2>2. PICK h : FollowsFrom(h, g, t0, TrackerRecords, a, to)
    BY <2>1, Recursion
  <2> QED
    BY <2>2 DEF FollowsFrom
<1>5. ASSUME NEW i \in a..to
      PROVE  h[i] = IF i < from THEN t0 ELSE Tracked(h[i - 1], last, i, w[i])
  <2>1. CASE i = a
    BY <1>2, <1>4, <2>1
  <2>2. CASE i # a
    <3>1. i \in (a + 1)..to /\ i - 1 \in a..to /\ ~(i < from)
      BY <1>2, <2>2
    <3>2. h[i - 1] \in TrackerRecords /\ h[i] = g[<<i, h[i - 1]>>]
      BY <1>4, <3>1
    <3>3. g[<<i, h[i - 1]>>] = Tracked(h[i - 1], last, i, w[i])
      BY <3>1, <3>2
    <3> QED
      BY <3>1, <3>2, <3>3
  <2> QED
    BY <2>1, <2>2
<1>6. h = [i \in a..to |-> h[i]]
  BY <1>4
<1>7. h = [i \in a..to |-> IF i < from THEN t0 ELSE Tracked(h[i - 1], last, i, w[i])]
  BY <1>5, <1>6
<1> QED
  BY <1>1, <1>7


-----------------------------------------------------------------------------
(* How a run ends.                                                         *)

LEMMA NewGuardFits ==
    ASSUME NEW u \in SUBSET Writes
    PROVE  GuardFits(NewGuard(u)) /\ NewGuard(u).uncertain = u /\ NewGuard(u).done = {}
BY ResourceAssumption DEF NewGuard, GuardFits

\* What a run may leave behind that ends this way.
Left(how, tr, r, t) ==
    /\ how \in {"completed", "budget", "canceled", "failed", "crashed"}
    /\ tr \in Seq(EntryRecords) /\ r \in Nat /\ t \in TrackerRecords
    /\ Entries(tr, r) /\ BlindIn(tr) /\ EchoIn(tr, r)
    /\ how \in {"completed", "budget"} => FullyAnswered(tr, r, 1..Len(tr))
    /\ how = "completed" => FailuresStand(tr, r, t.failures)

LEMMA EndKeeps ==
    ASSUME NEW how, End(how), NEW tr, transcript' = tr, NEW r, runs' = r, NEW t, tracker' = t,
           Left(how, tr, r, t)
    PROVE  HarnessInv'
<1> USE DEF Left
<1>1. /\ phase' = "idle" /\ outcome' = how /\ count' = NewCount
      /\ reply' = NoReply /\ next' = 1 /\ work' = <<>> /\ guard' = NewGuard({})
  BY DEF End
<1>2. GuardFits(guard)'
  <2>1. GuardFits(NewGuard({}))
    BY NewGuardFits
  <2> QED
    BY <1>1, <2>1 DEF GuardFits
<1>3. reply' \in [kind : Replies, calls : Seq(Ops), verdict : Verdicts] /\ reply'.calls = <<>>
      /\ reply'.kind # "calls" /\ reply'.verdict = "none" /\ Len(reply'.calls) <= ReplyLength
  BY <1>1, EmptySeq, LimitAssumption DEF NoReply, Replies, Verdicts
<1>4. HarnessShape'
  BY <1>1, <1>2, <1>3 DEF HarnessShape, NewCount, CountRecords
<1>5. ~InReply'
  BY <1>1 DEF InReply
<1>6. AllAnswered'
  <2>1. {k \in 1..Len(tr) : TRUE} = 1..Len(tr)
    OBVIOUS
  <2>2. outcome' \in {"completed", "budget"} => FullyAnswered(tr, r, 1..Len(tr))
    BY <1>1
  <2>3. outcome' \in {"completed", "budget"} =>
          FullyAnswered(tr, r, {k \in 1..Len(tr) : InReply' => k # Len(tr)})
    BY <1>5, <2>2 DEF FullyAnswered
  <2> QED
    BY <1>1, <2>3 DEF AllAnswered, FullyAnswered
<1>7. GroupFits' /\ ReplyFits' /\ ClearedIsFree' /\ KnownToGuard'
  BY <1>1, <1>5 DEF GroupFits, ReplyFits, ClearedIsFree, KnownToGuard
<1>8. Entries(transcript, runs)' /\ BlindIn(transcript)' /\ EchoIn(transcript, runs)'
  OBVIOUS
<1>9. KnownToTracker'
  <2>1. tracker'.failures = t.failures
    OBVIOUS
  <2> QED
    BY <1>1, <2>1 DEF KnownToTracker
<1> QED
  BY <1>4, <1>6, <1>7, <1>8, <1>9 DEF HarnessInv


\* Where a budget ends a run: the reply in hand, if it has calls, is the last
\* entry, and has its results up to the given call.
Ending(tr, r, from) ==
    /\ tr \in Seq(EntryRecords) /\ r \in Nat /\ Entries(tr, r) /\ BlindIn(tr) /\ EchoIn(tr, r)
    /\ reply.calls = <<>> => from = 1 /\ FullyAnswered(tr, r, 1..Len(tr))
    /\ reply.calls # <<>> =>
         /\ reply.calls \in Seq(Ops) /\ InHand(tr, r, reply.calls, from)
         /\ tr[Len(tr)].performed \subseteq 1..(from - 1)
         /\ \A k \in 1..Len(tr) :
              k # Len(tr) /\ tr[k].run = r => Len(tr[k].results) = Len(tr[k].calls)

LEMMA RefusedKeeps ==
    ASSUME NEW tr, NEW r, NEW from, Ending(tr, r, from), reply.calls # <<>>,
           NEW to \in Nat, from <= to, to <= Len(reply.calls), NEW tr2,
           tr2 = Answering(tr, from, to, NotRun)
    PROVE  /\ tr2 \in Seq(EntryRecords) /\ Entries(tr2, r) /\ BlindIn(tr2) /\ EchoIn(tr2, r)
           /\ to = Len(reply.calls) => FullyAnswered(tr2, r, 1..Len(tr2))
<1>1. /\ tr \in Seq(EntryRecords) /\ r \in Nat /\ Entries(tr, r) /\ BlindIn(tr) /\ EchoIn(tr, r)
      /\ tr # <<>> /\ tr[Len(tr)].run = r /\ tr[Len(tr)].calls = reply.calls
      /\ from = Len(tr[Len(tr)].results) + 1
      /\ tr[Len(tr)].performed \subseteq 1..(from - 1)
      /\ \A k \in 1..Len(tr) :
              k # Len(tr) /\ tr[k].run = r => Len(tr[k].results) = Len(tr[k].calls)
  BY DEF Ending, InHand
<1>2. Len(tr) \in 1..Len(tr) /\ tr \in [1..Len(tr) -> EntryRecords]
  BY <1>1, EmptySeq, LenProperties, SMTT(30)
<1>3. WellAnswered(tr[Len(tr)])
  BY <1>1, <1>2 DEF Entries
<1>4. from \in Nat /\ from >= 1
  <2>1. tr[Len(tr)].results \in Seq(ResultRecords)
    BY <1>2 DEF EntryRecords
  <2>2. Len(tr[Len(tr)].results) \in Nat
    BY <2>1, LenProperties
  <2> QED
    BY <1>1, <2>2
<1>5. PICK s : s = [i \in from..to |-> "refused"]
  OBVIOUS
<1>6. PICK more : more = [n \in 1..(to + 1 - from) |-> [call |-> from + n - 1, state |-> "refused"]]
  OBVIOUS
<1>7. ResultsFor(more, from, to, s)
  <2>1. s \in [from..to -> Results]
    BY <1>5 DEF Results, Errors
  <2>2. ASSUME NEW n \in 1..(to + 1 - from)
        PROVE  /\ more[n] = [call |-> from + n - 1, state |-> s[from + n - 1]]
               /\ more[n] \in ResultRecords
    <3>1. from + n - 1 \in from..to
      BY <1>4
    <3> QED
      BY <1>4, <1>5, <1>6, <3>1 DEF ResultRecords, Results, Errors
  <2>3. more \in [1..(to + 1 - from) -> ResultRecords]
    BY <1>6, <2>2
  <2> QED
    BY <1>4, <2>1, <2>2, <2>3 DEF ResultsFor
<1>8. tr2 = [tr EXCEPT ![Len(tr)].results = @ \o more]
  BY <1>4, <1>6 DEF Answering, NotRun
<1>9. AnsweredTo(tr, tr2, from, to, s)
  BY <1>1, <1>3, <1>7, <1>8, AnsweringIs
<1>10. \A j \in tr[Len(tr)].performed, i \in from..to :
          j <= i \/ tr[Len(tr)].calls[j] \notin Writes
  BY <1>1, <1>4
<1>11. Entries(tr2, r) /\ BlindIn(tr2) /\ EchoIn(tr2, r)
  <2>1. Answerable(tr, r, from, to)
    BY <1>1, <1>10 DEF Answerable
  <2> QED
    BY <2>1, <1>9, AnsweredKeeps
<1>12. tr2 \in Seq(EntryRecords) /\ Len(tr2) = Len(tr)
  BY <1>9 DEF AnsweredTo
<1>13. ASSUME to = Len(reply.calls), NEW k \in 1..Len(tr), tr2[k].run = r
       PROVE  Len(tr2[k].results) = Len(tr2[k].calls)
  BY <1>1, <1>9, <1>13, SMTT(30) DEF AnsweredTo
<1> QED
  BY <1>11, <1>12, <1>13 DEF FullyAnswered

LEMMA BudgetKeeps ==
    ASSUME NEW tr, NEW from, NEW r, runs = r, Ending(tr, r, from), BudgetExit(tr, from),
           NEW t \in TrackerRecords, tracker' = t
    PROVE  HarnessInv'
<1>1. PICK size : size = Len(reply.calls)
  OBVIOUS
<1>2. size \in Nat
  BY <1>1, LenProperties, EmptySeq DEF Ending
<1>3. /\ from \in Nat /\ from >= 1 /\ from <= size + 1
      /\ reply.calls # <<>> => from = Len(tr[Len(tr)].results) + 1 /\ Len(tr[Len(tr)].results) \in Nat
  <2>1. CASE reply.calls = <<>>
    BY <1>2, <2>1 DEF Ending
  <2>2. CASE reply.calls # <<>>
    <3>1. tr \in Seq(EntryRecords) /\ tr # <<>> /\ Entries(tr, r)
          /\ tr[Len(tr)].calls = reply.calls /\ from = Len(tr[Len(tr)].results) + 1
      BY <2>2 DEF Ending, InHand
    <3>2. Len(tr) \in 1..Len(tr) /\ tr \in [1..Len(tr) -> EntryRecords]
      BY <3>1, EmptySeq, LenProperties
    <3>3. WellAnswered(tr[Len(tr)]) /\ tr[Len(tr)].results \in Seq(ResultRecords)
      BY <3>1, <3>2 DEF Entries, EntryRecords
    <3>4. Len(tr[Len(tr)].results) \in Nat
      BY <3>3, LenProperties
    <3> QED
      BY <1>1, <1>2, <3>1, <3>3, <3>4 DEF WellAnswered
  <2> QED
    BY <2>1, <2>2
<1>4. PICK tr2 : transcript' = tr2
  OBVIOUS
<1>5. /\ runs' = r
      /\ \/ tr2 = Answering(tr, from, size, NotRun) /\ End("budget")
         \/ \E n \in from..(size + 1) : tr2 = Answering(tr, from, n - 1, NotRun) /\ End("failed")
  BY <1>1, <1>4 DEF BudgetExit
<1>6. PICK to \in Nat, how \in {"budget", "failed"} :
        /\ from <= to + 1 /\ to <= size /\ (how = "budget" => to = size)
        /\ tr2 = Answering(tr, from, to, NotRun) /\ End(how)
  <2>1. CASE tr2 = Answering(tr, from, size, NotRun) /\ End("budget")
    BY <1>2, <1>3, <2>1
  <2>2. ASSUME NEW n \in from..(size + 1), tr2 = Answering(tr, from, n - 1, NotRun), End("failed")
        PROVE  \E to \in Nat, how \in {"budget", "failed"} :
                 /\ from <= to + 1 /\ to <= size /\ (how = "budget" => to = size)
                 /\ tr2 = Answering(tr, from, to, NotRun) /\ End(how)
    <3>1. n - 1 \in Nat /\ from <= (n - 1) + 1 /\ n - 1 <= size
      BY <1>2, <1>3
    <3> QED
      BY <2>2, <3>1
  <2> QED
    BY <1>5, <2>1, <2>2
<1>7. Left(how, tr2, r, t)
  <2>1. CASE from <= to
    <3>1. reply.calls # <<>>
      BY <1>1, <1>2, <1>3, <1>6, <2>1, EmptySeq DEF Ending
    <3>2. /\ tr2 \in Seq(EntryRecords) /\ Entries(tr2, r) /\ BlindIn(tr2) /\ EchoIn(tr2, r)
          /\ to = Len(reply.calls) => FullyAnswered(tr2, r, 1..Len(tr2))
      BY <1>1, <1>6, <2>1, <3>1, RefusedKeeps
    <3> QED
      BY <1>1, <1>6, <3>2 DEF Left, Ending
  <2>2. CASE to < from
    <3>1. tr2 = tr
      BY <1>6, <2>2 DEF Answering
    <3>2. ASSUME to = size PROVE FullyAnswered(tr, r, 1..Len(tr))
      <4>1. CASE reply.calls = <<>>
        BY <4>1 DEF Ending
      <4>2. CASE reply.calls # <<>>
        <5>1. Len(tr[Len(tr)].results) = size
          BY <1>2, <1>3, <1>6, <2>2, <3>2, <4>2
        <5>2. tr[Len(tr)].calls = reply.calls
          BY <4>2 DEF Ending, InHand
        <5>3. \A k \in 1..Len(tr) :
                k # Len(tr) /\ tr[k].run = r => Len(tr[k].results) = Len(tr[k].calls)
          BY <4>2 DEF Ending
        <5> QED
          BY <1>1, <5>1, <5>2, <5>3 DEF FullyAnswered
      <4> QED
        BY <4>1, <4>2
    <3> QED
      BY <1>6, <3>1, <3>2 DEF Left, Ending
  <2> QED
    BY <1>3, <1>6, <2>1, <2>2
<1> QED
  BY <1>4, <1>5, <1>6, <1>7, EndKeeps


-----------------------------------------------------------------------------
(* The turns.                                                              *)

\* What is durable and known stays, and so does what is said of it.
LEMMA SameRecords ==
    ASSUME HarnessInv, phase # "idle", UNCHANGED <<transcript, runs, guard, tracker, work>>
    PROVE  /\ Entries(transcript, runs)' /\ BlindIn(transcript)' /\ EchoIn(transcript, runs)'
           /\ KnownToGuard' /\ KnownToTracker'
<1>1. Entries(transcript, runs)' /\ BlindIn(transcript)' /\ EchoIn(transcript, runs)'
  <2>1. Entries(transcript, runs) /\ BlindIn(transcript) /\ EchoIn(transcript, runs)
    BY DEF HarnessInv
  <2> QED
    BY <2>1
<1>2. KnownToGuard'
  <2>1. DoubtsIn(transcript, work, guard.uncertain) /\ DoneIn(transcript, runs, work, guard.done)
    BY DEF HarnessInv, KnownToGuard
  <2>2. DoubtsIn(transcript, work, guard.uncertain)' /\ DoneIn(transcript, runs, work, guard.done)'
    BY <2>1
  <2> QED
    BY <2>2 DEF KnownToGuard
<1>3. KnownToTracker'
  <2>1. FailuresStand(transcript, runs, tracker.failures)
    BY DEF HarnessInv, KnownToTracker
  <2>2. FailuresStand(transcript, runs, tracker.failures)'
    BY <2>1
  <2> QED
    BY <2>2 DEF KnownToTracker
<1> QED
  BY <1>1, <1>2, <1>3

\* A run that fails, is canceled or crashes, wherever it was.
LEMMA BreakKeeps ==
    ASSUME HarnessInv, NEW how \in {"canceled", "failed", "crashed"}, End(how),
           UNCHANGED <<transcript, runs, tracker>>
    PROVE  HarnessInv'
<1>1. PICK tr, r, t : tr = transcript /\ r = runs /\ t = tracker
  OBVIOUS
<1>2. Left(how, tr, r, t)
  BY <1>1 DEF Left, HarnessInv, HarnessShape
<1>3. transcript' = tr /\ runs' = r /\ tracker' = t
  BY <1>1
<1> QED
  BY <1>2, <1>3, EndKeeps

\* Where no reply with calls is in hand, the budget ends the run with nothing
\* to add.
LEMMA NothingToAdd ==
    ASSUME HarnessInv, phase # "idle", reply.calls = <<>>
    PROVE  Ending(transcript, runs, 1)
<1>1. ~InReply
  BY DEF HarnessInv, HarnessShape, InReply, ReplyFits
<1>2. FullyAnswered(transcript, runs, 1..Len(transcript))
  BY <1>1 DEF HarnessInv, AllAnswered, FullyAnswered
<1> QED
  BY <1>2 DEF Ending, HarnessInv, HarnessShape

\* Where one is in hand, the calls from the next on get their results.
LEMMA RestToAdd ==
    ASSUME HarnessInv, InReply, phase # "tools"
    PROVE  Ending(transcript, runs, next)
<1>1. /\ reply.calls # <<>> /\ InHand(transcript, runs, reply.calls, next)
      /\ transcript[Len(transcript)].performed \subseteq 1..(next - 1)
  BY DEF HarnessInv, HarnessShape, ReplyFits, InReply
<1>2. \A k \in 1..Len(transcript) :
        k # Len(transcript) /\ transcript[k].run = runs =>
            Len(transcript[k].results) = Len(transcript[k].calls)
  BY DEF HarnessInv, AllAnswered, FullyAnswered, HarnessShape, InReply
<1>3. reply.calls \in Seq(Ops)
  BY DEF HarnessInv, HarnessShape
<1> QED
  BY <1>1, <1>2, <1>3 DEF Ending, HarnessInv, HarnessShape

LEMMA BudgetHere ==
    ASSUME HarnessInv, NEW from, Ending(transcript, runs, from), BudgetExit(transcript, from),
           UNCHANGED tracker
    PROVE  HarnessInv'
<1>1. PICK tr, r, t : tr = transcript /\ r = runs /\ t = tracker
  OBVIOUS
<1>2. t \in TrackerRecords
  BY <1>1 DEF HarnessInv, HarnessShape
<1>3. Ending(tr, r, from) /\ BudgetExit(tr, from) /\ tracker' = t
  BY <1>1
<1> QED
  BY <1>1, <1>2, <1>3, BudgetKeeps

LEMMA StartTurnKeeps ==
    ASSUME HarnessInv, StartTurn
    PROVE  HarnessInv'
<1>1. /\ phase = "turn" /\ phase' = "model" /\ count' = [count EXCEPT !.turn = @ + 1]
      /\ UNCHANGED <<transcript, runs, reply, next, work, guard, tracker, outcome>>
  BY DEF StartTurn, Go
<1>2. count' \in CountRecords
  BY <1>1, SMTT(30) DEF HarnessInv, HarnessShape, CountRecords
<1>3. HarnessShape'
  <2>1. HarnessShape
    BY DEF HarnessInv
  <2>2. GuardFits(guard)'
    BY <1>1, <2>1 DEF HarnessShape, GuardFits
  <2> QED
    BY <1>1, <1>2, <2>1, <2>2 DEF HarnessShape
<1>4. ~InReply /\ ~InReply'
  BY <1>1 DEF InReply
<1>5. AllAnswered'
  BY <1>1, <1>4 DEF HarnessInv, AllAnswered, FullyAnswered
<1>6. GroupFits' /\ ReplyFits' /\ ClearedIsFree'
  BY <1>1, <1>4 DEF GroupFits, ReplyFits, ClearedIsFree
<1> QED
  BY <1>1, <1>3, <1>5, <1>6, SameRecords DEF HarnessInv

LEMMA TurnsEndKeeps ==
    ASSUME HarnessInv, TurnsEnd
    PROVE  HarnessInv'
<1>1. phase = "turn" /\ reply.calls = <<>>
  BY DEF TurnsEnd, HarnessInv, HarnessShape
<1>2. CASE End("canceled") /\ UNCHANGED <<transcript, runs, tracker>>
  BY <1>2, BreakKeeps
<1>3. CASE BudgetExit(transcript, 1) /\ UNCHANGED tracker
  BY <1>1, <1>3, NothingToAdd, BudgetHere
<1> QED
  BY <1>2, <1>3 DEF TurnsEnd

LEMMA StreamKeeps ==
    ASSUME HarnessInv, Stream
    PROVE  HarnessInv'
<1>1. /\ phase = "model" /\ phase' = "reply"
      /\ UNCHANGED <<transcript, runs, count, next, work, guard, tracker, outcome>>
  BY DEF Stream, Go
<1>2. PICK kind \in Replies \ {"none"}, calls \in BoundedSeq(Ops, ReplyLength) :
        /\ (kind = "calls") = (calls # <<>>)
        /\ reply' = IF offer = "none" /\ kind = "calls"
                    THEN [NoReply EXCEPT !.kind = "answer"]
                    ELSE [NoReply EXCEPT !.kind = kind, !.calls = calls]
  BY DEF Stream
<1>3. calls \in Seq(Ops) /\ Len(calls) <= ReplyLength
  <2>1. PICK m \in 0..ReplyLength : calls \in [1..m -> Ops]
    BY <1>2 DEF BoundedSeq, SeqOf
  <2>2. m \in Nat /\ m <= ReplyLength
    BY <2>1, LimitAssumption
  <2>3. calls \in Seq(Ops) /\ Len(calls) = m
    BY <2>1, <2>2, FunctionIsSeq
  <2> QED
    BY <2>2, <2>3
<1>4. /\ reply' \in [kind : Replies, calls : Seq(Ops), verdict : Verdicts]
      /\ reply'.kind = "calls" <=> reply'.calls # <<>>
      /\ reply'.verdict = "none" /\ Len(reply'.calls) <= ReplyLength
  <2>1. CASE offer = "none" /\ kind = "calls"
    <3>1. reply' = [kind |-> "answer", calls |-> <<>>, verdict |-> "none"]
      BY <1>2, <2>1 DEF NoReply
    <3> QED
      BY <3>1, EmptySeq, LimitAssumption DEF Replies, Verdicts
  <2>2. CASE ~(offer = "none" /\ kind = "calls")
    <3>1. reply' = [kind |-> kind, calls |-> calls, verdict |-> "none"]
      BY <1>2, <2>2 DEF NoReply
    <3>2. kind = "calls" <=> calls # <<>>
      BY <1>2, Zenon
    <3>3. kind \in Replies /\ "none" \in Verdicts
      BY <1>2 DEF Verdicts
    <3>4. reply' \in [kind : Replies, calls : Seq(Ops), verdict : Verdicts]
      BY <1>3, <3>1, <3>3
    <3> QED
      BY <1>3, <3>1, <3>2, <3>4
  <2> QED
    BY <2>1, <2>2
<1>5. HarnessShape'
  <2>1. HarnessShape
    BY DEF HarnessInv
  <2>2. GuardFits(guard)'
    BY <1>1, <2>1 DEF HarnessShape, GuardFits
  <2> QED
    BY <1>1, <1>4, <2>1, <2>2 DEF HarnessShape
<1>6. ~InReply /\ ~InReply'
  BY <1>1 DEF InReply
<1>7. AllAnswered'
  BY <1>1, <1>6 DEF HarnessInv, AllAnswered, FullyAnswered
<1>8. GroupFits' /\ ReplyFits' /\ ClearedIsFree'
  BY <1>1, <1>6 DEF GroupFits, ReplyFits, ClearedIsFree
<1> QED
  BY <1>1, <1>5, <1>7, <1>8, SameRecords DEF HarnessInv

LEMMA StreamStopsKeeps ==
    ASSUME HarnessInv, StreamStops
    PROVE  HarnessInv'
<1>1. phase = "model" /\ reply.calls = <<>>
  BY DEF StreamStops, HarnessInv, HarnessShape
<1> QED
  BY <1>1, NothingToAdd, BudgetHere DEF StreamStops

LEMMA ContextEndsKeeps ==
    ASSUME HarnessInv, NEW how, ContextEnds(how)
    PROVE  HarnessInv'
<1>1. /\ phase # "idle"
      /\ UNCHANGED <<transcript, runs, phase, count, reply, next, work, guard, tracker, outcome>>
  BY DEF ContextEnds
<1>2. HarnessShape'
  <2>1. HarnessShape
    BY DEF HarnessInv
  <2>2. GuardFits(guard)'
    BY <1>1, <2>1 DEF HarnessShape, GuardFits
  <2> QED
    BY <1>1, <2>1, <2>2 DEF HarnessShape
<1>3. GroupFits'
  BY <1>1 DEF HarnessInv, GroupFits
<1>4. InReply' <=> InReply
  BY <1>1 DEF InReply
<1>5. ReplyFits'
  <2>1. InHand(transcript, runs, reply.calls, next)' <=> InHand(transcript, runs, reply.calls, next)
    BY <1>1
  <2> QED
    BY <1>1, <1>4, <2>1 DEF HarnessInv, ReplyFits
<1>6. AllAnswered'
  BY <1>1, <1>4 DEF HarnessInv, AllAnswered, FullyAnswered
<1>7. ClearedIsFree'
  BY <1>1 DEF HarnessInv, ClearedIsFree
<1> QED
  BY <1>1, <1>2, <1>3, <1>5, <1>6, <1>7, SameRecords DEF HarnessInv

LEMMA RunFailKeeps ==
    ASSUME HarnessInv, Fail \/ Crash
    PROVE  HarnessInv'
<1>1. PICK how \in {"canceled", "failed", "crashed"} :
        End(how) /\ UNCHANGED <<transcript, runs, tracker>>
  BY DEF Fail, Crash, Failure
<1> QED
  BY <1>1, BreakKeeps


-----------------------------------------------------------------------------
(* What a reply means.                                                     *)

\* The reply as it is written.
LEMMA EntryIs ==
    ASSUME HarnessInv, NEW e, e = NewEntry(reply.calls)
    PROVE  /\ e \in EntryRecords /\ e.calls = reply.calls /\ e.results = <<>>
           /\ e.performed = {} /\ e.run = runs /\ Len(e.calls) <= ReplyLength
<1>1. reply.calls \in Seq(Ops) /\ Len(reply.calls) <= ReplyLength /\ runs \in Nat
  BY DEF HarnessInv, HarnessShape
<1>2. e = [run |-> runs, calls |-> reply.calls, results |-> <<>>, performed |-> {}, consented |-> {}]
  BY DEF NewEntry
<1>3. e \in EntryRecords
  BY <1>1, <1>2, EmptySeq DEF EntryRecords
<1> QED
  BY <1>1, <1>2, <1>3

\* A reply with calls, once it is written, is the one in hand.
LEMMA WrittenReply ==
    ASSUME HarnessInv, phase = "reply", reply.kind = "calls",
           NEW tr2, tr2 = Append(transcript, NewEntry(reply.calls))
    PROVE  /\ Ending(tr2, runs, 1) /\ tr2 # <<>> /\ tr2[Len(tr2)].performed = {}
           /\ DoubtsIn(tr2, <<>>, guard.uncertain) /\ DoneIn(tr2, runs, <<>>, guard.done)
           /\ FailuresStand(tr2, runs, tracker.failures)
<1>1. PICK tr, r, u, d, f : /\ tr = transcript /\ r = runs /\ u = guard.uncertain
                            /\ d = guard.done /\ f = tracker.failures
  OBVIOUS
<1>2. PICK e : e = NewEntry(reply.calls)
  OBVIOUS
<1>3. /\ e \in EntryRecords /\ e.calls = reply.calls /\ e.results = <<>>
      /\ e.performed = {} /\ e.run = r /\ Len(e.calls) <= ReplyLength
  BY <1>1, <1>2, EntryIs
<1>4. /\ tr \in Seq(EntryRecords) /\ r \in Nat /\ Entries(tr, r) /\ BlindIn(tr) /\ EchoIn(tr, r)
      /\ work = <<>> /\ reply.calls # <<>> /\ reply.calls \in Seq(Ops)
  BY <1>1 DEF HarnessInv, HarnessShape
<1>5. DoubtsIn(tr, <<>>, u) /\ DoneIn(tr, r, <<>>, d) /\ FailuresStand(tr, r, f)
  <2>1. DoubtsIn(transcript, work, guard.uncertain) /\ DoneIn(transcript, runs, work, guard.done)
    BY DEF HarnessInv, KnownToGuard
  <2>2. FailuresStand(transcript, runs, tracker.failures)
    BY DEF HarnessInv, KnownToTracker
  <2> QED
    BY <1>1, <1>4, <2>1, <2>2
<1>6. tr2 = Append(tr, e)
  BY <1>1, <1>2
<1>7. Known(tr, r, <<>>, u, d) /\ BlankReply(e, r)
  BY <1>3, <1>4, <1>5 DEF Known, BlankReply
<1>8. /\ Entries(tr2, r) /\ BlindIn(tr2) /\ EchoIn(tr2, r)
      /\ DoubtsIn(tr2, <<>>, u) /\ DoneIn(tr2, r, <<>>, d)
  BY <1>6, <1>7, AddedKeeps
<1>9. FailuresStand(tr2, r, f)
  BY <1>3, <1>4, <1>5, <1>6, AddedFailures
<1>10. /\ tr2 \in Seq(EntryRecords) /\ Len(tr2) = Len(tr) + 1 /\ Len(tr) \in Nat
       /\ tr2[Len(tr) + 1] = e /\ \A k \in 1..Len(tr) : tr2[k] = tr[k]
  BY <1>3, <1>4, <1>6, AppendProperties, LenProperties
<1>11. tr2 # <<>>
  BY <1>10, EmptySeq
<1>12. FullyAnswered(tr, r, 1..Len(tr))
  BY <1>1 DEF HarnessInv, AllAnswered, InReply, FullyAnswered
<1>13. ASSUME NEW k \in 1..Len(tr2), k # Len(tr2), tr2[k].run = r
       PROVE  Len(tr2[k].results) = Len(tr2[k].calls)
  <2>1. k \in 1..Len(tr)
    BY <1>10, <1>13
  <2> QED
    BY <1>10, <1>12, <1>13, <2>1 DEF FullyAnswered
<1>14. InHand(tr2, r, reply.calls, 1)
  <2>1. Len(e.results) = 0
    BY <1>3, EmptySeq
  <2> QED
    BY <1>3, <1>10, <1>11, <2>1 DEF InHand
<1>15. Ending(tr2, r, 1)
  BY <1>3, <1>4, <1>8, <1>10, <1>13, <1>14 DEF Ending
<1> QED
  BY <1>1, <1>3, <1>8, <1>9, <1>10, <1>11, <1>15

LEMMA WriteReplyKeeps ==
    ASSUME HarnessInv, WriteReply
    PROVE  HarnessInv'
<1> DEFINE entry == IF reply.kind = "calls" THEN Append(transcript, NewEntry(reply.calls))
                                            ELSE transcript
<1>1. PICK key \in 0..1 :
        /\ tracker' = IF Judge(key) = "check" THEN [tracker EXCEPT !.checks = @ + 1] ELSE tracker
        /\ \/ /\ transcript' = entry
              /\ reply' = [reply EXCEPT !.verdict = Judge(key)]
              /\ count' = [count EXCEPT !.plan = IF Judge(key) = "plan" THEN key ELSE @,
                                        !.repairs = CASE Judge(key) = "repair"   -> @ + 1
                                                      [] reply.kind = "calls"  -> 0
                                                      [] OTHER                 -> @]
              /\ phase' = "answered"
              /\ UNCHANGED <<runs, next, work, guard, outcome>>
           \/ BudgetExit(entry, 1)
  BY DEF WriteReply, Go
<1>2. phase = "reply" /\ HarnessShape
  BY DEF WriteReply, HarnessInv
<1>3. /\ tracker' \in TrackerRecords /\ tracker'.failures = tracker.failures
  <2>1. tracker \in TrackerRecords
    BY <1>2 DEF HarnessShape
  <2> QED
    BY <1>1, <2>1 DEF TrackerRecords
<1>4. PICK tr2 : tr2 = entry
  OBVIOUS
<1>5. /\ Ending(tr2, runs, 1)
      /\ DoubtsIn(tr2, <<>>, guard.uncertain) /\ DoneIn(tr2, runs, <<>>, guard.done)
      /\ FailuresStand(tr2, runs, tracker.failures)
      /\ reply.kind = "calls" => tr2 # <<>> /\ tr2[Len(tr2)].performed = {}
  <2>1. CASE reply.kind = "calls"
    BY <1>2, <1>4, <2>1, WrittenReply
  <2>2. CASE reply.kind # "calls"
    <3>1. tr2 = transcript /\ reply.calls = <<>> /\ work = <<>> /\ phase # "idle"
      BY <1>2, <1>4, <2>2 DEF HarnessShape
    <3>2. Ending(transcript, runs, 1)
      BY <3>1, NothingToAdd
    <3>3. DoubtsIn(transcript, work, guard.uncertain) /\ DoneIn(transcript, runs, work, guard.done)
      BY <3>1 DEF HarnessInv, KnownToGuard
    <3>4. FailuresStand(transcript, runs, tracker.failures)
      BY <3>1 DEF HarnessInv, KnownToTracker
    <3> QED
      BY <2>2, <3>1, <3>2, <3>3, <3>4
  <2> QED
    BY <2>1, <2>2
<1>6. CASE BudgetExit(entry, 1)
  <2>1. PICK r, t : r = runs /\ t = tracker'
    OBVIOUS
  <2>2. Ending(tr2, r, 1) /\ BudgetExit(tr2, 1) /\ tracker' = t /\ t \in TrackerRecords
    BY <1>3, <1>4, <1>5, <1>6, <2>1
  <2> QED
    BY <2>1, <2>2, BudgetKeeps
<1>7. CASE /\ transcript' = entry
           /\ reply' = [reply EXCEPT !.verdict = Judge(key)]
           /\ count' = [count EXCEPT !.plan = IF Judge(key) = "plan" THEN key ELSE @,
                                     !.repairs = CASE Judge(key) = "repair"   -> @ + 1
                                                   [] reply.kind = "calls"  -> 0
                                                   [] OTHER                 -> @]
           /\ phase' = "answered"
           /\ UNCHANGED <<runs, next, work, guard, outcome>>
  <2>1. /\ Judge(key) \in Verdicts /\ (reply.kind = "calls" => Judge(key) = "final")
    BY <1>2 DEF Judge, Verdicts
  <2>2. /\ reply' \in [kind : Replies, calls : Seq(Ops), verdict : Verdicts]
        /\ reply'.kind = reply.kind /\ reply'.calls = reply.calls
        /\ reply.kind = "calls" => reply'.verdict = "final"
    <3>1. reply \in [kind : Replies, calls : Seq(Ops), verdict : Verdicts]
      BY <1>2 DEF HarnessShape
    <3>2. reply' = [reply EXCEPT !.verdict = Judge(key)]
      BY <1>7
    <3> QED
      BY <2>1, <3>1, <3>2
  <2>3. count' \in CountRecords
    <3>1. count \in CountRecords
      BY <1>2 DEF HarnessShape
    <3>2. PICK p \in Nat, q \in Nat : count' = [count EXCEPT !.plan = p, !.repairs = q]
      <4>1. count.plan \in Nat /\ count.repairs \in Nat /\ key \in Nat
        BY <3>1 DEF CountRecords
      <4>2. PICK p : p = IF Judge(key) = "plan" THEN key ELSE count.plan
        OBVIOUS
      <4>3. PICK q : q = CASE Judge(key) = "repair"   -> count.repairs + 1
                          [] reply.kind = "calls"  -> 0
                          [] OTHER                 -> count.repairs
        OBVIOUS
      <4>4. p \in Nat
        BY <4>1, <4>2
      <4>5. q \in Nat
        BY <1>2, <2>1, <4>1, <4>3
      <4>6. count' = [count EXCEPT !.plan = p, !.repairs = q]
        BY <1>7, <4>2, <4>3
      <4> QED
        BY <4>4, <4>5, <4>6
    <3> QED
      BY <3>1, <3>2 DEF CountRecords
  <2>4. /\ transcript' = tr2 /\ tr2 \in Seq(EntryRecords) /\ phase' = "answered"
        /\ runs' = runs /\ next' = next /\ work' = work /\ guard' = guard /\ outcome' = outcome
        /\ next = 1 /\ work = <<>> /\ phase = "reply"
    BY <1>2, <1>4, <1>5, <1>7 DEF Ending, HarnessShape
  <2>5. HarnessShape'
    <3>1. GuardFits(guard)'
      BY <1>2, <2>4 DEF HarnessShape, GuardFits
    <3> QED
      BY <1>2, <1>3, <2>2, <2>3, <2>4, <3>1 DEF HarnessShape
  <2>6. /\ Entries(transcript, runs)' /\ BlindIn(transcript)' /\ EchoIn(transcript, runs)'
    <3>1. Entries(tr2, runs) /\ BlindIn(tr2) /\ EchoIn(tr2, runs)
      BY <1>5 DEF Ending
    <3> QED
      BY <2>4, <3>1
  <2>7. KnownToGuard' /\ KnownToTracker'
    <3>1. /\ DoubtsIn(transcript, work, guard.uncertain)'
          /\ DoneIn(transcript, runs, work, guard.done)'
      BY <1>5, <2>4
    <3>2. FailuresStand(transcript, runs, tracker.failures)'
      BY <1>3, <1>5, <2>4
    <3> QED
      BY <3>1, <3>2 DEF KnownToGuard, KnownToTracker
  <2>8. InReply' <=> reply.kind = "calls"
    BY <2>2, <2>4 DEF InReply
  <2>9. reply.kind = "calls" <=> reply.calls # <<>>
    BY <1>2 DEF HarnessShape
  <2>10. AllAnswered'
    BY <1>5, <2>4, <2>8, <2>9 DEF AllAnswered, FullyAnswered, Ending
  <2>11. ReplyFits'
    <3>1. ASSUME reply.kind = "calls" PROVE InHand(transcript, runs, reply.calls, next)'
      <4>1. InHand(tr2, runs, reply.calls, 1)
        BY <1>5, <2>9, <3>1 DEF Ending
      <4> QED
        BY <2>2, <2>4, <4>1
    <3> QED
      BY <1>5, <2>2, <2>4, <2>8, <3>1 DEF ReplyFits
  <2>12. GroupFits' /\ ClearedIsFree'
    BY <2>4 DEF GroupFits, ClearedIsFree
  <2> QED
    BY <2>5, <2>6, <2>7, <2>10, <2>11, <2>12 DEF HarnessInv
<1> QED
  BY <1>1, <1>6, <1>7

LEMMA AfterReplyKeeps ==
    ASSUME HarnessInv, AfterReply
    PROVE  HarnessInv'
<1>1. phase = "answered" /\ HarnessShape
  BY DEF AfterReply, HarnessInv
<1>2. CASE BudgetExit(transcript, 1) /\ UNCHANGED tracker
  <2>1. CASE reply.kind = "calls"
    <3>1. InReply /\ next = 1
      BY <1>1, <2>1 DEF InReply, HarnessShape
    <3>2. Ending(transcript, runs, 1)
      BY <1>1, <3>1, RestToAdd
    <3> QED
      BY <1>2, <3>2, BudgetHere
  <2>2. CASE reply.kind # "calls"
    <3>1. reply.calls = <<>>
      BY <1>1, <2>2 DEF HarnessShape
    <3> QED
      BY <1>1, <1>2, <3>1, NothingToAdd, BudgetHere
  <2> QED
    BY <2>1, <2>2
<1>3. CASE /\ reply.verdict \in {"repair", "plan", "check"} \/ reply.kind = "empty"
           /\ count' = IF reply.kind = "empty" THEN [count EXCEPT !.empties = @ + 1] ELSE count
           /\ reply' = NoReply /\ phase' = "turn"
           /\ UNCHANGED <<transcript, runs, next, work, guard, tracker, outcome>>
  <2>1. reply.kind # "calls" /\ next = 1 /\ work = <<>>
    BY <1>1, <1>3 DEF HarnessShape
  <2>2. ~InReply /\ ~InReply'
    BY <1>1, <1>3, <2>1 DEF InReply
  <2>3. count' \in CountRecords
    <3>1. count \in CountRecords
      BY <1>1 DEF HarnessShape
    <3> QED
      BY <1>3, <3>1 DEF CountRecords
  <2>4. HarnessShape'
    <3>1. GuardFits(guard)'
      BY <1>1, <1>3 DEF HarnessShape, GuardFits
    <3>2. /\ reply' \in [kind : Replies, calls : Seq(Ops), verdict : Verdicts]
          /\ reply'.calls = <<>> /\ reply'.kind = "none" /\ Len(reply'.calls) <= ReplyLength
      BY <1>3, EmptySeq, LimitAssumption DEF NoReply, Replies, Verdicts
    <3> QED
      BY <1>1, <1>3, <2>1, <2>3, <3>1, <3>2 DEF HarnessShape
  <2>5. AllAnswered'
    BY <1>1, <1>3, <2>2 DEF HarnessInv, AllAnswered, FullyAnswered
  <2>6. GroupFits' /\ ReplyFits' /\ ClearedIsFree'
    BY <1>3, <2>2 DEF GroupFits, ReplyFits, ClearedIsFree
  <2> QED
    BY <1>1, <1>3, <2>4, <2>5, <2>6, SameRecords DEF HarnessInv
<1>4. CASE /\ reply.kind = "calls" /\ next' = 1 /\ phase' = "calls"
           /\ UNCHANGED <<transcript, runs, count, reply, work, guard, tracker, outcome>>
  <2>1. next = 1 /\ next' = next /\ work = <<>>
    BY <1>1, <1>4 DEF HarnessShape
  <2>2. InReply /\ InReply'
    BY <1>1, <1>4 DEF InReply
  <2>3. HarnessShape'
    <3>1. GuardFits(guard)'
      BY <1>1, <1>4 DEF HarnessShape, GuardFits
    <3> QED
      BY <1>1, <1>4, <2>1, <3>1 DEF HarnessShape
  <2>4. ReplyFits'
    <3>1. InHand(transcript, runs, reply.calls, next)' <=> InHand(transcript, runs, reply.calls, next)
      BY <1>4, <2>1
    <3> QED
      BY <1>4, <2>1, <2>2, <3>1 DEF HarnessInv, ReplyFits
  <2>5. AllAnswered'
    BY <1>1, <1>4, <2>2 DEF HarnessInv, AllAnswered, FullyAnswered
  <2>6. GroupFits' /\ ClearedIsFree'
    BY <1>4 DEF GroupFits, ClearedIsFree
  <2> QED
    BY <1>1, <1>4, <2>3, <2>4, <2>5, <2>6, SameRecords DEF HarnessInv
<1>5. CASE End("failed") /\ UNCHANGED <<transcript, runs, tracker>>
  BY <1>5, BreakKeeps
<1>6. CASE reply.kind # "calls" /\ End("completed") /\ UNCHANGED <<transcript, runs, tracker>>
  <2>1. PICK tr, r, t : tr = transcript /\ r = runs /\ t = tracker
    OBVIOUS
  <2>2. ~InReply
    BY <1>1, <1>6 DEF InReply
  <2>3. FullyAnswered(tr, r, 1..Len(tr))
    BY <1>1, <2>1, <2>2 DEF HarnessInv, AllAnswered, FullyAnswered
  <2>4. FailuresStand(tr, r, t.failures)
    BY <1>1, <2>1 DEF HarnessInv, KnownToTracker
  <2>5. Left("completed", tr, r, t)
    BY <1>1, <2>1, <2>3, <2>4 DEF Left, HarnessInv, HarnessShape
  <2>6. transcript' = tr /\ runs' = r /\ tracker' = t
    BY <1>6, <2>1
  <2> QED
    BY <1>6, <2>5, <2>6, EndKeeps
<1> QED
  BY <1>1, <1>2, <1>3, <1>4, <1>5, <1>6 DEF AfterReply, Go


-----------------------------------------------------------------------------
(* The calls of a reply, group by group.                                   *)

LEMMA AllowanceFits ==
    ASSUME HarnessInv
    PROVE  AllowedNow \in 0..Len(reply.calls)
<1>1. PICK size : size = Len(reply.calls)
  OBVIOUS
<1>2. size \in Nat /\ count.used \in Nat /\ next \in Nat /\ MaxToolCalls \in Nat
  BY <1>1, LenProperties, LimitAssumption DEF HarnessInv, HarnessShape, CountRecords
<1>3. PICK made : made = count.used - (next - 1)
  OBVIOUS
<1>4. made \in Int
  BY <1>2, <1>3
<1>5. AllowedNow = IF MaxToolCalls = 0 \/ MaxToolCalls - made >= size THEN size
                   ELSE IF made > MaxToolCalls THEN 0 ELSE MaxToolCalls - made
  BY <1>1, <1>3 DEF AllowedNow, WithinBudget
<1> QED
  BY <1>1, <1>2, <1>4, <1>5

\* A group is a write, or reads.
LEMMA GroupEndIs ==
    ASSUME HarnessInv, phase = "calls", next <= AllowedNow
    PROVE  /\ GroupEnd \in next..Len(reply.calls)
           /\ GroupEnd = next \/ \A i \in next..GroupEnd : reply.calls[i] \in Reads
<1>1. PICK allowed, size, asked : allowed = AllowedNow /\ size = Len(reply.calls) /\ asked = reply.calls
  OBVIOUS
<1>2. asked \in Seq(Ops)
  BY <1>1 DEF HarnessInv, HarnessShape
<1>3. /\ size \in Nat /\ allowed \in 0..size /\ next \in Nat /\ next <= allowed
      /\ asked \in [1..size -> Ops]
  BY <1>1, <1>2, AllowanceFits, LenProperties DEF HarnessInv, HarnessShape
<1>4. next >= 1
  <2>1. /\ InHand(transcript, runs, reply.calls, next) /\ transcript \in Seq(EntryRecords)
    BY DEF HarnessInv, HarnessShape, ReplyFits, InReply
  <2>2. /\ transcript # <<>> /\ next = Len(transcript[Len(transcript)].results) + 1
    BY <2>1 DEF InHand
  <2>3. transcript[Len(transcript)] \in EntryRecords
    BY <2>1, <2>2, EmptySeq, LenProperties
  <2>4. transcript[Len(transcript)].results \in Seq(ResultRecords)
    BY <2>3 DEF EntryRecords
  <2> QED
    BY <2>2, <2>4, LenProperties
<1>5. CASE asked[next] \in Writes
  BY <1>1, <1>3, <1>5 DEF GroupEnd
<1>6. CASE asked[next] \notin Writes
  <2> DEFINE T == {j \in next..allowed : j = allowed \/ asked[j + 1] \in Writes}
             P(j) == /\ \A i \in next..j : asked[i] \in Reads
                     /\ j = allowed \/ asked[j + 1] \in Writes
  <2>1. T \subseteq Nat /\ T # {}
    BY <1>3
  <2>2. PICK j \in T : \A y \in T : ~(y < j)
    <3> HIDE DEF T
    <3> QED
      BY <2>1, SomeLeast
  <2>3. ASSUME NEW i \in next..j PROVE asked[i] \in Reads
    <3>1. i \in 1..size /\ asked[i] \in Ops /\ i \in Nat
      BY <1>3, <1>4, <2>2, <2>3
    <3>2. CASE i = next
      BY <1>6, <3>1, <3>2 DEF Ops
    <3>3. CASE i # next
      <4>1. i - 1 \in next..allowed /\ i - 1 < j /\ (i - 1) + 1 = i /\ i - 1 # allowed
        BY <1>3, <2>2, <2>3, <3>3
      <4>2. asked[(i - 1) + 1] \notin Writes
        BY <2>2, <4>1
      <4> QED
        BY <3>1, <4>1, <4>2 DEF Ops
    <3> QED
      BY <3>2, <3>3
  <2>4. j \in next..allowed /\ P(j)
    BY <2>2, <2>3
  <2>5. GroupEnd = CHOOSE x \in next..allowed : P(x)
    BY <1>1, <1>6 DEF GroupEnd
  <2>6. GroupEnd \in next..allowed /\ P(GroupEnd)
    <3>1. \E x \in next..allowed : P(x)
      BY <2>4
    <3> HIDE DEF P
    <3> QED
      BY <2>5, <3>1
  <2> QED
    BY <1>1, <1>3, <2>6
<1> QED
  BY <1>5, <1>6

LEMMA StartGroupKeeps ==
    ASSUME HarnessInv, StartGroup
    PROVE  HarnessInv'
<1>1. /\ phase = "calls" /\ next <= AllowedNow /\ phase' = "tools"
      /\ UNCHANGED <<transcript, runs, reply, next, guard, tracker, outcome>>
  BY DEF StartGroup, Go
<1>2. PICK tr, r, u, d, to, w : /\ tr = transcript /\ r = runs /\ u = guard.uncertain /\ d = guard.done
                                /\ to = GroupEnd /\ w = work'
  OBVIOUS
<1>3. w = [i \in next..to |-> "new"] /\ count' = [count EXCEPT !.used = @ + (to + 1 - next)]
  BY <1>2 DEF StartGroup
<1>4. /\ to \in next..Len(reply.calls)
      /\ to = next \/ \A i \in next..to : reply.calls[i] \in Reads
  BY <1>1, <1>2, GroupEndIs
<1>5. HarnessShape /\ work = <<>> /\ InReply /\ InReply'
  BY <1>1 DEF HarnessInv, HarnessShape, InReply
<1>6. next \in Nat /\ Len(reply.calls) \in Nat
  BY <1>5, LenProperties DEF HarnessShape
<1>7. count' \in CountRecords
  <2>1. count \in CountRecords
    BY <1>5 DEF HarnessShape
  <2>2. PICK n : n = count.used + (to + 1 - next)
    OBVIOUS
  <2>3. n \in Nat
    <3>1. count.used \in Nat
      BY <2>1 DEF CountRecords
    <3> QED
      BY <1>4, <1>6, <2>2, <3>1
  <2>4. count' = [count EXCEPT !.used = n]
    BY <1>3, <2>2
  <2> QED
    BY <2>1, <2>3, <2>4 DEF CountRecords
<1>8. HarnessShape'
  <2>1. GuardFits(guard)'
    BY <1>1, <1>5 DEF HarnessShape, GuardFits
  <2> QED
    BY <1>1, <1>5, <1>7, <2>1 DEF HarnessShape
<1>9. GroupFits'
  <2>1. w \in [next..to -> WorkStates]
    BY <1>3 DEF WorkStates, Pending
  <2> QED
    BY <1>1, <1>2, <1>4, <2>1 DEF GroupFits
<1>10. /\ InHand(tr, r, reply.calls, next) /\ tr[Len(tr)].performed \subseteq 1..(next - 1)
  BY <1>2, <1>5 DEF HarnessInv, ReplyFits
<1>11. ReplyFits'
  <2>1. InHand(transcript, runs, reply.calls, next)'
    BY <1>1, <1>2, <1>10
  <2>2. (reply.kind = "calls")'
    BY <1>1, <1>5 DEF HarnessInv, ReplyFits
  <2> QED
    BY <1>1, <1>2, <1>10, <2>1, <2>2 DEF ReplyFits
<1>12. AllAnswered'
  BY <1>1, <1>5 DEF HarnessInv, AllAnswered, FullyAnswered
<1>13. Known(tr, r, <<>>, u, d)
  BY <1>1, <1>2, <1>5 DEF Known, HarnessInv, HarnessShape, KnownToGuard
<1>14. Known(tr, r, w, u, d)
  <2>1. tr # <<>> /\ next = Len(tr[Len(tr)].results) + 1
    BY <1>10 DEF InHand
  <2>2. \A i \in tr[Len(tr)].performed : i \notin next..to
    BY <1>6, <1>10
  <2> QED
    BY <1>3, <1>13, <2>1, <2>2, GroupBegins
<1>15. /\ DoubtsIn(tr, w, u) /\ DoneIn(tr, r, w, d) /\ Entries(tr, r) /\ BlindIn(tr) /\ EchoIn(tr, r)
  BY <1>14 DEF Known
<1>16. transcript' = tr /\ runs' = r /\ work' = w /\ guard'.uncertain = u /\ guard'.done = d
  BY <1>1, <1>2
<1>17. KnownToGuard'
  <2>1. /\ DoubtsIn(transcript, work, guard.uncertain)' /\ DoneIn(transcript, runs, work, guard.done)'
    BY <1>15, <1>16
  <2> QED
    BY <2>1 DEF KnownToGuard
<1>18. Entries(transcript, runs)' /\ BlindIn(transcript)' /\ EchoIn(transcript, runs)'
  BY <1>15, <1>16
<1>19. KnownToTracker'
  <2>1. FailuresStand(transcript, runs, tracker.failures)
    BY <1>1 DEF HarnessInv, KnownToTracker
  <2>2. FailuresStand(transcript, runs, tracker.failures)'
    BY <1>1, <2>1
  <2> QED
    BY <2>2 DEF KnownToTracker
<1>20. ClearedIsFree'
  BY <1>2, <1>3 DEF ClearedIsFree
<1> QED
  BY <1>8, <1>9, <1>11, <1>12, <1>17, <1>18, <1>19, <1>20 DEF HarnessInv

LEMMA AfterCallsKeeps ==
    ASSUME HarnessInv, AfterCalls
    PROVE  HarnessInv'
<1>1. phase = "calls" /\ HarnessShape /\ InReply
  BY DEF AfterCalls, HarnessInv, InReply
<1>2. CASE BudgetExit(transcript, next) /\ UNCHANGED tracker
  <2>1. Ending(transcript, runs, next)
    BY <1>1, RestToAdd
  <2> QED
    BY <1>2, <2>1, BudgetHere
<1>3. CASE End("canceled") /\ UNCHANGED <<transcript, runs, tracker>>
  BY <1>3, BreakKeeps
<1>4. CASE /\ next > Len(reply.calls)
           /\ count' = [count EXCEPT !.toolTurns = @ + 1]
           /\ reply' = NoReply /\ next' = 1 /\ phase' = "turn"
           /\ UNCHANGED <<transcript, runs, work, guard, tracker, outcome>>
  <2>1. count' \in CountRecords
    <3>1. count \in CountRecords
      BY <1>1 DEF HarnessShape
    <3> QED
      BY <1>4, <3>1 DEF CountRecords
  <2>2. /\ reply' \in [kind : Replies, calls : Seq(Ops), verdict : Verdicts]
        /\ reply'.calls = <<>> /\ reply'.kind = "none" /\ Len(reply'.calls) <= ReplyLength
    BY <1>4, EmptySeq, LimitAssumption DEF NoReply, Replies, Verdicts
  <2>3. work = <<>> /\ ~InReply'
    BY <1>1, <1>4, <2>2 DEF HarnessShape, InReply
  <2>4. HarnessShape'
    <3>1. GuardFits(guard)'
      BY <1>1, <1>4 DEF HarnessShape, GuardFits
    <3> QED
      BY <1>1, <1>4, <2>1, <2>2, <2>3, <3>1 DEF HarnessShape
  <2>5. FullyAnswered(transcript, runs, 1..Len(transcript))
    <3>1. Ending(transcript, runs, next)
      BY <1>1, RestToAdd
    <3>2. reply.calls # <<>>
      BY <1>1 DEF HarnessInv, ReplyFits, HarnessShape
    <3>3. PICK tr : tr = transcript
      OBVIOUS
    <3>4. /\ tr \in Seq(EntryRecords) /\ tr # <<>> /\ Entries(tr, runs)
          /\ tr[Len(tr)].calls = reply.calls /\ next = Len(tr[Len(tr)].results) + 1
          /\ \A k \in 1..Len(tr) :
               k # Len(tr) /\ tr[k].run = runs => Len(tr[k].results) = Len(tr[k].calls)
      BY <3>1, <3>2, <3>3 DEF Ending, InHand
    <3>5. Len(tr) \in 1..Len(tr) /\ tr[Len(tr)] \in EntryRecords
      BY <3>4, EmptySeq, LenProperties
    <3>6. WellAnswered(tr[Len(tr)]) /\ tr[Len(tr)].results \in Seq(ResultRecords)
      BY <3>4, <3>5 DEF Entries, EntryRecords
    <3>7. Len(tr[Len(tr)].results) \in Nat /\ Len(reply.calls) \in Nat
      BY <1>1, <3>6, LenProperties DEF HarnessShape
    <3>8. Len(tr[Len(tr)].results) = Len(tr[Len(tr)].calls)
      BY <1>4, <3>4, <3>6, <3>7 DEF WellAnswered
    <3> QED
      BY <3>3, <3>4, <3>8 DEF FullyAnswered
  <2>6. AllAnswered'
    BY <1>4, <2>3, <2>5 DEF AllAnswered, FullyAnswered
  <2>7. GroupFits' /\ ReplyFits' /\ ClearedIsFree'
    BY <1>4, <2>3 DEF GroupFits, ReplyFits, ClearedIsFree
  <2> QED
    BY <1>1, <1>4, <2>4, <2>6, <2>7, SameRecords DEF HarnessInv
<1> QED
  BY <1>1, <1>2, <1>3, <1>4 DEF AfterCalls, Go


-----------------------------------------------------------------------------
(* A call of the group at work.                                            *)

LEMMA GroupBusy ==
    ASSUME HarnessInv, phase = "tools"
    PROVE  \E to \in Nat :
             /\ Busy(transcript, runs, work, guard.uncertain, guard.done, next, to)
             /\ to <= Len(reply.calls)
<1>1. PICK tr, asked : tr = transcript /\ asked = reply.calls
  OBVIOUS
<1>2. PICK to \in next..Len(asked) :
        /\ work \in [next..to -> WorkStates]
        /\ to = next \/ \A i \in next..to : asked[i] \in Reads
  BY <1>1 DEF HarnessInv, GroupFits
<1>3. /\ InHand(tr, runs, asked, next)
      /\ tr[Len(tr)].performed \subseteq 1..(next - 1) \cup DOMAIN work
  BY <1>1 DEF HarnessInv, ReplyFits, InReply
<1>4. tr \in Seq(EntryRecords) /\ asked \in Seq(Ops) /\ next \in Nat
  BY <1>1 DEF HarnessInv, HarnessShape
<1>5. tr # <<>> /\ tr[Len(tr)].calls = asked /\ next = Len(tr[Len(tr)].results) + 1
  BY <1>3 DEF InHand
<1>6. Len(tr[Len(tr)].results) \in Nat /\ Len(asked) \in Nat
  <2>1. tr[Len(tr)] \in EntryRecords
    BY <1>4, <1>5, EmptySeq, LenProperties
  <2>2. tr[Len(tr)].results \in Seq(ResultRecords)
    BY <2>1 DEF EntryRecords
  <2> QED
    BY <1>4, <2>2, LenProperties
<1>7. /\ to \in Nat /\ next <= to /\ to <= Len(asked) /\ DOMAIN work = next..to
      /\ tr[Len(tr)].performed \subseteq 1..to
  BY <1>2, <1>3, <1>4, <1>5, <1>6
<1>8. GroupOn(tr, work, next, to)
  BY <1>2, <1>4, <1>5, <1>7 DEF GroupOn
<1>9. Known(tr, runs, work, guard.uncertain, guard.done)
  BY <1>1 DEF Known, HarnessInv, HarnessShape, KnownToGuard
<1> QED
  BY <1>1, <1>7, <1>8, <1>9 DEF Busy

\* What a step of a call leaves: the transcript tr2, the states w2, the guard g2.
CallLeaves(tr2, w2, g2) ==
    /\ w2 \in [DOMAIN work -> WorkStates] /\ GuardFits(g2)
    /\ Known(tr2, runs, w2, g2.uncertain, g2.done)
    /\ \E p \in SUBSET DOMAIN work : \E c : Marked(transcript, tr2, p, c)
    /\ \A i \in DOMAIN work : reply.calls[i] \in Writes =>
         /\ w2[i] = "asking" => reply.calls[i] \notin g2.uncertain \cup g2.done
         /\ w2[i] = "cleared" => \/ reply.calls[i] \notin g2.uncertain \cup g2.done
                                 \/ i \in tr2[Len(tr2)].consented

LEMMA CallLeavesKeeps ==
    ASSUME HarnessInv, phase = "tools", StepKeeps, NEW tr2, transcript' = tr2,
           NEW w2, work' = w2, NEW g2, guard' = g2, CallLeaves(tr2, w2, g2)
    PROVE  HarnessInv'
<1>1. UNCHANGED <<runs, phase, count, reply, next, tracker, outcome>>
  BY DEF StepKeeps
<1>2. PICK tr, r, asked : tr = transcript /\ r = runs /\ asked = reply.calls
  OBVIOUS
<1>3. PICK p \in SUBSET DOMAIN work : \E c : Marked(tr, tr2, p, c)
  BY <1>2 DEF CallLeaves
<1>31. PICK c : Marked(tr, tr2, p, c)
  BY <1>3
<1>4. HarnessShape /\ InReply /\ InReply'
  BY <1>1 DEF HarnessInv, InReply
<1>5. /\ InHand(tr, r, asked, next)
      /\ tr[Len(tr)].performed \subseteq 1..(next - 1) \cup DOMAIN work
      /\ reply.kind = "calls"
  BY <1>2, <1>4 DEF HarnessInv, ReplyFits
<1>6. tr \in Seq(EntryRecords) /\ tr # <<>> /\ Len(tr) \in Nat /\ Len(tr) \in 1..Len(tr)
  <2>1. tr \in Seq(EntryRecords) /\ tr # <<>>
    BY <1>2, <1>4, <1>5 DEF HarnessShape, InHand
  <2> QED
    BY <2>1, EmptySeq, LenProperties
<1>7. /\ tr2 \in Seq(EntryRecords) /\ Len(tr2) = Len(tr)
      /\ \A k \in 1..Len(tr) :
           tr2[k].run = tr[k].run /\ tr2[k].calls = tr[k].calls /\ tr2[k].results = tr[k].results
      /\ tr2[Len(tr)].performed = tr[Len(tr)].performed \cup p
  BY <1>31, <1>6 DEF Marked
<1>8. HarnessShape'
  <2>1. GuardFits(guard)'
    <3>1. GuardFits(g2)
      BY DEF CallLeaves
    <3> QED
      BY <3>1
  <2> QED
    BY <1>1, <1>4, <1>7, <2>1 DEF HarnessShape
<1>9. DOMAIN w2 = DOMAIN work
  BY DEF CallLeaves
<1>10. GroupFits'
  <2>1. PICK to \in next..Len(asked) :
          /\ work \in [next..to -> WorkStates]
          /\ to = next \/ \A i \in next..to : asked[i] \in Reads
    BY <1>2 DEF HarnessInv, GroupFits
  <2>2. w2 \in [next..to -> WorkStates]
    BY <2>1 DEF CallLeaves
  <2> QED
    BY <1>1, <1>2, <2>1, <2>2 DEF GroupFits
<1>11. ReplyFits'
  <2>1. InHand(tr2, r, asked, next)
    <3>1. tr2 # <<>>
      BY <1>6, <1>7, EmptySeq
    <3> QED
      BY <1>5, <1>6, <1>7, <3>1 DEF InHand
  <2>2. InHand(transcript, runs, reply.calls, next)'
    BY <1>1, <1>2, <2>1
  <2>3. (transcript[Len(transcript)].performed \subseteq 1..(next - 1) \cup DOMAIN work)'
    BY <1>1, <1>5, <1>7, <1>9
  <2> QED
    BY <1>1, <1>5, <2>2, <2>3 DEF ReplyFits
<1>12. AllAnswered'
  <2>1. \A k \in 1..Len(tr) : k # Len(tr) /\ tr[k].run = r => Len(tr[k].results) = Len(tr[k].calls)
    BY <1>2, <1>4 DEF HarnessInv, AllAnswered, FullyAnswered
  <2>2. \A k \in 1..Len(tr2) :
          k # Len(tr2) /\ tr2[k].run = r => Len(tr2[k].results) = Len(tr2[k].calls)
    BY <1>7, <2>1
  <2> QED
    BY <1>1, <1>2, <1>4, <2>2 DEF AllAnswered, FullyAnswered
<1>13. Known(tr2, r, w2, g2.uncertain, g2.done)
  BY <1>2 DEF CallLeaves
<1>14. Entries(transcript, runs)' /\ BlindIn(transcript)' /\ EchoIn(transcript, runs)'
  <2>1. Entries(tr2, r) /\ BlindIn(tr2) /\ EchoIn(tr2, r)
    BY <1>13 DEF Known
  <2> QED
    BY <1>1, <1>2, <2>1
<1>15. KnownToGuard'
  <2>1. DoubtsIn(tr2, w2, g2.uncertain) /\ DoneIn(tr2, r, w2, g2.done)
    BY <1>13 DEF Known
  <2>2. /\ DoubtsIn(transcript, work, guard.uncertain)'
        /\ DoneIn(transcript, runs, work, guard.done)'
    BY <1>1, <1>2, <2>1
  <2> QED
    BY <2>2 DEF KnownToGuard
<1>16. KnownToTracker'
  <2>1. PICK f : f = tracker.failures
    OBVIOUS
  <2>2. FailuresStand(tr, r, f)
    BY <1>2, <2>1 DEF HarnessInv, KnownToTracker
  <2>3. \A k \in 1..Len(tr) : \A i \in 1..Len(tr[k].calls) : StateIn(tr2, k, i) = StateIn(tr, k, i)
    BY <1>7 DEF StateIn
  <2>4. FailuresStand(tr2, r, f)
    BY <1>6, <1>7, <2>2, <2>3, SameFailures
  <2>5. FailuresStand(transcript, runs, tracker.failures)'
    BY <1>1, <1>2, <2>1, <2>4
  <2> QED
    BY <2>5 DEF KnownToTracker
<1>17. ClearedIsFree'
  BY <1>1, <1>9 DEF CallLeaves, ClearedIsFree
<1> QED
  BY <1>8, <1>10, <1>11, <1>12, <1>14, <1>15, <1>16, <1>17 DEF HarnessInv

\* A call that has not been started and gets to st, which is no success.
Pausing(i, st, g2) ==
    /\ i \in DOMAIN work /\ work[i] \in {"new", "asking", "retry", "cleared"}
    /\ st \in WorkStates \ {"succeeded"} /\ At(i, st)
    /\ GuardFits(g2) /\ g2.uncertain = guard.uncertain /\ g2.done = guard.done /\ guard' = g2
    /\ reply.calls[i] \in Writes =>
         /\ st = "asking" => reply.calls[i] \notin guard.uncertain \cup guard.done
         /\ st = "cleared" => \/ reply.calls[i] \notin guard.uncertain \cup guard.done
                              \/ i \in transcript'[Len(transcript')].consented

\* In a group with a write there is no other call.
LEMMA WriteAlone ==
    ASSUME HarnessInv, phase = "tools", NEW i \in DOMAIN work, NEW j \in DOMAIN work,
           reply.calls[i] \in Writes
    PROVE  i = j
<1>1. PICK to \in next..Len(reply.calls) :
        /\ work \in [next..to -> WorkStates]
        /\ to = next \/ \A x \in next..to : reply.calls[x] \in Reads
  BY DEF HarnessInv, GroupFits
<1>2. next \in Nat /\ DOMAIN work = next..to
  BY <1>1 DEF HarnessInv, HarnessShape
<1>3. ~(\A x \in next..to : reply.calls[x] \in Reads)
  BY <1>2, OpsAssumption
<1> QED
  BY <1>1, <1>2, <1>3

\* The states and what is known of them, after such a step.
LEMMA PausedKnown ==
    ASSUME HarnessInv, phase = "tools", NEW i, NEW st, NEW g2, Pausing(i, st, g2)
    PROVE  /\ Known(transcript, runs, work', g2.uncertain, g2.done)
           /\ work' \in [DOMAIN work -> WorkStates] /\ work'[i] = st
           /\ \A j \in DOMAIN work : j # i => work'[j] = work[j]
<1>1. PICK tr, r, u, d, w, w2, from : /\ tr = transcript /\ r = runs /\ u = guard.uncertain
                                      /\ d = guard.done /\ w = work /\ w2 = work' /\ from = next
  OBVIOUS
<1>2. PICK to : Busy(tr, r, w, u, d, from, to)
  BY <1>1, GroupBusy
<1>3. w2 = [w EXCEPT ![i] = st] /\ i \in DOMAIN w /\ w[i] \in {"new", "asking", "retry", "cleared"}
      /\ st \in WorkStates \ {"succeeded"} /\ g2.uncertain = u /\ g2.done = d
  BY <1>1 DEF Pausing, At
<1>4. GroupOn(tr, w, from, to)
  BY <1>2 DEF Busy
<1>5. DOMAIN w = from..to /\ w \in [from..to -> WorkStates]
  BY <1>4 DEF GroupOn
<1>6. Moving(w, w2, from, to, i, st)
  BY <1>3, <1>5 DEF Moving, Moved
<1>7. u \subseteq u /\ ~(w[i] \in Startables) /\ st # "succeeded" /\ w[i] # "succeeded"
  BY <1>3 DEF Startables
<1>8. DoubtsIn(tr, w2, u)
  BY <1>2, <1>6, <1>7, DoubtsMove
<1>9. DoneIn(tr, r, w2, d)
  BY <1>2, <1>6, <1>7, DoneMove
<1>10. Known(tr, r, w2, u, d)
  BY <1>2, <1>8, <1>9 DEF Busy, Known
<1> QED
  BY <1>1, <1>3, <1>5, <1>10

LEMMA PauseKeeps ==
    ASSUME HarnessInv, phase = "tools", StepKeeps, UNCHANGED transcript,
           NEW i, NEW st, NEW g2, Pausing(i, st, g2)
    PROVE  HarnessInv'
<1>1. PICK tr2, w2 : tr2 = transcript' /\ w2 = work'
  OBVIOUS
<1>2. /\ Known(tr2, runs, w2, g2.uncertain, g2.done)
      /\ w2 \in [DOMAIN work -> WorkStates] /\ w2[i] = st
      /\ \A j \in DOMAIN work : j # i => w2[j] = work[j]
  BY <1>1, PausedKnown
<1>3. Marked(transcript, tr2, {}, {})
  <2>1. transcript \in Seq(EntryRecords)
    BY DEF HarnessInv, HarnessShape
  <2> QED
    BY <1>1, <2>1 DEF Marked
<1>4. ASSUME NEW j \in DOMAIN work, reply.calls[j] \in Writes
      PROVE  /\ w2[j] = "asking" => reply.calls[j] \notin g2.uncertain \cup g2.done
             /\ w2[j] = "cleared" => \/ reply.calls[j] \notin g2.uncertain \cup g2.done
                                     \/ j \in tr2[Len(tr2)].consented
  <2>1. i \in DOMAIN work
    BY DEF Pausing
  <2>2. j = i
    BY <1>4, <2>1, WriteAlone
  <2> QED
    BY <1>1, <1>2, <1>4, <2>2 DEF Pausing
<1>5. CallLeaves(tr2, w2, g2)
  BY <1>2, <1>3, <1>4 DEF CallLeaves, Pausing
<1>6. transcript' = tr2 /\ work' = w2 /\ guard' = g2
  BY <1>1 DEF Pausing
<1> QED
  BY <1>5, <1>6, CallLeavesKeeps


LEMMA CallIsOp ==
    ASSUME HarnessInv, phase = "tools", NEW i \in DOMAIN work
    PROVE  reply.calls[i] \in Ops /\ i \in Nat
<1>1. PICK to \in next..Len(reply.calls) : work \in [next..to -> WorkStates]
  BY DEF HarnessInv, GroupFits
<1>2. PICK to2 : Busy(transcript, runs, work, guard.uncertain, guard.done, next, to2)
  BY GroupBusy
<1>3. next = Len(transcript[Len(transcript)].results) + 1 /\ next \in Nat
      /\ transcript \in Seq(EntryRecords) /\ transcript # <<>>
  BY <1>2 DEF Busy, GroupOn
<1>4. transcript[Len(transcript)] \in EntryRecords
  BY <1>3, EmptySeq, LenProperties
<1>5. transcript[Len(transcript)].results \in Seq(ResultRecords)
  BY <1>4 DEF EntryRecords
<1>6. next >= 1
  BY <1>3, <1>5, LenProperties
<1>7. reply.calls \in [1..Len(reply.calls) -> Ops] /\ Len(reply.calls) \in Nat
  BY LenProperties DEF HarnessInv, HarnessShape
<1> QED
  BY <1>1, <1>3, <1>6, <1>7

LEMMA SameGuard ==
    ASSUME HarnessInv
    PROVE  GuardFits(guard)
BY DEF HarnessInv, HarnessShape

LEMMA RefuseKeeps ==
    ASSUME HarnessInv, phase = "tools", NEW i \in DOMAIN work, Refuse(i)
    PROVE  HarnessInv'
<1>1. PICK g2 : g2 = guard
  OBVIOUS
<1>2. Pausing(i, "refused", g2)
  BY <1>1, SameGuard DEF Refuse, Pausing, WorkStates, Results, Errors
<1> QED
  BY <1>2, PauseKeeps DEF Refuse

LEMMA CheckReadKeeps ==
    ASSUME HarnessInv, phase = "tools", NEW i \in DOMAIN work, CheckRead(i)
    PROVE  HarnessInv'
<1>1. PICK g2 : g2 = guard
  OBVIOUS
<1>2. reply.calls[i] \notin Writes
  BY OpsAssumption DEF CheckRead
<1>3. Pausing(i, "cleared", g2)
  BY <1>1, <1>2, SameGuard DEF CheckRead, Pausing, WorkStates, Pending
<1> QED
  BY <1>3, PauseKeeps DEF CheckRead

LEMMA CheckWriteKeeps ==
    ASSUME HarnessInv, phase = "tools", NEW i \in DOMAIN work, CheckWrite(i)
    PROVE  HarnessInv'
<1>1. PICK op : op = reply.calls[i]
  OBVIOUS
<1>2. PICK g2 : guard' = g2
  OBVIOUS
<1>3. PICK says : says = Verdict(op)
  OBVIOUS
<1>4. /\ says \in {"doubt", "skip", "hopeless", "blocked", "pass"}
      /\ says = "pass" => op \notin guard.uncertain \cup guard.done
  BY <1>3 DEF Verdict
<1>5. PICK st \in {"retry", "skipped", "refused", "asking", "cleared"} :
        /\ At(i, st) /\ (st \in {"asking", "cleared"} => says = "pass")
  <2>1. At(i, CASE says = "doubt"                  -> "retry"
                [] says = "skip"                   -> "skipped"
                [] says \in {"hopeless", "blocked"} -> "refused"
                [] says = "pass" -> IF op \in Guarded /\ ~permanent THEN "asking" ELSE "cleared")
    BY <1>1, <1>3 DEF CheckWrite
  <2>2. PICK st : st = CASE says = "doubt"                  -> "retry"
                         [] says = "skip"                   -> "skipped"
                         [] says \in {"hopeless", "blocked"} -> "refused"
                         [] says = "pass" -> IF op \in Guarded /\ ~permanent THEN "asking" ELSE "cleared"
    OBVIOUS
  <2>3. st \in {"retry", "skipped", "refused", "asking", "cleared"}
        /\ (st \in {"asking", "cleared"} => says = "pass")
    BY <1>4, <2>2
  <2> QED
    BY <2>1, <2>2, <2>3
<1>6. \/ g2 = guard
      \/ g2 = [guard EXCEPT !.forced = TRUE]
      \/ \E b, f : g2 = [guard EXCEPT !.blocked = b, !.forced = f]
  BY <1>2 DEF CheckWrite
<1>7. GuardFits(g2) /\ g2.uncertain = guard.uncertain /\ g2.done = guard.done
  BY <1>6, SameGuard DEF GuardFits
<1>8. work[i] = "new"
  BY DEF CheckWrite
<1>9. Pausing(i, st, g2)
  BY <1>1, <1>2, <1>4, <1>5, <1>7, <1>8 DEF Pausing, WorkStates, Pending, Results, Errors
<1> QED
  BY <1>9, PauseKeeps DEF CheckWrite

LEMMA BreakCallKeeps ==
    ASSUME HarnessInv, phase = "tools", NEW i \in DOMAIN work, BreakCall(i)
    PROVE  HarnessInv'
<1>1. PICK g2 : g2 = guard
  OBVIOUS
<1>2. Pausing(i, "broken", g2)
  BY <1>1, SameGuard DEF BreakCall, Pausing, WorkStates
<1> QED
  BY <1>2, PauseKeeps DEF BreakCall

LEMMA DenyKeeps ==
    ASSUME HarnessInv, phase = "tools", NEW i \in DOMAIN work, Deny(i)
    PROVE  HarnessInv'
<1>1. PICK g, op, g2 : g = guard /\ op = reply.calls[i] /\ g2 = Observed(g, op, "denied")
  OBVIOUS
<1>2. GuardFits(g) /\ op \in Ops
  BY <1>1, SameGuard, CallIsOp
<1>3. GuardFits(g2) /\ g2.uncertain = g.uncertain /\ g2.done = g.done
  <2>1. Observing(g, op, "denied", g2)
    BY <1>1, <1>2 DEF Observing
  <2> QED
    BY <2>1, ObservedGives
<1>4. guard' = g2
  BY <1>1 DEF Deny
<1>5. Pausing(i, "denied", g2)
  BY <1>1, <1>3, <1>4 DEF Deny, Pausing, WorkStates, Results, Errors
<1> QED
  BY <1>5, PauseKeeps DEF Deny

LEMMA ApproveKeeps ==
    ASSUME HarnessInv, phase = "tools", NEW i \in DOMAIN work, Approve(i)
    PROVE  HarnessInv'
<1>1. PICK g2 : g2 = guard
  OBVIOUS
<1>2. StepKeeps /\ guard' = g2 /\ At(i, "cleared") /\ work[i] \in {"asking", "retry"}
  BY <1>1 DEF Approve
<1>3. CASE work[i] = "asking"
  <2>1. UNCHANGED transcript
    BY <1>3 DEF Approve
  <2>2. reply.calls[i] \in Writes => reply.calls[i] \notin guard.uncertain \cup guard.done
    BY <1>3 DEF HarnessInv, ClearedIsFree
  <2>3. Pausing(i, "cleared", g2)
    BY <1>1, <1>2, <2>2, SameGuard DEF Pausing, WorkStates, Pending
  <2> QED
    BY <1>2, <2>1, <2>3, PauseKeeps
<1>4. CASE work[i] = "retry"
  <2>1. PICK tr, tr2, r, u, d, w2 : /\ tr = transcript /\ tr2 = transcript' /\ r = runs
                                    /\ u = g2.uncertain /\ d = g2.done /\ w2 = work'
    OBVIOUS
  <2>2. PICK to : Busy(tr, r, work, guard.uncertain, guard.done, next, to)
    BY <2>1, GroupBusy
  <2>3. tr \in Seq(EntryRecords) /\ tr # <<>> /\ i \in Nat /\ Len(tr) \in 1..Len(tr)
    <3>1. tr \in Seq(EntryRecords) /\ tr # <<>>
      BY <2>2 DEF Busy, GroupOn
    <3> QED
      BY <3>1, CallIsOp, EmptySeq, LenProperties
  <2>4. tr2 = [tr EXCEPT ![Len(tr)].consented = @ \cup {i}]
    BY <1>4, <2>1 DEF Approve, Current
  <2>5. Marked(tr, tr2, {}, {i})
    BY <2>3, <2>4, AgreedIs
  <2>6. Len(tr2) = Len(tr) /\ i \in tr2[Len(tr2)].consented
    BY <2>3, <2>5 DEF Marked
  <2>7. Pausing(i, "cleared", g2)
    BY <1>1, <1>2, <2>1, <2>6, SameGuard DEF Pausing, WorkStates, Pending
  <2>8. /\ Known(tr, r, w2, u, d)
        /\ w2 \in [DOMAIN work -> WorkStates] /\ w2[i] = "cleared"
        /\ \A j \in DOMAIN work : j # i => w2[j] = work[j]
    BY <2>1, <2>7, PausedKnown
  <2>9. Known(tr2, r, w2, u, d)
    BY <2>5, <2>8, AgreedKeeps
  <2>10. ASSUME NEW j \in DOMAIN work, reply.calls[j] \in Writes
         PROVE  w2[j] # "asking" /\ j \in tr2[Len(tr2)].consented
    <3>1. j = i
      BY <2>10, WriteAlone
    <3> QED
      BY <2>6, <2>8, <3>1
  <2>11. {} \in SUBSET DOMAIN work
    OBVIOUS
  <2>12. CallLeaves(tr2, w2, g2)
    BY <1>1, <2>1, <2>5, <2>8, <2>9, <2>10, <2>11, SameGuard DEF CallLeaves
  <2> QED
    BY <1>2, <2>1, <2>12, CallLeavesKeeps
<1> QED
  BY <1>2, <1>3, <1>4

LEMMA DispatchKeeps ==
    ASSUME HarnessInv, phase = "tools", NEW i \in DOMAIN work, Dispatch(i)
    PROVE  HarnessInv'
<1>1. PICK tr, tr2, r, u, d, w, w2, from, g2 :
        /\ tr = transcript /\ tr2 = transcript' /\ r = runs /\ w = work /\ w2 = work'
        /\ from = next /\ g2 = guard /\ u = g2.uncertain /\ d = g2.done
  OBVIOUS
<1>2. /\ StepKeeps /\ guard' = g2 /\ w2 = [w EXCEPT ![i] = "running"] /\ w[i] = "cleared"
      /\ tr2 = [tr EXCEPT ![Len(tr)].performed = @ \cup {i}]
  BY <1>1 DEF Dispatch, At, Current
<1>3. PICK to : Busy(tr, r, w, u, d, from, to)
  BY <1>1, GroupBusy
<1>4. /\ GroupOn(tr, w, from, to) /\ tr \in Seq(EntryRecords) /\ tr # <<>>
      /\ w \in [from..to -> WorkStates] /\ DOMAIN w = from..to
  BY <1>3 DEF Busy, GroupOn
<1>5. i \in Nat /\ i \in from..to
  BY <1>1, <1>4, CallIsOp
<1>6. Marked(tr, tr2, {i}, {})
  BY <1>2, <1>4, <1>5, StartedIs
<1>7. MayBegin(tr, i, u, d)
  <2>1. tr[Len(tr)].calls = reply.calls
    BY <1>1 DEF HarnessInv, ReplyFits, InHand, InReply
  <2> QED
    BY <1>1, <1>2, <2>1 DEF MayBegin, HarnessInv, ClearedIsFree
<1>8. Starting(tr, tr2, w, u, d, from, to, i)
  BY <1>2, <1>5, <1>6, <1>7 DEF Starting
<1>9. Entries(tr2, r) /\ BlindIn(tr2) /\ EchoIn(tr2, r)
  BY <1>3, <1>8, StartedKeeps
<1>10. DoubtsIn(tr2, w2, u) /\ DoneIn(tr2, r, w2, d)
  BY <1>2, <1>3, <1>8, StartedKnown
<1>11. Known(tr2, r, w2, u, d)
  <2>1. tr2 \in Seq(EntryRecords) /\ r \in Nat
    BY <1>3, <1>6 DEF Marked, Busy, Known
  <2> QED
    BY <1>9, <1>10, <2>1 DEF Known
<1>12. w2 \in [DOMAIN work -> WorkStates] /\ w2[i] = "running"
  BY <1>1, <1>2, <1>4 DEF WorkStates, Pending
<1>13. ASSUME NEW j \in DOMAIN work, reply.calls[j] \in Writes PROVE w2[j] = "running"
  <2>1. j = i
    BY <1>13, WriteAlone
  <2> QED
    BY <1>12, <2>1
<1>14. {i} \in SUBSET DOMAIN work
  OBVIOUS
<1>15. CallLeaves(tr2, w2, g2)
  BY <1>1, <1>6, <1>11, <1>12, <1>13, <1>14, SameGuard DEF CallLeaves
<1> QED
  BY <1>1, <1>2, <1>15, CallLeavesKeeps

LEMMA ReturnKeeps ==
    ASSUME HarnessInv, phase = "tools", NEW i \in DOMAIN work, Return(i)
    PROVE  HarnessInv'
<1>1. PICK state \in {"succeeded", "failed", "rejected", "unknown"} :
        At(i, state) /\ guard' = Observed(guard, reply.calls[i], state)
  BY DEF Return
<1>2. PICK tr, tr2, r, g, g2, u, d, u2, d2, w, w2, from, op :
        /\ tr = transcript /\ tr2 = transcript' /\ r = runs /\ w = work /\ w2 = work'
        /\ g = guard /\ g2 = guard' /\ u = g.uncertain /\ d = g.done
        /\ u2 = g2.uncertain /\ d2 = g2.done /\ from = next /\ op = reply.calls[i]
  OBVIOUS
<1>3. StepKeeps /\ tr2 = tr /\ w2 = [w EXCEPT ![i] = state] /\ w[i] = "running"
  BY <1>1, <1>2 DEF Return, At
<1>4. GuardFits(g) /\ op \in Ops
  BY <1>2, SameGuard, CallIsOp
<1>5. g2 = Observed(g, op, state)
  BY <1>1, <1>2
<1>6. /\ GuardFits(g2) /\ u \subseteq u2
      /\ op \in Writes /\ state = "unknown" => op \in u2
      /\ op \notin Writes \/ state # "succeeded" => d2 = d
      /\ op \in Writes /\ state = "succeeded" =>
           op \in d2 /\ \A x \in d : x \in d2 \/ Replaces(op, x)
  <2>1. /\ GuardFits(g2) /\ g.uncertain \subseteq g2.uncertain
        /\ op \in Writes /\ state = "unknown" => op \in g2.uncertain
        /\ op \notin Writes \/ state # "succeeded" => g2.done = g.done
        /\ op \in Writes /\ state = "succeeded" =>
             op \in g2.done /\ \A x \in g.done : x \in g2.done \/ Replaces(op, x)
    <3>1. Observing(g, op, state, g2)
      BY <1>4, <1>5 DEF Observing
    <3> QED
      BY <3>1, ObservedGives
  <2> QED
    BY <1>2, <2>1
<1>7. PICK to : Busy(tr, r, w, u, d, from, to)
  BY <1>2, GroupBusy
<1>8. /\ GroupOn(tr, w, from, to) /\ tr \in Seq(EntryRecords)
      /\ w \in [from..to -> WorkStates] /\ DOMAIN w = from..to
  BY <1>7 DEF Busy, GroupOn
<1>9. Moving(w, w2, from, to, i, state)
  BY <1>2, <1>3, <1>8 DEF Moving, Moved
<1>10. tr[Len(tr)].calls[i] = op
  <2>1. tr[Len(tr)].calls = reply.calls
    BY <1>2 DEF HarnessInv, ReplyFits, InHand, InReply
  <2> QED
    BY <1>2, <2>1
<1>11. DoubtsIn(tr, w2, u2)
  <2>1. tr[Len(tr)].calls[i] \in Writes /\ w[i] \in Startables =>
          state \in Startables /\ (state = "unknown" => tr[Len(tr)].calls[i] \in u2)
    BY <1>6, <1>10 DEF Startables
  <2> QED
    BY <1>6, <1>7, <1>9, <2>1, DoubtsMove
<1>12. DoneIn(tr, r, w2, d2)
  <2>1. CASE state # "succeeded"
    <3>1. d2 = d
      BY <1>6, <2>1
    <3>2. w[i] # "succeeded"
      BY <1>3
    <3>3. DoneIn(tr, r, w2, d)
      BY <1>7, <1>9, <2>1, <3>2, DoneMove
    <3> QED
      BY <3>1, <3>3
  <2>2. CASE state = "succeeded"
    <3>1. Moving(w, w2, from, to, i, "succeeded") /\ w[i] # "succeeded"
      BY <1>3, <1>9, <2>2
    <3>2. op \in Writes => op \in d2
      BY <1>6, <2>2
    <3>3. \A x \in d : x \in d2 \/ (op \in Writes /\ Replaces(op, x))
      BY <1>6, <2>2
    <3>4. op = tr[Len(tr)].calls[i]
      BY <1>10
    <3> QED
      BY <1>7, <3>1, <3>2, <3>3, <3>4, DoneReturn
  <2> QED
    BY <2>1, <2>2
<1>13. Known(tr, r, w2, u2, d2)
  BY <1>7, <1>11, <1>12 DEF Known, Busy
<1>14. w2 \in [DOMAIN work -> WorkStates] /\ w2[i] = state
  BY <1>2, <1>3, <1>8 DEF WorkStates, Results, Errors
<1>15. ASSUME NEW j \in DOMAIN work, reply.calls[j] \in Writes PROVE w2[j] = state
  <2>1. j = i
    BY <1>15, WriteAlone
  <2> QED
    BY <1>14, <2>1
<1>16. {} \in SUBSET DOMAIN work /\ Marked(tr, tr2, {}, {})
  BY <1>3, <1>8 DEF Marked
<1>17. CallLeaves(tr2, w2, g2)
  BY <1>2, <1>3, <1>6, <1>13, <1>14, <1>15, <1>16 DEF CallLeaves
<1>18. transcript' = tr2 /\ work' = w2 /\ guard' = g2
  BY <1>2
<1> QED
  BY <1>3, <1>17, <1>18, CallLeavesKeeps


-----------------------------------------------------------------------------
(* The results of a group are written.                                     *)

\* The tracker after the results of a group, as the loop counts them.
LEMMA LastIs ==
    ASSUME NEW from \in Nat, NEW to \in Nat, from <= to, NEW w, DOMAIN w = from..to
    PROVE  from + Cardinality(DOMAIN w) - 1 = to
<1>1. Cardinality(from..to) = to - from + 1
  BY FS_Interval
<1> QED
  BY <1>1

\* The places in from..n, counted from one.
LEMMA SizeOfInterval ==
    ASSUME NEW from \in Nat, NEW n \in Nat, NEW x \in 1..(n + 1 - from)
    PROVE  from + x - 1 \in from..n /\ from + x - 1 \in Nat
OBVIOUS

\* The results of the calls from..n of the group.
LEMMA GroupAnswered ==
    ASSUME NEW tr, NEW w, NEW from, NEW to, GroupOn(tr, w, from, to), WellAnswered(tr[Len(tr)]),
           NEW n \in from..to, \A i \in from..n : w[i] \in Results, NEW s, s = [i \in from..n |-> w[i]],
           NEW more, more = [x \in 1..(n + 1 - from) |-> [call |-> from + x - 1, state |-> w[from + x - 1]]],
           NEW tr2, tr2 = [tr EXCEPT ![Len(tr)].results = @ \o more]
    PROVE  AnsweredTo(tr, tr2, from, n, s)
<1>1. /\ tr \in Seq(EntryRecords) /\ tr # <<>>
      /\ from \in Nat /\ to \in Nat /\ from = Len(tr[Len(tr)].results) + 1
      /\ from <= to /\ to <= Len(tr[Len(tr)].calls)
  BY DEF GroupOn
<1>2. from >= 1 /\ Len(tr[Len(tr)].calls) \in Nat
  <2>1. tr[Len(tr)] \in EntryRecords
    BY <1>1, EmptySeq, LenProperties
  <2>2. tr[Len(tr)].results \in Seq(ResultRecords) /\ tr[Len(tr)].calls \in Seq(Ops)
    BY <2>1 DEF EntryRecords
  <2> QED
    BY <1>1, <2>2, LenProperties
<1>3. s \in [from..n -> Results]
  OBVIOUS
<1>4. ASSUME NEW x \in 1..(n + 1 - from)
      PROVE  /\ more[x] = [call |-> from + x - 1, state |-> s[from + x - 1]]
             /\ more[x] \in ResultRecords
  <2>0. from \in Nat /\ n \in Nat
    BY <1>1
  <2>1. from + x - 1 \in from..n
    BY <2>0, SizeOfInterval, Zenon
  <2>2. s[from + x - 1] = w[from + x - 1] /\ s[from + x - 1] \in Results
    BY <1>3, <2>1
  <2>3. from + x - 1 \in Nat
    BY <2>0, SizeOfInterval, Zenon
  <2> QED
    BY <2>2, <2>3 DEF ResultRecords
<1>5. more \in [1..(n + 1 - from) -> ResultRecords]
  BY <1>4
<1>6. ResultsFor(more, from, n, s)
  BY <1>1, <1>3, <1>4, <1>5, SMTT(30) DEF ResultsFor
<1>7. n <= Len(tr[Len(tr)].calls)
  BY <1>1, <1>2
<1> QED
  BY <1>1, <1>6, <1>7, AnsweringIs

LEMMA GroupAnswerable ==
    ASSUME NEW tr, NEW r, NEW w, NEW u, NEW d, NEW from, NEW to, Busy(tr, r, w, u, d, from, to),
           NEW n \in from..to
    PROVE  Answerable(tr, r, from, n)
<1>1. GroupOn(tr, w, from, to) /\ Known(tr, r, w, u, d)
  BY DEF Busy
<1>2. /\ tr \in Seq(EntryRecords) /\ tr # <<>> /\ from = Len(tr[Len(tr)].results) + 1
      /\ tr[Len(tr)].performed \subseteq 1..to /\ from \in Nat /\ to \in Nat
  BY <1>1 DEF GroupOn
<1>3. ASSUME NEW j \in tr[Len(tr)].performed, NEW i \in from..n, ~(j <= i)
      PROVE  tr[Len(tr)].calls[j] \notin Writes
  <2>1. j \in from..to /\ i \in from..to /\ j # i
    BY <1>2, <1>3
  <2>2. \A x \in from..to : tr[Len(tr)].calls[x] \in Writes => from = to /\ x = to
    BY <1>1, GroupFacts
  <2> QED
    BY <1>2, <2>1, <2>2
<1> QED
  BY <1>1, <1>2, <1>3 DEF Answerable, Known

\* What RecordGroup writes, in the terms of the group.
GroupWritten(tr, tr2, w, from, n) ==
    tr2 = IF n < from THEN tr
          ELSE [tr EXCEPT ![Len(tr)].results =
                  @ \o [x \in 1..(n + 1 - from) |-> [call |-> from + x - 1, state |-> w[from + x - 1]]]]

LEMMA RecordGroupIs ==
    ASSUME HarnessInv, RecordGroup, NEW to \in Nat, next <= to, next \in Nat, DOMAIN work = next..to
    PROVE  \/ /\ \A i \in next..to : work[i] # "broken"
              /\ GroupWritten(transcript, transcript', work, next, to)
              /\ tracker' = (CHOOSE seen :
                               seen = [i \in (next - 1)..to |->
                                         IF i < next THEN tracker
                                         ELSE Tracked(seen[i - 1], Current, i, work[i])])[to]
              /\ next' = to + 1 /\ work' = <<>> /\ phase' = "calls"
              /\ UNCHANGED <<runs, count, reply, guard, outcome>>
           \/ \E n \in (next - 1)..to :
                /\ \A i \in next..n : work[i] # "broken"
                /\ GroupWritten(transcript, transcript', work, next, n)
                /\ End(Failure) /\ UNCHANGED <<runs, tracker>>
<1>1. next + Cardinality(DOMAIN work) - 1 = to
  BY LastIs
<1> QED
  BY <1>1 DEF RecordGroup, Answering, GroupWritten, Go

LEMMA RecordGroupKeeps ==
    ASSUME HarnessInv, RecordGroup
    PROVE  HarnessInv'
<1>1. phase = "tools" /\ \A i \in DOMAIN work : Settled(work[i])
  BY DEF RecordGroup
<1>2. PICK tr, tr2, r, u, d, w, from, t0 :
        /\ tr = transcript /\ tr2 = transcript' /\ r = runs /\ u = guard.uncertain /\ d = guard.done
        /\ w = work /\ from = next /\ t0 = tracker
  OBVIOUS
<1>3. PICK to \in Nat : Busy(tr, r, w, u, d, from, to) /\ to <= Len(reply.calls)
  BY <1>1, <1>2, GroupBusy
<1>4. GroupOn(tr, w, from, to) /\ Known(tr, r, w, u, d)
  BY <1>3 DEF Busy
<1>5. /\ tr \in Seq(EntryRecords) /\ tr # <<>> /\ from = Len(tr[Len(tr)].results) + 1
      /\ from \in Nat /\ from <= to /\ w \in [from..to -> WorkStates] /\ DOMAIN w = from..to
  BY <1>4 DEF GroupOn
<1>6. Len(tr) \in 1..Len(tr) /\ Len(tr) \in Nat
  BY <1>5, EmptySeq, LenProperties
<1>7. WellAnswered(tr[Len(tr)])
  BY <1>4, <1>6 DEF Known, Entries
<1>8. ASSUME NEW i \in from..to, w[i] # "broken" PROVE w[i] \in Results
  BY <1>1, <1>2, <1>5, <1>8 DEF Settled
<1>9. from >= 1
  <2>1. tr[Len(tr)] \in EntryRecords
    BY <1>5, <1>6
  <2>2. tr[Len(tr)].results \in Seq(ResultRecords)
    BY <2>1 DEF EntryRecords
  <2> QED
    BY <1>5, <2>2, LenProperties
<1>10. HarnessShape /\ reply.calls \in Seq(Ops) /\ t0 \in TrackerRecords /\ r \in Nat
  BY <1>2 DEF HarnessInv, HarnessShape
<1>11. \* What is answered.
       ASSUME NEW n \in from..to, GroupWritten(tr, tr2, w, from, n), \A i \in from..n : w[i] # "broken"
       PROVE  /\ AnsweredTo(tr, tr2, from, n, [i \in from..n |-> w[i]])
              /\ tr2 \in Seq(EntryRecords) /\ Entries(tr2, r) /\ BlindIn(tr2) /\ EchoIn(tr2, r)
  <2>1. PICK s, more :
          /\ s = [i \in from..n |-> w[i]]
          /\ more = [x \in 1..(n + 1 - from) |-> [call |-> from + x - 1, state |-> w[from + x - 1]]]
    OBVIOUS
  <2>2. tr2 = [tr EXCEPT ![Len(tr)].results = @ \o more]
    BY <1>5, <1>11, <2>1 DEF GroupWritten
  <2>3. \A i \in from..n : w[i] \in Results
    BY <1>5, <1>8, <1>11
  <2>4. AnsweredTo(tr, tr2, from, n, s)
    BY <1>4, <1>7, <2>1, <2>2, <2>3, GroupAnswered
  <2>5. Answerable(tr, r, from, n)
    BY <1>3, GroupAnswerable
  <2>6. Entries(tr2, r) /\ BlindIn(tr2) /\ EchoIn(tr2, r)
    BY <2>4, <2>5, AnsweredKeeps
  <2> QED
    BY <2>1, <2>4, <2>6 DEF AnsweredTo
<1>12. CASE \E n \in (from - 1)..to :
              /\ \A i \in from..n : w[i] # "broken"
              /\ GroupWritten(tr, tr2, w, from, n)
              /\ End(Failure) /\ UNCHANGED <<runs, tracker>>
  <2>1. PICK n \in (from - 1)..to :
          /\ \A i \in from..n : w[i] # "broken"
          /\ GroupWritten(tr, tr2, w, from, n)
          /\ End(Failure) /\ UNCHANGED <<runs, tracker>>
    BY <1>12
  <2>2. PICK how : how = Failure
    OBVIOUS
  <2>3. how \in {"canceled", "failed"} /\ End(how)
    BY <2>1, <2>2 DEF Failure
  <2>4. tr2 \in Seq(EntryRecords) /\ Entries(tr2, r) /\ BlindIn(tr2) /\ EchoIn(tr2, r)
    <3>1. CASE n < from
      BY <1>4, <2>1, <3>1 DEF GroupWritten, Known
    <3>2. CASE ~(n < from)
      <4>1. n \in from..to
        BY <1>5, <3>2
      <4> QED
        BY <1>11, <2>1, <4>1
    <3> QED
      BY <3>1, <3>2
  <2>5. Left(how, tr2, r, t0)
    BY <1>10, <2>3, <2>4 DEF Left
  <2>6. transcript' = tr2 /\ runs' = r /\ tracker' = t0
    BY <1>2, <2>1
  <2> QED
    BY <2>3, <2>5, <2>6, EndKeeps
<1>13. CASE /\ \A i \in from..to : w[i] # "broken"
            /\ GroupWritten(tr, tr2, w, from, to)
            /\ tracker' = (CHOOSE seen :
                             seen = [i \in (from - 1)..to |->
                                       IF i < from THEN t0
                                       ELSE Tracked(seen[i - 1], Current, i, w[i])])[to]
            /\ next' = to + 1 /\ work' = <<>> /\ phase' = "calls"
            /\ UNCHANGED <<runs, count, reply, guard, outcome>>
  <2>1. w \in [from..to -> Results]
    BY <1>5, <1>8, <1>13
  <2>2. to \in from..to
    BY <1>5
  <2>3. /\ AnsweredTo(tr, tr2, from, to, [i \in from..to |-> w[i]])
        /\ tr2 \in Seq(EntryRecords) /\ Entries(tr2, r) /\ BlindIn(tr2) /\ EchoIn(tr2, r)
    BY <1>11, <1>13, <2>2
  <2>4. AnsweredTo(tr, tr2, from, to, w)
    <3>1. [i \in from..to |-> w[i]] = w
      BY <2>1
    <3> QED
      BY <2>3, <3>1
  <2>5. Known(tr2, r, <<>>, u, d)
    <3>1. Recordable(tr, r, w, u, d, from, to)
      BY <1>4, <1>5, <2>1 DEF Recordable
    <3>2. DoubtsIn(tr2, <<>>, u) /\ DoneIn(tr2, r, <<>>, d)
      BY <2>4, <3>1, RecordedKnown
    <3> QED
      BY <1>10, <2>3, <3>2 DEF Known
  <2>6. /\ tr[Len(tr)].run = r /\ tr[Len(tr)].calls = reply.calls /\ reply.kind = "calls"
        /\ tr[Len(tr)].performed \subseteq 1..(from - 1) \cup DOMAIN w
    BY <1>1, <1>2 DEF HarnessInv, ReplyFits, InReply, InHand
  <2>7. tracker' \in TrackerRecords /\ FailuresStand(tr2, r, tracker'.failures)
    <3>1. PICK last : last = Len(tr)
      OBVIOUS
    <3>2. \E seen : SeenIs(seen, w, from, to, last, t0)
      <4>1. \A i \in from..to : reply.calls[i] \in Ops
        <5>1. \A i \in DOMAIN work : reply.calls[i] \in Ops
          BY <1>1, CallIsOp
        <5> QED
          BY <1>2, <1>5, <5>1
      <4>2. last \in Nat
        BY <1>6, <3>1
      <4>3. SeenFrom(w, from, to, last, t0)
        BY <1>5, <1>9, <1>10, <2>1, <4>1, <4>2 DEF SeenFrom
      <4> QED
        BY <4>3, SeenExists
    <3>3. PICK seen : seen = CHOOSE q : SeenIs(q, w, from, to, last, t0)
      OBVIOUS
    <3>4. SeenIs(seen, w, from, to, last, t0)
      BY <3>2, <3>3
    <3>5. tracker' = seen[to]
      BY <1>2, <1>13, <3>1, <3>3 DEF Current, SeenIs
    <3>6. TrackedBy(seen, tr, w, from, to, t0)
      <4>1. seen[from - 1] = t0
        BY <1>5, <1>9, <3>4 DEF SeenIs
      <4>2. ASSUME NEW i \in from..to PROVE seen[i] = Tracked(seen[i - 1], last, i, w[i])
        <5>1. i \in (from - 1)..to /\ ~(i < from)
          BY <1>5
        <5> QED
          BY <3>4, <5>1 DEF SeenIs
      <4> QED
        BY <3>1, <4>1, <4>2 DEF TrackedBy
    <3>7. FailuresStand(tr, r, t0.failures)
      BY <1>1, <1>2 DEF HarnessInv, KnownToTracker
    <3>8. Trackable(tr, r, w, from, to, t0)
      BY <1>4, <1>7, <1>10, <2>1, <2>6, <3>7 DEF Trackable
    <3>9. seen[to] \in TrackerRecords /\ FailuresStand(tr2, r, seen[to].failures)
      BY <2>4, <3>6, <3>8, GroupTracked
    <3> QED
      BY <3>5, <3>9
  <2>8. /\ transcript' = tr2 /\ runs' = r /\ work' = <<>> /\ guard' = guard /\ reply' = reply
        /\ phase' = "calls" /\ outcome' = outcome /\ count' = count /\ next' = to + 1
    BY <1>2, <1>13
  <2>9. HarnessShape'
    <3>1. GuardFits(guard)'
      BY <1>10, <2>8 DEF HarnessShape, GuardFits
    <3> QED
      BY <1>1, <1>10, <2>3, <2>7, <2>8, <3>1 DEF HarnessShape
  <2>10. GroupFits' /\ ClearedIsFree'
    BY <2>8 DEF GroupFits, ClearedIsFree
  <2>11. InReply /\ InReply'
    BY <1>1, <2>8 DEF InReply
  <2>12. /\ Len(tr2) = Len(tr) /\ tr2[Len(tr)].run = r /\ tr2[Len(tr)].calls = reply.calls
         /\ tr2[Len(tr)].performed = tr[Len(tr)].performed /\ Len(tr2[Len(tr)].results) = to
         /\ \A k \in 1..Len(tr) :
              /\ tr2[k].run = tr[k].run /\ tr2[k].calls = tr[k].calls
              /\ k # Len(tr) => tr2[k].results = tr[k].results
    BY <1>6, <2>4, <2>6 DEF AnsweredTo
  <2>13. ReplyFits'
    <3>1. InHand(tr2, r, reply.calls, to + 1)
      <4>1. tr2 # <<>>
        BY <1>6, <2>12, EmptySeq
      <4> QED
        BY <2>12, <4>1 DEF InHand
    <3>2. InHand(transcript, runs, reply.calls, next)'
      BY <2>8, <3>1
    <3>3. tr2[Len(tr2)].performed \subseteq 1..((to + 1) - 1) \cup DOMAIN <<>>
      BY <1>5, <2>6, <2>12
    <3>4. (transcript[Len(transcript)].performed \subseteq 1..(next - 1) \cup DOMAIN work)'
      BY <2>8, <3>3
    <3> QED
      BY <2>6, <2>8, <3>2, <3>4 DEF ReplyFits
  <2>14. AllAnswered'
    <3>1. \A k \in 1..Len(tr) : k # Len(tr) /\ tr[k].run = r => Len(tr[k].results) = Len(tr[k].calls)
      BY <1>1, <1>2, <2>11 DEF HarnessInv, AllAnswered, FullyAnswered
    <3>2. \A k \in 1..Len(tr2) :
            k # Len(tr2) /\ tr2[k].run = r => Len(tr2[k].results) = Len(tr2[k].calls)
      BY <2>12, <3>1
    <3> QED
      BY <2>8, <2>11, <3>2 DEF AllAnswered, FullyAnswered
  <2>15. Entries(transcript, runs)' /\ BlindIn(transcript)' /\ EchoIn(transcript, runs)'
    BY <2>3, <2>8
  <2>16. KnownToGuard'
    <3>1. DoubtsIn(tr2, <<>>, u) /\ DoneIn(tr2, r, <<>>, d)
      BY <2>5 DEF Known
    <3>2. guard'.uncertain = u /\ guard'.done = d
      BY <1>2, <2>8
    <3>3. /\ DoubtsIn(transcript, work, guard.uncertain)'
          /\ DoneIn(transcript, runs, work, guard.done)'
      BY <2>8, <3>1, <3>2
    <3> QED
      BY <3>3 DEF KnownToGuard
  <2>17. KnownToTracker'
    <3>1. FailuresStand(transcript, runs, tracker.failures)'
      BY <2>7, <2>8
    <3> QED
      BY <3>1 DEF KnownToTracker
  <2> QED
    BY <2>9, <2>10, <2>13, <2>14, <2>15, <2>16, <2>17 DEF HarnessInv
<1>14. to \in Nat /\ next <= to /\ next \in Nat /\ DOMAIN work = next..to
  BY <1>2, <1>5
<1> QED
  BY <1>2, <1>12, <1>13, <1>14, RecordGroupIs


-----------------------------------------------------------------------------
(* What a transcript says of a call, in the words of the module.           *)

LEMMA StateIs ==
    ASSUME HarnessInv, NEW k \in 1..Len(transcript), NEW i
    PROVE  /\ StateOf(k, i) = StateIn(transcript, k, i)
           /\ IsSettled(transcript[k], i) <=> StateIn(transcript, k, i) \notin {"none", "unknown"}
<1>1. PICK t, res : t = transcript[k] /\ res = t.results
  OBVIOUS
<1>2. t \in EntryRecords /\ WellAnswered(t)
  <2>1. transcript \in [1..Len(transcript) -> EntryRecords]
    BY LenProperties DEF HarnessInv, HarnessShape
  <2> QED
    BY <1>1, <2>1 DEF HarnessInv, Entries
<1>3. /\ res \in [1..Len(res) -> ResultRecords] /\ DOMAIN res = 1..Len(res)
      /\ \A n \in 1..Len(res) : res[n].call = n /\ res[n].state # "none"
  <2>1. res \in Seq(ResultRecords)
    BY <1>1, <1>2 DEF EntryRecords
  <2>2. res \in [1..Len(res) -> ResultRecords] /\ DOMAIN res = 1..Len(res)
    BY <2>1, LenProperties
  <2>3. ASSUME NEW n \in 1..Len(res) PROVE res[n].call = n /\ res[n].state # "none"
    <3>1. res[n] \in ResultRecords
      BY <2>2
    <3> QED
      BY <1>1, <1>2, <3>1 DEF WellAnswered, ResultRecords, Results, Errors
  <2> QED
    BY <2>2, <2>3
<1>4. StateIn(transcript, k, i) = IF i \in 1..Len(res) THEN res[i].state ELSE "none"
  BY <1>1 DEF StateIn
<1>5. StateOf(k, i) = IF \E n \in DOMAIN res : res[n].call = i
                      THEN res[CHOOSE n \in DOMAIN res : res[n].call = i].state ELSE "none"
  BY <1>1 DEF StateOf
<1>6. IsSettled(transcript[k], i) <=> \E n \in 1..Len(res) : res[n].call = i /\ res[n].state # "unknown"
  BY <1>1 DEF IsSettled
<1>7. CASE i \in 1..Len(res)
  <2>1. (CHOOSE n \in DOMAIN res : res[n].call = i) = i
    BY <1>3, <1>7
  <2> QED
    BY <1>3, <1>4, <1>5, <1>6, <1>7, <2>1
<1>8. CASE i \notin 1..Len(res)
  BY <1>3, <1>4, <1>5, <1>6, <1>8
<1> QED
  BY <1>7, <1>8

-----------------------------------------------------------------------------
(* A run begins.                                                           *)

LEMMA BeginRunKeeps ==
    ASSUME HarnessInv, BeginRun
    PROVE  HarnessInv'
<1>1. /\ phase = "idle" /\ phase' = "turn" /\ outcome' = "running" /\ runs' = runs + 1
      /\ guard' = NewGuard(InDoubt) /\ tracker' = NewTracker
      /\ UNCHANGED <<count, reply, next, work>>
  BY DEF BeginRun
<1>2. PICK tr, tr2, r, u : tr = transcript /\ tr2 = transcript' /\ r = runs /\ u = InDoubt
  OBVIOUS
<1>3. HarnessShape /\ tr \in Seq(EntryRecords) /\ r \in Nat
  BY <1>2 DEF HarnessInv, HarnessShape
<1>4. DOMAIN tr = 1..Len(tr) /\ \A k \in 1..Len(tr) : DOMAIN tr[k].calls = 1..Len(tr[k].calls)
  <2>1. DOMAIN tr = 1..Len(tr) /\ tr \in [1..Len(tr) -> EntryRecords]
    BY <1>3, LenProperties
  <2>2. ASSUME NEW k \in 1..Len(tr) PROVE DOMAIN tr[k].calls = 1..Len(tr[k].calls)
    <3>1. tr[k].calls \in Seq(Ops)
      BY <2>1 DEF EntryRecords
    <3> QED
      BY <3>1, LenProperties
  <2> QED
    BY <2>1, <2>2
<1>50. PICK len \in 0..Len(transcript) : \E at \in [1..len -> DOMAIN transcript] :
         /\ \A m, n \in 1..len : m < n => at[m] < at[n]
         /\ {at[m] : m \in 1..len} = {k \in DOMAIN transcript : Unsettled(transcript[k])}
         /\ transcript' = [m \in 1..len |-> transcript[at[m]]]
  <2>1. DoubtsRemain
    BY DEF BeginRun
  <2> QED
    BY <2>1, Zenon DEF DoubtsRemain
<1>51. PICK at \in [1..len -> DOMAIN transcript] :
         /\ \A m, n \in 1..len : m < n => at[m] < at[n]
         /\ {at[m] : m \in 1..len} = {k \in DOMAIN transcript : Unsettled(transcript[k])}
         /\ transcript' = [m \in 1..len |-> transcript[at[m]]]
  BY <1>50, Zenon
<1>5. /\ at \in [1..len -> 1..Len(tr)]
      /\ \A m, n \in 1..len : m < n => at[m] < at[n]
      /\ tr2 = [m \in 1..len |-> tr[at[m]]]
  <2>1. DOMAIN transcript = 1..Len(tr)
    BY <1>2, <1>4
  <2>2. at \in [1..len -> 1..Len(tr)]
    BY <1>51, <2>1, Zenon
  <2>3. tr2 = [m \in 1..len |-> tr[at[m]]]
    BY <1>2, <1>51, Zenon
  <2> QED
    BY <1>51, <2>2, <2>3, Zenon
<1>6. Picked(tr, tr2, at, len)
  <2>1. len \in Nat
    BY <1>3, <1>5, LenProperties
  <2> QED
    BY <1>5, <2>1 DEF Picked
<1>7. u \subseteq Writes
  BY <1>2 DEF InDoubt
<1>8. ASSUME NEW k \in 1..Len(tr), NEW i \in 1..Len(tr[k].calls),
             tr[k].calls[i] \in Writes, StateIn(tr, k, i) \in {"none", "unknown"}
      PROVE  tr[k].calls[i] \in u
  <2>1. ~IsSettled(tr[k], i)
    BY <1>2, <1>8, StateIs
  <2>2. i \in DOMAIN transcript[k].calls
    BY <1>2, <1>4
  <2> QED
    BY <1>2, <1>8, <2>1, <2>2 DEF InDoubt
<1>9. Doubted(tr, r, u)
  BY <1>2, <1>3, <1>8 DEF Doubted, HarnessInv
<1>10. /\ tr2 \in Seq(EntryRecords) /\ Entries(tr2, r + 1)
       /\ \A k \in 1..Len(tr2) : tr2[k].run # r + 1
       /\ BlindIn(tr2) /\ DoubtsIn(tr2, <<>>, u)
  BY <1>6, <1>9, PickedKeeps
<1>11. PICK r2, none : r2 = r + 1 /\ none = {}
  OBVIOUS
<1>12. EchoIn(tr2, r2) /\ DoneIn(tr2, r2, <<>>, {}) /\ FailuresStand(tr2, r2, {})
  BY <1>10, <1>11, NothingYet
<1>13. GuardFits(NewGuard(u)) /\ NewGuard(u).uncertain = u /\ NewGuard(u).done = {}
  BY <1>7, NewGuardFits
<1>14. tracker' \in TrackerRecords /\ tracker'.failures = {}
  BY <1>1 DEF NewTracker, TrackerRecords
<1>15. /\ transcript' = tr2 /\ runs' = r2 /\ r2 \in Nat /\ reply.calls = <<>> /\ next = 1 /\ work = <<>>
  BY <1>1, <1>2, <1>3, <1>11 DEF HarnessShape
<1>16. HarnessShape'
  <2>1. GuardFits(guard)'
    BY <1>1, <1>2, <1>13
  <2> QED
    BY <1>1, <1>3, <1>10, <1>14, <1>15, <2>1 DEF HarnessShape
<1>17. ~InReply'
  BY <1>1 DEF InReply
<1>18. AllAnswered'
  BY <1>10, <1>11, <1>15 DEF AllAnswered, FullyAnswered
<1>19. GroupFits' /\ ReplyFits' /\ ClearedIsFree'
  BY <1>1, <1>17 DEF GroupFits, ReplyFits, ClearedIsFree
<1>20. Entries(transcript, runs)' /\ BlindIn(transcript)' /\ EchoIn(transcript, runs)'
  BY <1>10, <1>11, <1>12, <1>15
<1>21. KnownToGuard'
  <2>1. work' = <<>> /\ guard'.uncertain = u /\ guard'.done = {}
    BY <1>1, <1>2, <1>13, <1>15
  <2>2. /\ DoubtsIn(transcript, work, guard.uncertain)'
        /\ DoneIn(transcript, runs, work, guard.done)'
    BY <1>10, <1>12, <1>15, <2>1
  <2> QED
    BY <2>2 DEF KnownToGuard
<1>22. KnownToTracker'
  <2>1. FailuresStand(transcript, runs, tracker.failures)'
    BY <1>12, <1>14, <1>15
  <2> QED
    BY <2>1 DEF KnownToTracker
<1> QED
  BY <1>16, <1>18, <1>19, <1>20, <1>21, <1>22 DEF HarnessInv

-----------------------------------------------------------------------------
(* The invariant, and what follows from it.                                *)

LEMMA HarnessStarts == HarnessInit => HarnessInv
<1> SUFFICES ASSUME HarnessInit PROVE HarnessInv
  OBVIOUS
<1>1. PICK tr : tr = transcript
  OBVIOUS
<1>2. tr = <<>> /\ Len(tr) = 0 /\ 1..Len(tr) = {} /\ tr \in Seq(EntryRecords)
  BY <1>1, EmptySeq DEF HarnessInit
<1>3. GuardFits(guard)
  <2>1. GuardFits(NewGuard({}))
    BY NewGuardFits
  <2> QED
    BY <2>1 DEF HarnessInit
<1>4. /\ reply \in [kind : Replies, calls : Seq(Ops), verdict : Verdicts]
      /\ reply.kind = "none" /\ reply.calls = <<>> /\ Len(reply.calls) <= ReplyLength
  BY EmptySeq, LimitAssumption DEF HarnessInit, NoReply, Replies, Verdicts
<1>5. HarnessShape
  BY <1>1, <1>2, <1>3, <1>4 DEF HarnessInit, HarnessShape, NewCount, CountRecords, NewTracker, TrackerRecords
<1>6. Entries(tr, runs) /\ BlindIn(tr) /\ EchoIn(tr, runs)
  BY <1>2 DEF Entries, BlindIn, EchoIn
<1>7. GroupFits /\ ReplyFits /\ AllAnswered /\ ClearedIsFree /\ KnownToGuard /\ KnownToTracker
  BY DEF HarnessInit, GroupFits, ReplyFits, InReply, AllAnswered, ClearedIsFree, KnownToGuard,
         KnownToTracker
<1> QED
  BY <1>1, <1>5, <1>6, <1>7 DEF HarnessInv

LEMMA CallStepKeeps ==
    ASSUME HarnessInv, NEW i \in DOMAIN work, CallStep(i) \/ Approve(i) \/ Deny(i)
    PROVE  HarnessInv'
<1>1. phase = "tools"
  <2>1. work # <<>>
    OBVIOUS
  <2> QED
    BY <2>1 DEF HarnessInv, HarnessShape
<1>2. CASE Refuse(i)
  BY <1>1, <1>2, RefuseKeeps
<1>3. CASE CheckWrite(i)
  BY <1>1, <1>3, CheckWriteKeeps
<1>4. CASE CheckRead(i)
  BY <1>1, <1>4, CheckReadKeeps
<1>5. CASE Dispatch(i)
  BY <1>1, <1>5, DispatchKeeps
<1>6. CASE BreakCall(i)
  BY <1>1, <1>6, BreakCallKeeps
<1>7. CASE Return(i)
  BY <1>1, <1>7, ReturnKeeps
<1>8. CASE WaitEnds(i) \/ Deny(i)
  BY <1>1, <1>8, DenyKeeps DEF WaitEnds
<1>9. CASE Approve(i)
  BY <1>1, <1>9, ApproveKeeps
<1> QED
  BY <1>2, <1>3, <1>4, <1>5, <1>6, <1>7, <1>8, <1>9 DEF CallStep

LEMMA HarnessStuttering ==
    ASSUME HarnessInv, UNCHANGED harnessVars
    PROVE  HarnessInv'
<1>1. UNCHANGED <<transcript, runs, phase, count, reply, next, work, guard, tracker, outcome>>
  BY DEF harnessVars, memory
<1>2. HarnessShape' /\ GroupFits' /\ ReplyFits' /\ AllAnswered' /\ ClearedIsFree'
  <2>1. HarnessShape'
    <3>1. GuardFits(guard)'
      BY <1>1 DEF HarnessInv, HarnessShape, GuardFits
    <3> QED
      BY <1>1, <3>1 DEF HarnessInv, HarnessShape
  <2>2. GroupFits'
    BY <1>1 DEF HarnessInv, GroupFits
  <2>3. InReply' <=> InReply
    BY <1>1 DEF InReply
  <2>4. ReplyFits'
    <3>1. InHand(transcript, runs, reply.calls, next)' <=> InHand(transcript, runs, reply.calls, next)
      BY <1>1
    <3> QED
      BY <1>1, <2>3, <3>1 DEF HarnessInv, ReplyFits
  <2>5. AllAnswered'
    BY <1>1, <2>3 DEF HarnessInv, AllAnswered, FullyAnswered
  <2>6. ClearedIsFree'
    BY <1>1 DEF HarnessInv, ClearedIsFree
  <2> QED
    BY <2>1, <2>2, <2>4, <2>5, <2>6
<1>3. Entries(transcript, runs)' /\ BlindIn(transcript)' /\ EchoIn(transcript, runs)'
  <2>1. Entries(transcript, runs) /\ BlindIn(transcript) /\ EchoIn(transcript, runs)
    BY DEF HarnessInv
  <2> QED
    BY <1>1, <2>1
<1>4. KnownToGuard'
  <2>1. DoubtsIn(transcript, work, guard.uncertain)' <=> DoubtsIn(transcript, work, guard.uncertain)
    BY <1>1
  <2>2. DoneIn(transcript, runs, work, guard.done)' <=> DoneIn(transcript, runs, work, guard.done)
    BY <1>1
  <2> QED
    BY <1>1, <2>1, <2>2 DEF HarnessInv, KnownToGuard
<1>5. KnownToTracker'
  <2>1. FailuresStand(transcript, runs, tracker.failures)' <=> FailuresStand(transcript, runs, tracker.failures)
    BY <1>1
  <2> QED
    BY <1>1, <2>1 DEF HarnessInv, KnownToTracker
<1> QED
  BY <1>2, <1>3, <1>4, <1>5 DEF HarnessInv

LEMMA HarnessKept == HarnessInv /\ [HarnessNext]_harnessVars => HarnessInv'
<1> SUFFICES ASSUME HarnessInv, [HarnessNext]_harnessVars PROVE HarnessInv'
  OBVIOUS
<1>1. CASE BeginRun
  BY <1>1, BeginRunKeeps
<1>2. CASE LoopStep
  <2>1. CASE StartTurn
    BY <2>1, StartTurnKeeps
  <2>2. CASE TurnsEnd
    BY <2>2, TurnsEndKeeps
  <2>3. CASE Stream
    BY <2>3, StreamKeeps
  <2>4. CASE StreamStops
    BY <2>4, StreamStopsKeeps
  <2>5. CASE WriteReply
    BY <2>5, WriteReplyKeeps
  <2>6. CASE AfterReply
    BY <2>6, AfterReplyKeeps
  <2>7. CASE StartGroup
    BY <2>7, StartGroupKeeps
  <2>8. CASE AfterCalls
    BY <2>8, AfterCallsKeeps
  <2>9. CASE RecordGroup
    BY <2>9, RecordGroupKeeps
  <2>10. CASE Fail
    BY <2>10, RunFailKeeps
  <2>11. CASE \E i \in DOMAIN work : CallStep(i)
    BY <2>11, CallStepKeeps
  <2> QED
    BY <1>2, <2>1, <2>2, <2>3, <2>4, <2>5, <2>6, <2>7, <2>8, <2>9, <2>10, <2>11 DEF LoopStep
<1>3. CASE Crash
  BY <1>3, RunFailKeeps
<1>4. CASE \E i \in DOMAIN work : Approve(i) \/ Deny(i)
  BY <1>4, CallStepKeeps
<1>5. CASE \E how \in {"expired", "canceled"} : ContextEnds(how)
  BY <1>5, ContextEndsKeeps
<1>6. CASE UNCHANGED harnessVars
  BY <1>6, HarnessStuttering
<1> QED
  BY <1>1, <1>2, <1>3, <1>4, <1>5, <1>6 DEF HarnessNext

LEMMA PairedFollows == HarnessInv => ResultsPaired
<1> SUFFICES ASSUME HarnessInv,
                    phase \in {"turn", "model", "reply"} \/ outcome \in {"completed", "budget"},
                    NEW k \in 1..Len(transcript), transcript[k].run = runs
             PROVE  [n \in DOMAIN transcript[k].results |-> transcript[k].results[n].call]
                        = [n \in DOMAIN transcript[k].calls |-> n]
  BY DEF ResultsPaired
<1>1. ~InReply /\ (phase # "idle" \/ outcome \in {"completed", "budget"})
  BY DEF HarnessInv, HarnessShape, InReply
<1>2. Len(transcript[k].results) = Len(transcript[k].calls)
  BY <1>1 DEF HarnessInv, AllAnswered, FullyAnswered
<1>3. WellAnswered(transcript[k])
  BY DEF HarnessInv, Entries
<1>4. /\ DOMAIN transcript[k].results = 1..Len(transcript[k].results)
      /\ DOMAIN transcript[k].calls = 1..Len(transcript[k].calls)
  <2>1. transcript[k] \in EntryRecords
    BY LenProperties DEF HarnessInv, HarnessShape
  <2>2. transcript[k].results \in Seq(ResultRecords) /\ transcript[k].calls \in Seq(Ops)
    BY <2>1 DEF EntryRecords
  <2> QED
    BY <2>2, LenProperties
<1> QED
  BY <1>2, <1>3, <1>4 DEF WellAnswered

\* A call left unresolved is one whose failure stands.
LEMMA LeftIsStanding ==
    ASSUME HarnessInv, NEW k \in 1..Len(transcript), NEW i
    PROVE  LeftUnresolved(k, i) <=>
             i \in 1..Len(transcript[k].calls) /\ Stands(transcript, runs, k, i)
<1>1. \A m \in 1..Len(transcript) : DOMAIN transcript[m].calls = 1..Len(transcript[m].calls)
  <2> SUFFICES ASSUME NEW m \in 1..Len(transcript)
               PROVE  DOMAIN transcript[m].calls = 1..Len(transcript[m].calls)
    OBVIOUS
  <2>1. transcript[m] \in EntryRecords
    BY LenProperties DEF HarnessInv, HarnessShape
  <2>2. transcript[m].calls \in Seq(Ops)
    BY <2>1 DEF EntryRecords
  <2> QED
    BY <2>2, LenProperties
<1>2. \A m \in 1..Len(transcript) : \A x : StateOf(m, x) = StateIn(transcript, m, x)
  BY StateIs
<1>3. \A m \in k..Len(transcript) : m \in 1..Len(transcript)
  OBVIOUS
<1>4. MadeGood(transcript, k, i) <=>
        \E n \in k..Len(transcript) : \E j \in DOMAIN transcript[n].calls :
            /\ Later(k, i, n, j) /\ StateOf(n, j) = "succeeded"
            /\ OperationOf(transcript[n].calls[j]) = OperationOf(transcript[k].calls[i])
  BY <1>1, <1>2, <1>3 DEF MadeGood
<1> QED
  BY <1>1, <1>2, <1>4 DEF LeftUnresolved, Stands

LEMMA ReportFollows == HarnessInv => UnresolvedIsReported
<1> SUFFICES ASSUME HarnessInv, outcome = "completed"
             PROVE  {f.call : f \in tracker.failures} =
                    {c \in (1..Len(transcript)) \X (1..ReplyLength) : LeftUnresolved(c[1], c[2])}
  BY DEF UnresolvedIsReported
<1>1. FailuresStand(transcript, runs, tracker.failures)
  BY DEF HarnessInv, KnownToTracker
<1>2. ASSUME NEW f \in tracker.failures
      PROVE  /\ f.call \in (1..Len(transcript)) \X (1..ReplyLength)
             /\ LeftUnresolved(f.call[1], f.call[2])
  <2>1. PICK k \in 1..Len(transcript) : \E i \in 1..Len(transcript[k].calls) :
          Stands(transcript, runs, k, i) /\ f = FailureOf(transcript, k, i)
    BY <1>1, <1>2 DEF FailuresStand
  <2>2. PICK i \in 1..Len(transcript[k].calls) :
          Stands(transcript, runs, k, i) /\ f = FailureOf(transcript, k, i)
    BY <2>1
  <2>3. LeftUnresolved(k, i)
    BY <2>2, LeftIsStanding
  <2>4. i \in 1..ReplyLength
    <3>1. Len(transcript[k].calls) <= ReplyLength /\ Len(transcript[k].calls) \in Nat
      <4>1. transcript[k] \in EntryRecords
        BY LenProperties DEF HarnessInv, HarnessShape
      <4>2. transcript[k].calls \in Seq(Ops)
        BY <4>1 DEF EntryRecords
      <4> QED
        BY <4>2, LenProperties DEF HarnessInv, Entries
    <3> QED
      BY <3>1, LimitAssumption, SMTT(30)
  <2>5. f.call = <<k, i>>
    BY <2>2 DEF FailureOf
  <2> QED
    BY <2>3, <2>4, <2>5
<1>3. ASSUME NEW k \in 1..Len(transcript), NEW i, LeftUnresolved(k, i)
      PROVE  \E f \in tracker.failures : f.call = <<k, i>>
  <2>1. i \in 1..Len(transcript[k].calls) /\ Stands(transcript, runs, k, i)
    BY <1>3, LeftIsStanding
  <2>2. FailureOf(transcript, k, i) \in tracker.failures
    BY <1>1, <2>1 DEF FailuresStand
  <2> QED
    BY <2>2 DEF FailureOf
<1>4. ASSUME NEW c \in (1..Len(transcript)) \X (1..ReplyLength), LeftUnresolved(c[1], c[2])
      PROVE  \E f \in tracker.failures : f.call = c
  <2>1. PICK k, i : k = c[1] /\ i = c[2]
    OBVIOUS
  <2>2. c = <<k, i>> /\ k \in 1..Len(transcript) /\ LeftUnresolved(k, i)
    BY <1>4, <2>1
  <2> QED
    BY <1>3, <2>2
<1> HIDE DEF LeftUnresolved
<1> QED
  BY <1>2, <1>4

LEMMA WritesFollow == HarnessInv => WritesOnce
<1> SUFFICES ASSUME HarnessInv PROVE NoBlindRepeat /\ NoEcho
  BY DEF WritesOnce
<1>1. BlindIn(transcript) /\ EchoIn(transcript, runs)
  BY DEF HarnessInv
<1>2. \A m \in 1..Len(transcript) : \A x :
        /\ StateOf(m, x) = StateIn(transcript, m, x)
        /\ IsSettled(transcript[m], x) <=> StateIn(transcript, m, x) \notin {"none", "unknown"}
  BY StateIs
<1>3. NoBlindRepeat
  <2> SUFFICES ASSUME NEW k \in 1..Len(transcript), NEW n \in 1..Len(transcript),
                      NEW i \in transcript[k].performed, NEW j \in transcript[n].performed,
                      k < n \/ (k = n /\ i < j),
                      transcript[k].calls[i] = transcript[n].calls[j],
                      transcript[n].calls[j] \in Writes, ~IsSettled(transcript[k], i)
               PROVE  j \in transcript[n].consented
    BY DEF NoBlindRepeat
  <2>1. StateIn(transcript, k, i) \in {"none", "unknown"} /\ Later(k, i, n, j)
    BY <1>2 DEF Later
  <2> QED
    BY <1>1, <2>1 DEF BlindIn
<1>4. \A m \in 1..Len(transcript) : DOMAIN transcript[m].calls = 1..Len(transcript[m].calls)
  <2> SUFFICES ASSUME NEW m \in 1..Len(transcript)
               PROVE  DOMAIN transcript[m].calls = 1..Len(transcript[m].calls)
    OBVIOUS
  <2>1. transcript[m] \in EntryRecords
    BY LenProperties DEF HarnessInv, HarnessShape
  <2>2. transcript[m].calls \in Seq(Ops)
    BY <2>1 DEF EntryRecords
  <2> QED
    BY <2>2, LenProperties
<1>5. NoEcho
  <2> SUFFICES ASSUME NEW k \in 1..Len(transcript), NEW n \in 1..Len(transcript),
                      NEW i \in DOMAIN transcript[k].calls, NEW j \in transcript[n].performed,
                      transcript[k].run = runs, Later(k, i, n, j),
                      transcript[k].calls[i] = transcript[n].calls[j],
                      transcript[n].calls[j] \in Writes, StateOf(k, i) = "succeeded",
                      j \notin transcript[n].consented
               PROVE  \E m \in k..n : \E x \in DOMAIN transcript[m].calls :
                        /\ Later(k, i, m, x) /\ Later(m, x, n, j)
                        /\ StateOf(m, x) = "succeeded"
                        /\ Replaces(transcript[m].calls[x], transcript[n].calls[j])
    BY DEF NoEcho
  <2>1. i \in 1..Len(transcript[k].calls) /\ StateIn(transcript, k, i) = "succeeded"
    BY <1>2, <1>4
  <2>2. ReplacedBefore(transcript, k, i, n, j)
    BY <1>1, <2>1 DEF EchoIn
  <2>3. \A m \in k..n : m \in 1..Len(transcript)
    OBVIOUS
  <2>4. PICK m \in k..n : \E x \in 1..Len(transcript[m].calls) :
          /\ Later(k, i, m, x) /\ Later(m, x, n, j) /\ StateIn(transcript, m, x) = "succeeded"
          /\ Replaces(transcript[m].calls[x], transcript[n].calls[j])
    BY <2>2 DEF ReplacedBefore
  <2> QED
    BY <1>2, <1>4, <2>3, <2>4
<1> QED
  BY <1>3, <1>5

\* Before every new request to the model, and when a run ends with an answer or
\* at a budget, every call has its one result, in order; and the report of a run
\* that completes names exactly the failures that still stand.
THEOREM EveryCallIsAccounted == HarnessSpec => []AllAccounted
<1>1. HarnessInv => AllAccounted
  BY PairedFollows, ReportFollows DEF AllAccounted
<1> QED
  BY <1>1, HarnessStarts, HarnessKept, PTL DEF HarnessSpec

\* A write that was started is not started again, neither while its outcome is
\* unknown, in this run or a later one, nor after it has succeeded in the run,
\* unless a user agrees to it or another write has replaced its resource.
THEOREM NoWriteTwice == HarnessSpec => []WritesOnce
BY HarnessStarts, HarnessKept, WritesFollow, PTL DEF HarnessSpec

-----------------------------------------------------------------------------
(* The loop keeps its types and its bounds: the calls a run has used up are *)
(* those of the replies of its turns.                                      *)

\* Every reply was asked for by a run, asks for something, and consents are to
\* what it asks for.
AskedIn(tr) ==
    \A k \in DOMAIN tr : /\ tr[k].run >= 1 /\ tr[k].calls # <<>>
                         /\ tr[k].consented \subseteq 1..Len(tr[k].calls)

InTurn == phase \notin {"idle", "turn"}

\* A turn is counted when it begins, a turn with tools when it ends.
CountLimits ==
    /\ count.turn <= MaxTurns
    /\ count.toolTurns <= count.turn /\ (InTurn => count.toolTurns < count.turn)
    /\ count.repairs <= MaxRepairs /\ count.empties <= MaxEmpties

\* The calls used up are those of the turns that have ended and, of the reply in
\* hand, those before the next group, the group at work included.
UsedLimits ==
    /\ phase \in {"idle", "turn"} => count.used <= ReplyLength * count.turn
    /\ phase \in {"model", "reply", "answered"} => count.used <= ReplyLength * (count.turn - 1)
    /\ phase = "calls" => count.used <= ReplyLength * (count.turn - 1) + (next - 1)
    /\ phase = "tools" => \A to \in Nat : DOMAIN work = next..to =>
                            count.used <= ReplyLength * (count.turn - 1) + to

RunLimits ==
    /\ runs <= MaxRuns /\ (phase # "idle" => runs >= 1)
    /\ mishaps \in Nat /\ mishaps <= MaxMishaps
    /\ tracker.checks <= MaxChecks

HarnessFlags ==
    /\ permanent \in BOOLEAN /\ spent \in BOOLEAN
    /\ ctx \in {"live", "expired", "canceled"} /\ offer \in {"all", "reads", "none"}
    /\ outcome \in Outcomes

HarnessLimits ==
    AskedIn(transcript) /\ CountLimits /\ UsedLimits /\ RunLimits /\ HarnessFlags

\* More results for the last reply change nothing of what was asked.
LEMMA AnswersAskNothing ==
    ASSUME NEW tr \in Seq(EntryRecords), AskedIn(tr), NEW more, NEW tr2,
           tr2 = [tr EXCEPT ![Len(tr)].results = @ \o more]
    PROVE  AskedIn(tr2)
<1>1. tr \in [DOMAIN tr -> EntryRecords]
  BY LenProperties
<1>2. DOMAIN tr2 = DOMAIN tr
  OBVIOUS
<1>3. ASSUME NEW k \in DOMAIN tr
      PROVE  tr2[k].run = tr[k].run /\ tr2[k].calls = tr[k].calls /\ tr2[k].consented = tr[k].consented
  <2>1. tr[k] \in EntryRecords
    BY <1>1
  <2>2. tr2[k] = IF k = Len(tr) THEN [tr[k] EXCEPT !.results = @ \o more] ELSE tr[k]
    OBVIOUS
  <2> QED
    BY <2>1, <2>2 DEF EntryRecords
<1> QED
  BY <1>2, <1>3 DEF AskedIn

LEMMA RefusalsAskNothing ==
    ASSUME NEW tr \in Seq(EntryRecords), AskedIn(tr), NEW from, NEW to,
           NEW tr2, tr2 = Answering(tr, from, to, NotRun)
    PROVE  AskedIn(tr2)
<1>1. CASE to < from
  BY <1>1 DEF Answering
<1>2. CASE ~(to < from)
  <2>1. PICK more : more = [n \in 1..(to + 1 - from) |-> [call |-> from + n - 1, state |-> "refused"]]
    OBVIOUS
  <2>2. tr2 = [tr EXCEPT ![Len(tr)].results = @ \o more]
    BY <1>2, <2>1 DEF Answering, NotRun
  <2> QED
    BY <2>2, AnswersAskNothing
<1> QED
  BY <1>1, <1>2

LEMMA BudgetAsksNothing ==
    ASSUME NEW tr \in Seq(EntryRecords), AskedIn(tr), NEW from, BudgetExit(tr, from)
    PROVE  AskedIn(transcript')
<1>1. PICK tr2 : tr2 = transcript'
  OBVIOUS
<1>2. PICK to : tr2 = Answering(tr, from, to, NotRun)
  BY <1>1 DEF BudgetExit
<1> QED
  BY <1>1, <1>2, RefusalsAskNothing

\* A group asks for calls of the reply in hand.
LEMMA GroupIsAsked ==
    ASSUME HarnessInv, phase = "tools"
    PROVE  /\ transcript # <<>> /\ Len(transcript) \in DOMAIN transcript
           /\ transcript[Len(transcript)].calls = reply.calls
           /\ DOMAIN work \subseteq 1..Len(reply.calls)
<1>1. InHand(transcript, runs, reply.calls, next) /\ transcript \in Seq(EntryRecords)
  BY DEF HarnessInv, ReplyFits, InReply, HarnessShape
<1>2. /\ transcript # <<>> /\ transcript[Len(transcript)].calls = reply.calls
      /\ next = Len(transcript[Len(transcript)].results) + 1
  BY <1>1 DEF InHand
<1>3. Len(transcript) \in DOMAIN transcript
  BY <1>1, <1>2, EmptySeq, LenProperties
<1>4. next \in Nat /\ next >= 1
  <2>1. transcript[Len(transcript)] \in EntryRecords
    BY <1>1, <1>3, LenProperties
  <2>2. transcript[Len(transcript)].results \in Seq(ResultRecords)
    BY <2>1 DEF EntryRecords
  <2> QED
    BY <1>2, <2>2, LenProperties
<1>5. PICK to \in next..Len(reply.calls) : DOMAIN work = next..to
  BY DEF HarnessInv, GroupFits
<1>6. DOMAIN work \subseteq 1..Len(reply.calls)
  <2>1. Len(reply.calls) \in Nat
    BY LenProperties DEF HarnessInv, HarnessShape
  <2> QED
    BY <1>4, <1>5, <2>1
<1> QED
  BY <1>2, <1>3, <1>6

LEMMA NextIsAsked ==
    ASSUME HarnessInv, phase \in {"calls", "tools"}
    PROVE  next \in 1..(Len(reply.calls) + 1)
<1>1. InHand(transcript, runs, reply.calls, next) /\ transcript \in Seq(EntryRecords)
  BY DEF HarnessInv, ReplyFits, InReply, HarnessShape
<1>2. PICK t : t = transcript[Len(transcript)]
  OBVIOUS
<1>3. transcript # <<>> /\ t.calls = reply.calls /\ next = Len(t.results) + 1
  BY <1>1, <1>2 DEF InHand
<1>4. Len(transcript) \in 1..Len(transcript) /\ transcript \in [1..Len(transcript) -> EntryRecords]
  BY <1>1, <1>3, EmptySeq, LenProperties
<1>5. WellAnswered(t) /\ t \in EntryRecords
  BY <1>2, <1>4 DEF HarnessInv, Entries
<1>6. Len(t.results) \in Nat /\ Len(t.calls) \in Nat /\ Len(t.results) <= Len(t.calls)
  BY <1>5, LenProperties DEF EntryRecords, WellAnswered
<1> QED
  BY <1>3, <1>6

\* A call of the reply in hand is begun, or somebody consents to it.
LEMMA MarkAsksNothing ==
    ASSUME HarnessInv, AskedIn(transcript), phase = "tools", NEW i \in DOMAIN work, NEW tr2,
           \/ tr2 = [transcript EXCEPT ![Current].consented = @ \cup {i}]
           \/ tr2 = [transcript EXCEPT ![Current].performed = @ \cup {i}]
    PROVE  AskedIn(tr2)
<1>1. PICK tr : tr = transcript
  OBVIOUS
<1>2. /\ Len(tr) \in DOMAIN tr /\ tr[Len(tr)].calls = reply.calls /\ i \in 1..Len(reply.calls)
      /\ tr \in Seq(EntryRecords) /\ AskedIn(tr)
  BY <1>1, GroupIsAsked DEF HarnessInv, HarnessShape
<1>3. tr \in [DOMAIN tr -> EntryRecords]
  BY <1>2, LenProperties
<1>4. \/ tr2 = [tr EXCEPT ![Len(tr)].consented = @ \cup {i}]
      \/ tr2 = [tr EXCEPT ![Len(tr)].performed = @ \cup {i}]
  BY <1>1 DEF Current
<1>5. DOMAIN tr2 = DOMAIN tr
  BY <1>4
<1>6. ASSUME NEW k \in DOMAIN tr
      PROVE  /\ tr2[k].run = tr[k].run /\ tr2[k].calls = tr[k].calls
             /\ tr2[k].consented = tr[k].consented \/ (k = Len(tr) /\ tr2[k].consented = tr[k].consented \cup {i})
  <2>1. tr[k] \in EntryRecords
    BY <1>3
  <2>2. CASE tr2 = [tr EXCEPT ![Len(tr)].consented = @ \cup {i}]
    <3>1. tr2[k] = IF k = Len(tr) THEN [tr[k] EXCEPT !.consented = @ \cup {i}] ELSE tr[k]
      BY <2>2
    <3> QED
      BY <2>1, <3>1 DEF EntryRecords
  <2>3. CASE tr2 = [tr EXCEPT ![Len(tr)].performed = @ \cup {i}]
    <3>1. tr2[k] = IF k = Len(tr) THEN [tr[k] EXCEPT !.performed = @ \cup {i}] ELSE tr[k]
      BY <2>3
    <3> QED
      BY <2>1, <3>1 DEF EntryRecords
  <2> QED
    BY <1>4, <2>2, <2>3
<1> QED
  BY <1>2, <1>5, <1>6 DEF AskedIn

\* A reply that is written asks for something.
LEMMA ReplyAsks ==
    ASSUME HarnessInv, AskedIn(transcript), runs >= 1, reply.kind = "calls",
           NEW tr2, tr2 = Append(transcript, NewEntry(reply.calls))
    PROVE  tr2 \in Seq(EntryRecords) /\ AskedIn(tr2)
<1>1. PICK tr, e : tr = transcript /\ e = NewEntry(reply.calls)
  OBVIOUS
<1>2. e \in EntryRecords /\ e.calls = reply.calls /\ e.run = runs
  BY <1>1, EntryIs
<1>3. e.consented = {} /\ reply.calls # <<>> /\ tr \in Seq(EntryRecords) /\ AskedIn(tr)
  BY <1>1 DEF NewEntry, HarnessInv, HarnessShape
<1>4. /\ tr2 \in Seq(EntryRecords) /\ Len(tr2) = Len(tr) + 1 /\ Len(tr) \in Nat
      /\ tr2[Len(tr) + 1] = e /\ \A k \in 1..Len(tr) : tr2[k] = tr[k]
      /\ DOMAIN tr2 = 1..Len(tr2) /\ DOMAIN tr = 1..Len(tr)
  BY <1>1, <1>2, <1>3, AppendProperties, LenProperties
<1>5. ASSUME NEW k \in DOMAIN tr2
      PROVE  /\ tr2[k].run >= 1 /\ tr2[k].calls # <<>>
             /\ tr2[k].consented \subseteq 1..Len(tr2[k].calls)
  <2>1. k \in 1..Len(tr) \/ k = Len(tr) + 1
    BY <1>4
  <2>2. CASE k \in 1..Len(tr)
    BY <1>3, <1>4, <2>2 DEF AskedIn
  <2>3. CASE k = Len(tr) + 1
    BY <1>2, <1>3, <1>4, <2>3
  <2> QED
    BY <2>1, <2>2, <2>3
<1> QED
  BY <1>4, <1>5 DEF AskedIn

LEMMA GroupAsksNothing ==
    ASSUME HarnessInv, AskedIn(transcript), RecordGroup
    PROVE  AskedIn(transcript')
<1>1. PICK tr, tr2 : tr = transcript /\ tr2 = transcript'
  OBVIOUS
<1>2. tr \in Seq(EntryRecords) /\ AskedIn(tr) /\ phase = "tools" /\ next \in Nat
  BY <1>1 DEF HarnessInv, HarnessShape, RecordGroup
<1>3. PICK to \in Nat : next <= to /\ DOMAIN work = next..to
  <2>1. PICK to \in next..Len(reply.calls) : work \in [next..to -> WorkStates]
    BY <1>2 DEF HarnessInv, GroupFits
  <2>2. Len(reply.calls) \in Nat
    BY LenProperties DEF HarnessInv, HarnessShape
  <2> QED
    BY <1>2, <2>1, <2>2
<1>4. PICK w, from, n : GroupWritten(tr, tr2, w, from, n)
  <2>1. \E n : GroupWritten(transcript, transcript', work, next, n)
    BY <1>2, <1>3, RecordGroupIs
  <2> QED
    BY <1>1, <2>1
<1>5. CASE n < from
  BY <1>1, <1>2, <1>4, <1>5 DEF GroupWritten
<1>6. CASE ~(n < from)
  <2>1. PICK more : more = [x \in 1..(n + 1 - from) |-> [call |-> from + x - 1, state |-> w[from + x - 1]]]
    OBVIOUS
  <2>2. tr2 = [tr EXCEPT ![Len(tr)].results = @ \o more]
    BY <1>4, <1>6, <2>1 DEF GroupWritten
  <2>3. AskedIn(tr2)
    BY <1>2, <2>2, AnswersAskNothing
  <2> QED
    BY <1>1, <2>3
<1> QED
  BY <1>5, <1>6

LEMMA DoubtsAskNothing ==
    ASSUME HarnessInv, AskedIn(transcript), DoubtsRemain
    PROVE  AskedIn(transcript')
<1>1. PICK tr, tr2 : tr = transcript /\ tr2 = transcript'
  OBVIOUS
<1>2. PICK at, len : at \in [1..len -> DOMAIN tr] /\ tr2 = [m \in 1..len |-> tr[at[m]]]
  BY <1>1 DEF DoubtsRemain
<1>3. AskedIn(tr)
  BY <1>1
<1>4. AskedIn(tr2)
  BY <1>2, <1>3 DEF AskedIn
<1> QED
  BY <1>1, <1>4

\* In every step, what the replies ask for stays.
LEMMA AskedStays ==
    ASSUME HarnessInv, HarnessLimits, [HarnessNext]_harnessVars
    PROVE  AskedIn(transcript')
<1>1. /\ AskedIn(transcript) /\ transcript \in Seq(EntryRecords)
      /\ phase # "tools" => work = <<>>
      /\ phase # "idle" => runs >= 1
  BY DEF HarnessLimits, RunLimits, HarnessInv, HarnessShape
<1>2. CASE UNCHANGED transcript
  BY <1>1, <1>2
<1>3. CASE \E from : BudgetExit(transcript, from)
  BY <1>1, <1>3, BudgetAsksNothing
<1>4. CASE BeginRun
  BY <1>1, <1>4, DoubtsAskNothing DEF BeginRun
<1>5. CASE WriteReply
  <2>1. PICK entry : entry = IF reply.kind = "calls" THEN Append(transcript, NewEntry(reply.calls))
                                                     ELSE transcript
    OBVIOUS
  <2>2. transcript' = entry \/ BudgetExit(entry, 1)
    BY <1>5, <2>1 DEF WriteReply
  <2>3. entry \in Seq(EntryRecords) /\ AskedIn(entry)
    BY <1>1, <1>5, <2>1, ReplyAsks DEF WriteReply
  <2> QED
    BY <2>2, <2>3, BudgetAsksNothing
<1>6. CASE RecordGroup
  BY <1>1, <1>6, GroupAsksNothing
<1>7. ASSUME NEW i \in DOMAIN work, CallStep(i) \/ Approve(i) \/ Deny(i) PROVE AskedIn(transcript')
  <2>1. phase = "tools"
    BY <1>1, EmptySeq
  <2>2. CASE UNCHANGED transcript
    BY <1>1, <2>2
  <2>3. CASE Dispatch(i)
    <3>1. transcript' = [transcript EXCEPT ![Current].performed = @ \cup {i}]
      BY <2>3 DEF Dispatch
    <3> QED
      BY <1>1, <2>1, <3>1, MarkAsksNothing
  <2>4. CASE Approve(i)
    <3>1. UNCHANGED transcript \/ transcript' = [transcript EXCEPT ![Current].consented = @ \cup {i}]
      BY <2>4 DEF Approve
    <3> QED
      BY <1>1, <2>1, <3>1, MarkAsksNothing
  <2> QED
    BY <1>7, <2>2, <2>3, <2>4
    DEF CallStep, Refuse, CheckWrite, CheckRead, BreakCall, Return, WaitEnds, Deny
<1>8. StartTurn \/ Stream \/ StartGroup \/ Fail \/ Crash \/ (\E how \in {"expired", "canceled"} : ContextEnds(how))
        => UNCHANGED transcript
  BY DEF StartTurn, Stream, StartGroup, Fail, Crash, ContextEnds
<1>9. TurnsEnd \/ StreamStops \/ AfterReply \/ AfterCalls
        => UNCHANGED transcript \/ \E from : BudgetExit(transcript, from)
  BY DEF TurnsEnd, StreamStops, AfterReply, AfterCalls
<1>10. UNCHANGED harnessVars => UNCHANGED transcript
  BY DEF harnessVars
<1> QED
  BY <1>2, <1>3, <1>4, <1>5, <1>6, <1>7, <1>8, <1>9, <1>10 DEF HarnessNext, LoopStep

\* How a run ends, and what has not ended.
RunEnds == \E how \in Outcomes \ {"none", "running"} : End(how)

LEMMA BudgetEnds ==
    ASSUME NEW tr, NEW from, BudgetExit(tr, from)
    PROVE  RunEnds /\ UNCHANGED <<permanent, runs>> /\ (Works \/ Mishap)
<1>1. (End("budget") /\ Works) \/ (End("failed") /\ Mishap)
  BY DEF BudgetExit
<1>2. UNCHANGED <<permanent, runs>>
  BY DEF BudgetExit
<1> QED
  BY <1>1, <1>2 DEF RunEnds, Outcomes

LEMMA FailureEnds == End(Failure) => RunEnds
BY DEF RunEnds, Failure, Outcomes

\* What each step does to the counts and the phase.
Idles == UNCHANGED <<phase, count, next>> /\ DOMAIN work' = DOMAIN work

RunBegins == phase = "idle" /\ phase' = "turn" /\ UNCHANGED count

Asks ==
    /\ phase = "turn" /\ phase' = "model" /\ count.turn < MaxTurns
    /\ count' = [count EXCEPT !.turn = @ + 1]

Hears == phase = "model" /\ phase' = "reply" /\ UNCHANGED count

Judges ==
    /\ phase = "reply" /\ phase' = "answered"
    /\ \E plan, repairs :
         /\ count' = [count EXCEPT !.plan = plan, !.repairs = repairs]
         /\ repairs \in {0, count.repairs} \/ (count.repairs < MaxRepairs /\ repairs = count.repairs + 1)

TurnRetried ==
    /\ phase = "answered" /\ phase' = "turn"
    /\ \/ UNCHANGED count
       \/ count.empties < MaxEmpties /\ count' = [count EXCEPT !.empties = @ + 1]

Turns == phase = "answered" /\ phase' = "calls" /\ next' = 1 /\ UNCHANGED count

Groups ==
    /\ phase = "calls" /\ phase' = "tools" /\ next' = next
    /\ next <= AllowedNow /\ work' = [i \in next..GroupEnd |-> "new"]
    /\ count' = [count EXCEPT !.used = @ + (GroupEnd + 1 - next)]

Concludes ==
    /\ phase = "calls" /\ phase' = "turn"
    /\ count' = [count EXCEPT !.toolTurns = @ + 1]

Records ==
    /\ phase = "tools" /\ phase' = "calls" /\ UNCHANGED count
    /\ next' = next + Cardinality(DOMAIN work) - 1 + 1

LEMMA WriteReplySteps ==
    ASSUME HarnessInv, WriteReply
    PROVE  \/ RunEnds
           \/ Judges
<1> DEFINE entry == IF reply.kind = "calls" THEN Append(transcript, NewEntry(reply.calls))
                                            ELSE transcript
<1>1. PICK key \in 0..1 :
        \/ /\ count' = [count EXCEPT !.plan = IF Judge(key) = "plan" THEN key ELSE @,
                                     !.repairs = CASE Judge(key) = "repair"   -> @ + 1
                                                   [] reply.kind = "calls"  -> 0
                                                   [] OTHER                 -> @]
           /\ phase' = "answered"
        \/ BudgetExit(entry, 1)
  BY DEF WriteReply, Go
<1>2. CASE BudgetExit(entry, 1)
  BY <1>2, BudgetEnds
<1>3. CASE ~BudgetExit(entry, 1)
  <2>1. PICK plan, repairs :
          /\ plan = IF Judge(key) = "plan" THEN key ELSE count.plan
          /\ repairs = CASE Judge(key) = "repair"  -> count.repairs + 1
                         [] reply.kind = "calls" -> 0
                         [] OTHER                -> count.repairs
    OBVIOUS
  <2>2. count' = [count EXCEPT !.plan = plan, !.repairs = repairs]
    BY <1>1, <1>3, <2>1
  <2>3. Judge(key) = "repair" => Repairable
    BY DEF Judge
  <2>4. repairs \in {0, count.repairs} \/ (count.repairs < MaxRepairs /\ repairs = count.repairs + 1)
    <3>1. CASE Judge(key) = "repair"
      <4>1. Repairable
        BY <2>3, <3>1
      <4>2. count.repairs < MaxRepairs
        BY <4>1 DEF Repairable
      <4> QED
        BY <2>1, <3>1, <4>2
    <3>2. CASE Judge(key) # "repair"
      BY <2>1, <3>2
    <3> QED
      BY <3>1, <3>2
  <2>5. phase = "reply" /\ phase' = "answered"
    BY <1>1, <1>3 DEF WriteReply
  <2> QED
    BY <2>2, <2>4, <2>5 DEF Judges
<1> QED
  BY <1>2, <1>3

LEMMA AfterReplySteps ==
    ASSUME AfterReply
    PROVE  RunEnds \/ TurnRetried \/ Turns
<1>1. CASE \E from : BudgetExit(transcript, from)
  BY <1>1, BudgetEnds
<1>2. CASE End("failed") \/ End("completed")
  BY <1>2 DEF RunEnds, Outcomes
<1>3. ASSUME phase' = "turn", reply.kind = "empty" => count.empties < MaxEmpties,
             count' = IF reply.kind = "empty" THEN [count EXCEPT !.empties = @ + 1] ELSE count
      PROVE  TurnRetried
  BY <1>3 DEF TurnRetried, AfterReply
<1>4. ASSUME phase' = "calls", next' = 1, UNCHANGED count
      PROVE  Turns
  BY <1>4 DEF Turns, AfterReply
<1> QED
  BY <1>1, <1>2, <1>3, <1>4, Zenon DEF AfterReply, Go

LEMMA CallsIdle ==
    ASSUME HarnessInv, NEW i \in DOMAIN work, CallStep(i) \/ Approve(i) \/ Deny(i)
    PROVE  Idles
<1>1. PICK w : w = work
  OBVIOUS
<1>2. \E st : At(i, st) /\ StepKeeps
  BY Zenon DEF CallStep, Approve, Deny, Refuse, CheckWrite, CheckRead, Dispatch, BreakCall, Return, WaitEnds
<1>3. DOMAIN work' = DOMAIN work
  BY <1>2 DEF At
<1> QED
  BY <1>2, <1>3 DEF Idles, StepKeeps

LEMMA HarnessSteps ==
    ASSUME HarnessInv, [HarnessNext]_harnessVars
    PROVE  \/ RunEnds \/ Idles \/ RunBegins \/ Asks \/ Hears \/ Judges \/ TurnRetried \/ Turns
           \/ Groups \/ Concludes \/ Records
<1>1. ASSUME NEW from, BudgetExit(transcript, from) PROVE RunEnds
  BY <1>1, BudgetEnds
<1>2. End(Failure) \/ End("crashed") \/ End("canceled") => RunEnds
  BY FailureEnds DEF RunEnds, Outcomes
<1>3. WriteReply => RunEnds \/ Judges
  BY WriteReplySteps
<1>4. AfterReply => RunEnds \/ TurnRetried \/ Turns
  BY AfterReplySteps
<1>5. (\E i \in DOMAIN work : CallStep(i) \/ Approve(i) \/ Deny(i)) => Idles
  BY CallsIdle
<1>6. TurnsEnd \/ StreamStops \/ Fail \/ Crash => RunEnds
  BY <1>1, <1>2 DEF TurnsEnd, StreamStops, Fail, Crash
<1>7. BeginRun => RunBegins
  BY DEF BeginRun, RunBegins
<1>8. StartTurn => Asks
  BY DEF StartTurn, Asks, Go
<1>9. Stream => Hears
  BY DEF Stream, Hears, Go
<1>10. StartGroup => Groups
  BY DEF StartGroup, Groups, Go
<1>11. AfterCalls => RunEnds \/ Concludes
  BY <1>1, <1>2 DEF AfterCalls, Concludes, Go
<1>12. RecordGroup => RunEnds \/ Records
  BY <1>2 DEF RecordGroup, Records, Go
<1>13. (\E how \in {"expired", "canceled"} : ContextEnds(how)) \/ UNCHANGED harnessVars => Idles
  BY DEF ContextEnds, harnessVars, memory, Idles
<1> QED
  BY <1>3, <1>4, <1>5, <1>6, <1>7, <1>8, <1>9, <1>10, <1>11, <1>12, <1>13, Zenon
  DEF HarnessNext, LoopStep

LEMMA CountStays ==
    ASSUME HarnessInv, HarnessLimits, [HarnessNext]_harnessVars
    PROVE  CountLimits'
<1>1. PICK c, c2, most : c = count /\ c2 = count' /\ most = MaxTurns
  OBVIOUS
<1>2. /\ c \in CountRecords /\ c.turn <= most /\ c.toolTurns <= c.turn
      /\ c.repairs <= MaxRepairs /\ c.empties <= MaxEmpties
  BY <1>1 DEF HarnessLimits, CountLimits, HarnessInv, HarnessShape
<1>3. /\ c.turn \in Nat /\ c.toolTurns \in Nat /\ c.repairs \in Nat /\ c.empties \in Nat
      /\ most \in Nat /\ MaxRepairs \in Nat /\ MaxEmpties \in Nat
  BY <1>1, <1>2, LimitAssumption DEF CountRecords
<1>4. phase \notin {"idle", "turn"} => c.toolTurns < c.turn
  BY <1>1 DEF HarnessLimits, CountLimits, InTurn
<1>5. SUFFICES /\ c2.turn <= most /\ c2.toolTurns <= c2.turn
               /\ phase' \notin {"idle", "turn"} => c2.toolTurns < c2.turn
               /\ c2.repairs <= MaxRepairs /\ c2.empties <= MaxEmpties
  BY <1>1 DEF CountLimits, InTurn
<1>6. CASE RunEnds
  <2>1. c2 = NewCount /\ phase' = "idle"
    BY <1>1, <1>6 DEF RunEnds, End
  <2> QED
    BY <1>3, <2>1 DEF NewCount
<1>7. CASE Idles \/ RunBegins \/ Hears \/ Turns \/ Records
  <2>1. c2 = c /\ (phase' \notin {"idle", "turn"} => phase \notin {"idle", "turn"})
    BY <1>1, <1>7 DEF Idles, RunBegins, Hears, Turns, Records
  <2> QED
    BY <1>2, <1>4, <2>1
<1>8. CASE Asks
  <2>1. c2 = [c EXCEPT !.turn = @ + 1] /\ c.turn < most
    BY <1>1, <1>8 DEF Asks
  <2>2. /\ c2.turn = c.turn + 1 /\ c2.toolTurns = c.toolTurns
        /\ c2.repairs = c.repairs /\ c2.empties = c.empties
    BY <1>2, <2>1 DEF CountRecords
  <2> QED
    BY <1>2, <1>3, <2>1, <2>2
<1>9. CASE Judges
  <2>1. PICK plan, repairs :
          /\ c2 = [c EXCEPT !.plan = plan, !.repairs = repairs]
          /\ repairs \in {0, c.repairs} \/ (c.repairs < MaxRepairs /\ repairs = c.repairs + 1)
    BY <1>1, <1>9 DEF Judges
  <2>2. /\ c2.turn = c.turn /\ c2.toolTurns = c.toolTurns
        /\ c2.repairs = repairs /\ c2.empties = c.empties
    BY <1>2, <2>1 DEF CountRecords
  <2>3. repairs <= MaxRepairs
    BY <1>2, <1>3, <2>1
  <2>4. phase \notin {"idle", "turn"}
    BY <1>9 DEF Judges
  <2> QED
    BY <1>2, <1>4, <2>2, <2>3, <2>4
<1>10. CASE TurnRetried
  <2>1. c2 = c \/ (c.empties < MaxEmpties /\ c2 = [c EXCEPT !.empties = @ + 1])
    BY <1>1, <1>10 DEF TurnRetried
  <2>2. /\ c2.turn = c.turn /\ c2.toolTurns = c.toolTurns /\ c2.repairs = c.repairs
        /\ c2.empties = c.empties \/ (c.empties < MaxEmpties /\ c2.empties = c.empties + 1)
    BY <1>2, <2>1 DEF CountRecords
  <2>3. phase' = "turn"
    BY <1>10 DEF TurnRetried
  <2> QED
    BY <1>2, <1>3, <2>2, <2>3
<1>11. CASE Groups
  <2>1. PICK n : c2 = [c EXCEPT !.used = n]
    BY <1>1, <1>11 DEF Groups
  <2>2. /\ c2.turn = c.turn /\ c2.toolTurns = c.toolTurns
        /\ c2.repairs = c.repairs /\ c2.empties = c.empties
    BY <1>2, <2>1 DEF CountRecords
  <2>3. phase \notin {"idle", "turn"}
    BY <1>11 DEF Groups
  <2> QED
    BY <1>2, <1>4, <2>2, <2>3
<1>12. CASE Concludes
  <2>1. c2 = [c EXCEPT !.toolTurns = @ + 1] /\ phase \notin {"idle", "turn"} /\ phase' = "turn"
    BY <1>1, <1>12 DEF Concludes
  <2>2. /\ c2.turn = c.turn /\ c2.toolTurns = c.toolTurns + 1
        /\ c2.repairs = c.repairs /\ c2.empties = c.empties
    BY <1>2, <2>1 DEF CountRecords
  <2>3. c.toolTurns < c.turn
    BY <1>4, <2>1
  <2> QED
    BY <1>2, <1>3, <2>1, <2>2, <2>3
<1> QED
  BY <1>6, <1>7, <1>8, <1>9, <1>10, <1>11, <1>12, HarnessSteps

LEMMA OneTurnMore == ASSUME NEW n \in Nat, NEW t \in Nat PROVE n * (t + 1) = n * t + n
OBVIOUS

\* The calls used up in a reply are no more than a reply has.
LEMMA UsedStays ==
    ASSUME HarnessInv, HarnessLimits, [HarnessNext]_harnessVars
    PROVE  UsedLimits'
<1>1. PICK c, c2, len, before : /\ c = count /\ c2 = count' /\ len = ReplyLength
                                /\ before = len * (c.turn - 1)
  OBVIOUS
<1>2. /\ c \in CountRecords /\ c.turn \in Nat /\ c.used \in Nat /\ len \in Nat /\ next \in Nat
  BY <1>1, LimitAssumption DEF HarnessInv, HarnessShape, CountRecords
<1>3. phase \in {"idle", "turn"} => c.used <= len * c.turn
  BY <1>1 DEF HarnessLimits, UsedLimits
<1>4. /\ phase \in {"model", "reply", "answered"} => c.used <= before
      /\ phase = "calls" => c.used <= before + (next - 1)
      /\ phase = "tools" => \A to \in Nat : DOMAIN work = next..to => c.used <= before + to
  BY <1>1 DEF HarnessLimits, UsedLimits
<1>5. ASSUME phase \notin {"idle", "turn"}
      PROVE  c.turn - 1 \in Nat /\ before \in Nat /\ len * c.turn = before + len
  <2>1. PICK t : t = c.turn - 1
    OBVIOUS
  <2>2. c.toolTurns \in Nat /\ c.toolTurns < c.turn
    BY <1>1, <1>5 DEF HarnessLimits, CountLimits, InTurn, HarnessInv, HarnessShape, CountRecords
  <2>3. t \in Nat /\ c.turn = t + 1
    BY <1>2, <2>1, <2>2
  <2>4. before = len * t /\ len * c.turn = len * t + len
    BY <1>1, <1>2, <2>1, <2>3, OneTurnMore
  <2>5. len * t \in Nat
    BY <1>2, <2>3
  <2> QED
    BY <2>1, <2>3, <2>4, <2>5
<1>6. ASSUME phase \in {"model", "reply", "answered"} PROVE c.used <= len * c.turn
  BY <1>2, <1>4, <1>5, <1>6
<1>7. SUFFICES /\ phase' \in {"idle", "turn"} => c2.used <= len * c2.turn
               /\ phase' \in {"model", "reply", "answered"} => c2.used <= len * (c2.turn - 1)
               /\ phase' = "calls" => c2.used <= len * (c2.turn - 1) + (next' - 1)
               /\ phase' = "tools" => \A to \in Nat : DOMAIN work' = next'..to =>
                                         c2.used <= len * (c2.turn - 1) + to
  BY <1>1 DEF UsedLimits
<1>8. CASE RunEnds
  <2>1. c2 = NewCount /\ phase' = "idle"
    BY <1>1, <1>8 DEF RunEnds, End
  <2> QED
    BY <1>2, <2>1 DEF NewCount
<1>9. CASE Idles
  <2>1. c2 = c /\ phase' = phase /\ next' = next /\ DOMAIN work' = DOMAIN work
    BY <1>1, <1>9 DEF Idles
  <2> QED
    BY <1>1, <1>3, <1>4, <2>1
<1>10. CASE RunBegins
  BY <1>1, <1>3, <1>10 DEF RunBegins
<1>11. CASE Asks
  <2>1. c2 = [c EXCEPT !.turn = @ + 1] /\ phase = "turn" /\ phase' = "model"
    BY <1>1, <1>11 DEF Asks
  <2>2. c2.turn = c.turn + 1 /\ c2.used = c.used
    BY <1>2, <2>1 DEF CountRecords
  <2>3. c2.turn - 1 = c.turn
    BY <1>2, <2>2
  <2> QED
    BY <1>3, <2>1, <2>2, <2>3
<1>12. CASE Hears \/ Judges
  <2>1. c2 = c \/ \E plan, repairs : c2 = [c EXCEPT !.plan = plan, !.repairs = repairs]
    BY <1>1, <1>12 DEF Hears, Judges
  <2>2. c2.turn = c.turn /\ c2.used = c.used
    BY <1>2, <2>1 DEF CountRecords
  <2>3. phase \in {"model", "reply"} /\ phase' \in {"reply", "answered"}
    BY <1>12 DEF Hears, Judges
  <2> QED
    BY <1>1, <1>4, <2>2, <2>3
<1>13. CASE TurnRetried
  <2>1. c2 = c \/ c2 = [c EXCEPT !.empties = @ + 1]
    BY <1>1, <1>13 DEF TurnRetried
  <2>2. c2.turn = c.turn /\ c2.used = c.used
    BY <1>2, <2>1 DEF CountRecords
  <2>3. phase = "answered" /\ phase' = "turn"
    BY <1>13 DEF TurnRetried
  <2> QED
    BY <1>6, <2>2, <2>3
<1>14. CASE Turns
  <2>1. c2 = c /\ phase = "answered" /\ phase' = "calls" /\ next' = 1
    BY <1>1, <1>14 DEF Turns
  <2>2. c.used <= before /\ before \in Nat
    BY <1>4, <1>5, <2>1
  <2> QED
    BY <1>1, <1>2, <2>1, <2>2
<1>15. CASE Groups
  <2>1. PICK last, n : last = GroupEnd /\ n = c.used + (last + 1 - next)
    OBVIOUS
  <2>2. /\ phase = "calls" /\ phase' = "tools" /\ next' = next /\ next <= AllowedNow
        /\ work' = [i \in next..last |-> "new"] /\ c2 = [c EXCEPT !.used = n]
    BY <1>1, <1>15, <2>1 DEF Groups
  <2>3. last \in next..Len(reply.calls) /\ Len(reply.calls) \in Nat
    BY <2>1, <2>2, GroupEndIs, LenProperties DEF HarnessInv, HarnessShape
  <2>4. c2.turn = c.turn /\ c2.used = n
    BY <1>2, <2>2 DEF CountRecords
  <2>5. c.used <= before + (next - 1) /\ before \in Nat
    BY <1>4, <1>5, <2>2
  <2>6. ASSUME NEW to \in Nat, DOMAIN work' = next'..to PROVE c2.used <= before + to
    <3>1. next..last = next..to
      BY <2>2, <2>6
    <3>2. last = to
      BY <1>2, <2>3, <3>1
    <3> QED
      BY <1>2, <2>1, <2>3, <2>4, <2>5, <3>2
  <2> QED
    BY <1>1, <2>2, <2>4, <2>6
<1>16. CASE Concludes
  <2>1. c2 = [c EXCEPT !.toolTurns = @ + 1] /\ phase = "calls" /\ phase' = "turn"
    BY <1>1, <1>16 DEF Concludes
  <2>2. c2.turn = c.turn /\ c2.used = c.used
    BY <1>2, <2>1 DEF CountRecords
  <2>3. c.used <= before + (next - 1) /\ before \in Nat /\ len * c.turn = before + len
    BY <1>4, <1>5, <2>1
  <2>4. next - 1 <= len
    <3>1. next \in 1..(Len(reply.calls) + 1) /\ Len(reply.calls) <= len /\ Len(reply.calls) \in Nat
      BY <1>1, <2>1, NextIsAsked, LenProperties DEF HarnessInv, HarnessShape
    <3> QED
      BY <1>2, <3>1
  <2> QED
    BY <1>2, <2>1, <2>2, <2>3, <2>4
<1>17. CASE Records
  <2>1. c2 = c /\ phase = "tools" /\ phase' = "calls"
    BY <1>1, <1>17 DEF Records
  <2>2. PICK to \in Nat : next <= to /\ DOMAIN work = next..to
    <3>1. PICK to \in next..Len(reply.calls) : work \in [next..to -> WorkStates]
      BY <2>1 DEF HarnessInv, GroupFits
    <3>2. Len(reply.calls) \in Nat
      BY LenProperties DEF HarnessInv, HarnessShape
    <3> QED
      BY <1>2, <3>1, <3>2
  <2>3. next + Cardinality(DOMAIN work) - 1 = to
    BY <1>2, <2>2, LastIs
  <2>4. next' - 1 = to
    BY <1>17, <2>2, <2>3 DEF Records
  <2> QED
    BY <1>1, <1>4, <2>1, <2>2, <2>4
<1> QED
  BY <1>8, <1>9, <1>10, <1>11, <1>12, <1>13, <1>14, <1>15, <1>16, <1>17, HarnessSteps

\* The results of a group are no challenge.
LEMMA GroupCountsNoCheck ==
    ASSUME HarnessInv, RecordGroup
    PROVE  tracker'.checks = tracker.checks
<1>1. PICK w, from, last, t0 : w = work /\ from = next /\ last = Current /\ t0 = tracker
  OBVIOUS
<1>2. /\ phase = "tools" /\ (\A i \in DOMAIN w : Settled(w[i])) /\ t0 \in TrackerRecords
      /\ from \in Nat /\ transcript \in Seq(EntryRecords)
  BY <1>1 DEF RecordGroup, HarnessInv, HarnessShape
<1>3. from >= 1 /\ Len(reply.calls) \in Nat
  BY <1>1, <1>2, NextIsAsked, LenProperties DEF HarnessInv, HarnessShape
<1>4. PICK to \in from..Len(reply.calls) : w \in [from..to -> WorkStates]
  BY <1>1, <1>2 DEF HarnessInv, GroupFits
<1>5. to \in Nat /\ from <= to /\ DOMAIN w = from..to
  BY <1>2, <1>3, <1>4
<1>6. CASE UNCHANGED tracker
  BY <1>6
<1>7. CASE /\ \A i \in from..to : w[i] # "broken"
           /\ tracker' = (CHOOSE seen :
                            seen = [i \in (from - 1)..to |->
                                      IF i < from THEN t0
                                      ELSE Tracked(seen[i - 1], Current, i, w[i])])[to]
  <2>1. w \in [from..to -> Results]
    BY <1>2, <1>4, <1>5, <1>7 DEF Settled
  <2>2. \A i \in from..to : reply.calls[i] \in Ops
    BY <1>1, <1>2, <1>5, CallIsOp
  <2>3. last \in Nat
    BY <1>1, <1>2, LenProperties DEF Current
  <2>4. \E seen : SeenIs(seen, w, from, to, last, t0)
    BY <1>2, <1>3, <1>5, <2>1, <2>2, <2>3, SeenExists DEF SeenFrom
  <2>5. PICK seen : seen = CHOOSE q : SeenIs(q, w, from, to, last, t0)
    OBVIOUS
  <2>6. SeenIs(seen, w, from, to, last, t0)
    BY <2>4, <2>5
  <2>7. tracker' = seen[to]
    BY <1>1, <1>7, <2>5 DEF SeenIs
  <2>8. PICK a : a = from - 1
    OBVIOUS
  <2>9. a \in Nat /\ a <= to /\ from = a + 1 /\ a \in a..to /\ to \in a..to
    BY <1>2, <1>3, <1>5, <2>8
  <2> DEFINE S == {n \in a..to : seen[n].checks = t0.checks}
  <2>10. a \in S
    BY <2>6, <2>8, <2>9 DEF SeenIs
  <2>11. ASSUME NEW n \in a..to, n \in S, n < to PROVE n + 1 \in S
    <3>1. n + 1 \in a..to /\ ~(n + 1 < from) /\ (n + 1) - 1 = n
      BY <2>9, <2>11
    <3>2. seen[n + 1] = Tracked(seen[n], last, n + 1, w[n + 1])
      BY <2>6, <2>8, <3>1 DEF SeenIs
    <3>3. seen[n + 1].checks = seen[n].checks
      BY <3>2 DEF Tracked
    <3> QED
      BY <2>11, <3>1, <3>3
  <2>12. \A n \in a..to : n \in S
    <3> HIDE DEF S
    <3> QED
      BY <1>5, <2>9, <2>10, <2>11, Climbing
  <2> QED
    BY <1>1, <2>7, <2>9, <2>12
<1> QED
  BY <1>1, <1>2, <1>5, <1>6, <1>7, RecordGroupIs

\* The runs, the mishaps and the checks are counted against their bounds.
LEMMA RunStays ==
    ASSUME HarnessInv, HarnessLimits, [HarnessNext]_harnessVars
    PROVE  RunLimits'
<1>1. /\ runs <= MaxRuns /\ (phase # "idle" => runs >= 1) /\ runs \in Nat
      /\ mishaps \in Nat /\ mishaps <= MaxMishaps
      /\ tracker.checks <= MaxChecks /\ tracker \in TrackerRecords
  BY DEF HarnessLimits, RunLimits, HarnessInv, HarnessShape
<1>2. /\ MaxRuns \in Nat /\ MaxMishaps \in Nat /\ MaxChecks \in Nat
  BY LimitAssumption
<1>3. mishaps' \in Nat /\ mishaps' <= MaxMishaps
  <2>1. Mishap \/ UNCHANGED mishaps
    <3>1. (\E from : BudgetExit(transcript, from)) => Works \/ Mishap
      BY BudgetEnds
    <3>2. WriteReply => Works \/ Mishap
      <4>1. WriteReply => UNCHANGED mishaps \/ \E entry : BudgetExit(entry, 1)
        BY Zenon DEF WriteReply
      <4> QED
        BY <4>1, BudgetEnds DEF Works
    <3>3. (\E i \in DOMAIN work : CallStep(i) \/ Approve(i) \/ Deny(i)) => Works \/ Mishap
      BY Zenon DEF CallStep, Approve, Deny, Refuse, CheckWrite, CheckRead, Dispatch, BreakCall, Return,
                   WaitEnds, Works
    <3>4. RecordGroup => Works \/ Mishap
      BY DEF RecordGroup, Works
    <3>5. AfterReply \/ AfterCalls \/ TurnsEnd \/ StreamStops => Works \/ Mishap
      BY <3>1, Zenon DEF AfterReply, AfterCalls, TurnsEnd, StreamStops, Works
    <3>6. BeginRun \/ StartTurn \/ Stream \/ StartGroup \/ Fail \/ Crash => Works \/ Mishap
      BY Zenon DEF BeginRun, StartTurn, Stream, StartGroup, Fail, Crash, Works
    <3>7. (\E how \in {"expired", "canceled"} : ContextEnds(how)) \/ UNCHANGED harnessVars => Works
      BY DEF ContextEnds, harnessVars, Works
    <3> QED
      BY <3>2, <3>3, <3>4, <3>5, <3>6, <3>7, Zenon DEF HarnessNext, LoopStep, Works
  <2> QED
    BY <1>1, <1>2, <2>1 DEF Mishap
<1>4. CASE BeginRun
  <2>1. runs < MaxRuns /\ runs' = runs + 1 /\ tracker' = NewTracker
    BY <1>4 DEF BeginRun
  <2>2. tracker'.checks = 0
    BY <2>1 DEF NewTracker
  <2> QED
    BY <1>1, <1>2, <1>3, <2>1, <2>2 DEF RunLimits
<1>5. ASSUME ~BeginRun PROVE runs' = runs /\ (phase' # "idle" => phase # "idle")
  <2>1. UNCHANGED runs
    <3>1. (\E tr, from : BudgetExit(tr, from)) => UNCHANGED runs
      BY BudgetEnds
    <3>2. (\E i \in DOMAIN work : CallStep(i) \/ Approve(i) \/ Deny(i)) => UNCHANGED runs
      BY Zenon DEF CallStep, Approve, Deny, Refuse, CheckWrite, CheckRead, Dispatch, BreakCall, Return,
                   WaitEnds, StepKeeps
    <3>3. WriteReply \/ AfterReply \/ AfterCalls \/ TurnsEnd \/ StreamStops => UNCHANGED runs
      BY <3>1, Zenon DEF WriteReply, AfterReply, AfterCalls, TurnsEnd, StreamStops
    <3>4. StartTurn \/ Stream \/ StartGroup \/ RecordGroup \/ Fail \/ Crash => UNCHANGED runs
      BY Zenon DEF StartTurn, Stream, StartGroup, RecordGroup, Fail, Crash
    <3>5. (\E how \in {"expired", "canceled"} : ContextEnds(how)) \/ UNCHANGED harnessVars => UNCHANGED runs
      BY DEF ContextEnds, harnessVars
    <3> QED
      BY <1>5, <3>2, <3>3, <3>4, <3>5, Zenon DEF HarnessNext, LoopStep
  <2>2. phase' = "idle" \/ phase # "idle" \/ phase' = phase
    <3>1. RunBegins => FALSE
      <4>1. (\E i \in DOMAIN work : CallStep(i) \/ Approve(i) \/ Deny(i)) => UNCHANGED phase
        BY Zenon DEF CallStep, Approve, Deny, Refuse, CheckWrite, CheckRead, Dispatch, BreakCall, Return,
                     WaitEnds, StepKeeps
      <4>2. LoopStep => phase # "idle" \/ \E i \in DOMAIN work : CallStep(i)
        BY DEF LoopStep, StartTurn, TurnsEnd, Stream, StreamStops, WriteReply, AfterReply, StartGroup,
               AfterCalls, RecordGroup, Fail
      <4>3. UNCHANGED harnessVars => UNCHANGED phase
        BY DEF harnessVars, memory
      <4> QED
        BY <1>5, <4>1, <4>2, <4>3 DEF HarnessNext, RunBegins, Crash, ContextEnds
    <3> QED
      BY <3>1, HarnessSteps DEF RunEnds, End, Idles, Asks, Hears, Judges, TurnRetried, Turns, Groups,
                                Concludes, Records
  <2> QED
    BY <2>1, <2>2
<1>6. ASSUME ~BeginRun PROVE tracker'.checks <= MaxChecks
  <2>1. CASE UNCHANGED tracker
    BY <1>1, <2>1
  <2>2. CASE WriteReply
    <3>1. PICK key : tracker' = IF Judge(key) = "check" THEN [tracker EXCEPT !.checks = @ + 1] ELSE tracker
      BY <2>2 DEF WriteReply
    <3>2. CASE Judge(key) = "check"
      <4>1. tracker.checks < MaxChecks
        BY <3>2 DEF Judge, Challenges
      <4>2. tracker'.checks = tracker.checks + 1 /\ tracker.checks \in Nat
        BY <1>1, <3>1, <3>2 DEF TrackerRecords
      <4> QED
        BY <1>2, <4>1, <4>2
    <3> QED
      BY <1>1, <3>1, <3>2
  <2>3. CASE RecordGroup
    BY <1>1, <2>3, GroupCountsNoCheck
  <2>4. (\E i \in DOMAIN work : CallStep(i) \/ Approve(i) \/ Deny(i)) => UNCHANGED tracker
    BY Zenon DEF CallStep, Approve, Deny, Refuse, CheckWrite, CheckRead, Dispatch, BreakCall, Return,
                 WaitEnds, StepKeeps
  <2>5. StartTurn \/ TurnsEnd \/ Stream \/ StreamStops \/ AfterReply \/ StartGroup \/ AfterCalls
          \/ Fail \/ Crash => UNCHANGED tracker
    BY Zenon DEF StartTurn, TurnsEnd, Stream, StreamStops, AfterReply, StartGroup, AfterCalls, Fail, Crash
  <2>6. (\E how \in {"expired", "canceled"} : ContextEnds(how)) \/ UNCHANGED harnessVars => UNCHANGED tracker
    BY DEF ContextEnds, harnessVars, memory
  <2> QED
    BY <1>6, <2>1, <2>2, <2>3, <2>4, <2>5, <2>6, Zenon DEF HarnessNext, LoopStep
<1> QED
  BY <1>1, <1>3, <1>4, <1>5, <1>6 DEF RunLimits

LEMMA FlagsStay ==
    ASSUME HarnessInv, HarnessLimits, [HarnessNext]_harnessVars
    PROVE  HarnessFlags'
<1>1. HarnessFlags
  BY DEF HarnessLimits
<1>2. RunEnds => ctx' = "live" /\ spent' = FALSE /\ offer' = "all" /\ outcome' \in Outcomes
  BY DEF RunEnds, End
<1>3. (\E tr, from : BudgetExit(tr, from)) => RunEnds /\ UNCHANGED permanent
  BY BudgetEnds
<1>4. End("canceled") \/ End("failed") \/ End("completed") \/ End("crashed") \/ End(Failure) => RunEnds
  BY FailureEnds DEF RunEnds, Outcomes
<1>5. permanent' = permanent \/ permanent' = TRUE
  <2>1. (\E i \in DOMAIN work : CallStep(i) \/ Approve(i) \/ Deny(i))
          => permanent' = permanent \/ permanent' = TRUE
    BY Zenon DEF CallStep, Approve, Deny, Refuse, CheckWrite, CheckRead, Dispatch, BreakCall, Return,
                 WaitEnds
  <2>2. WriteReply \/ AfterReply \/ AfterCalls \/ TurnsEnd \/ StreamStops => UNCHANGED permanent
    BY <1>3, Zenon DEF WriteReply, AfterReply, AfterCalls, TurnsEnd, StreamStops
  <2>3. BeginRun \/ StartTurn \/ Stream \/ StartGroup \/ RecordGroup \/ Fail \/ Crash => UNCHANGED permanent
    BY Zenon DEF BeginRun, StartTurn, Stream, StartGroup, RecordGroup, Fail, Crash
  <2>4. (\E how \in {"expired", "canceled"} : ContextEnds(how)) \/ UNCHANGED harnessVars => UNCHANGED permanent
    BY DEF ContextEnds, harnessVars
  <2> QED
    BY <2>1, <2>2, <2>3, <2>4, Zenon DEF HarnessNext, LoopStep
<1>6. permanent' \in BOOLEAN
  BY <1>1, <1>5, Zenon DEF HarnessFlags
<1>7. CASE RunEnds
  BY <1>2, <1>6, <1>7, Zenon DEF HarnessFlags
<1>8. CASE UNCHANGED <<ctx, spent, offer, outcome>>
  BY <1>1, <1>6, <1>8, Zenon DEF HarnessFlags
<1>9. CASE BeginRun
  <2>1. outcome' \in Outcomes
    BY <1>9 DEF BeginRun, Outcomes
  <2>2. UNCHANGED <<ctx, spent, offer>>
    BY <1>9 DEF BeginRun
  <2> QED
    BY <1>1, <1>6, <2>1, <2>2, Zenon DEF HarnessFlags
<1>10. CASE StartTurn
  <2>1. offer' \in {"all", "reads", "none"}
    BY <1>10, Zenon DEF StartTurn
  <2>2. UNCHANGED <<ctx, spent, outcome>>
    BY <1>10, Zenon DEF StartTurn, Go
  <2> QED
    BY <1>1, <1>6, <2>1, <2>2, Zenon DEF HarnessFlags
<1>11. CASE Stream
  <2>1. spent' \in BOOLEAN
    BY <1>11, Zenon DEF Stream
  <2>2. UNCHANGED <<ctx, offer, outcome>>
    BY <1>11, Zenon DEF Stream, Go
  <2> QED
    BY <1>1, <1>6, <2>1, <2>2, Zenon DEF HarnessFlags
<1>12. CASE \E how \in {"expired", "canceled"} : ContextEnds(how)
  <2>1. ctx' \in {"live", "expired", "canceled"}
    BY <1>12 DEF ContextEnds
  <2>2. UNCHANGED <<spent, offer, outcome>>
    BY <1>12, Zenon DEF ContextEnds
  <2> QED
    BY <1>1, <1>6, <2>1, <2>2, Zenon DEF HarnessFlags
<1>13. (\E i \in DOMAIN work : CallStep(i) \/ Approve(i) \/ Deny(i)) => UNCHANGED <<ctx, spent, offer, outcome>>
  BY Zenon DEF CallStep, Approve, Deny, Refuse, CheckWrite, CheckRead, Dispatch, BreakCall, Return,
               WaitEnds, StepKeeps
<1>14. WriteReply => RunEnds \/ UNCHANGED <<ctx, spent, offer, outcome>>
  BY <1>3, Zenon DEF WriteReply, Go
<1>15. AfterReply => RunEnds \/ UNCHANGED <<ctx, spent, offer, outcome>>
  BY <1>3, <1>4, Zenon DEF AfterReply, Go
<1>16. AfterCalls \/ TurnsEnd \/ StreamStops => RunEnds \/ UNCHANGED <<ctx, spent, offer, outcome>>
  BY <1>3, <1>4, Zenon DEF AfterCalls, TurnsEnd, StreamStops, Go
<1>17. StartGroup \/ RecordGroup => RunEnds \/ UNCHANGED <<ctx, spent, offer, outcome>>
  BY <1>4 DEF StartGroup, RecordGroup, Go
<1>18. Fail \/ Crash => RunEnds
  BY <1>4 DEF Fail, Crash
<1>19. UNCHANGED harnessVars => UNCHANGED <<ctx, spent, offer, outcome>>
  BY DEF harnessVars, memory
<1> QED
  BY <1>7, <1>8, <1>9, <1>10, <1>11, <1>12, <1>13, <1>14, <1>15, <1>16, <1>17, <1>18, <1>19, Zenon
  DEF HarnessNext, LoopStep

LEMMA HarnessTypesStart == HarnessInit => HarnessLimits
<1> SUFFICES ASSUME HarnessInit PROVE HarnessLimits
  OBVIOUS
<1>1. AskedIn(transcript)
  BY DEF HarnessInit, AskedIn
<1>2. CountLimits
  BY LimitAssumption DEF HarnessInit, CountLimits, InTurn, NewCount
<1>3. UsedLimits
  <2>1. phase = "idle" /\ count.used = 0 /\ count.turn = 0
    BY DEF HarnessInit, NewCount
  <2> QED
    BY <2>1, LimitAssumption DEF UsedLimits
<1>4. RunLimits
  BY LimitAssumption DEF HarnessInit, RunLimits, NewTracker
<1>5. HarnessFlags
  BY Zenon DEF HarnessInit, HarnessFlags, Outcomes
<1> QED
  BY <1>1, <1>2, <1>3, <1>4, <1>5 DEF HarnessLimits

LEMMA HarnessTypesKept ==
    ASSUME HarnessInv, HarnessLimits, [HarnessNext]_harnessVars
    PROVE  HarnessLimits'
<1>1. CountLimits' /\ UsedLimits' /\ RunLimits' /\ HarnessFlags'
  BY CountStays, UsedStays, RunStays, FlagsStay
<1>2. AskedIn(transcript)'
  <2>1. AskedIn(transcript')
    BY AskedStays
  <2> QED
    BY <2>1 DEF AskedIn
<1> QED
  BY <1>1, <1>2 DEF HarnessLimits

\* What a reply of the transcript is, from what it says of its calls.
LEMMA EntryTyped ==
    ASSUME HarnessInv, HarnessLimits, NEW k \in 1..Len(transcript)
    PROVE  /\ transcript[k].run \in 1..runs
           /\ transcript[k].calls \in Seq(Ops) \ {<<>>}
           /\ transcript[k].results \in Seq([call : DOMAIN transcript[k].calls, state : Results])
           /\ transcript[k].consented \cup transcript[k].performed \subseteq DOMAIN transcript[k].calls
<1>1. PICK t : t = transcript[k]
  OBVIOUS
<1>2. transcript \in Seq(EntryRecords) /\ runs \in Nat
  BY DEF HarnessInv, HarnessShape
<1>3. t \in EntryRecords /\ k \in DOMAIN transcript
  BY <1>1, <1>2, LenProperties
<1>4. /\ t.run \in Nat /\ t.calls \in Seq(Ops) /\ t.results \in Seq(ResultRecords)
  BY <1>3 DEF EntryRecords
<1>5. WellAnswered(t) /\ t.run <= runs
  BY <1>1 DEF HarnessInv, Entries
<1>6. t.run >= 1 /\ t.calls # <<>> /\ t.consented \subseteq 1..Len(t.calls)
  BY <1>1, <1>3 DEF HarnessLimits, AskedIn
<1>7. /\ Len(t.calls) \in Nat /\ Len(t.results) \in Nat /\ DOMAIN t.calls = 1..Len(t.calls)
      /\ t.results \in [1..Len(t.results) -> ResultRecords]
  BY <1>4, LenProperties
<1>8. t.results \in Seq([call : DOMAIN t.calls, state : Results])
  <2>1. PICK R, s : R = [call : DOMAIN t.calls, state : Results] /\ s = t.results
    OBVIOUS
  <2>2. ASSUME NEW n \in 1..Len(s) PROVE s[n] \in R
    <3>1. s[n] \in ResultRecords /\ s[n].call = n /\ n \in 1..Len(t.calls)
      BY <1>5, <1>7, <2>1 DEF WellAnswered
    <3> QED
      BY <1>7, <2>1, <3>1 DEF ResultRecords
  <2>3. s \in [1..Len(s) -> R]
    BY <1>7, <2>1, <2>2
  <2> QED
    BY <1>7, <2>1, <2>3, FunctionIsSeq
<1>9. t.performed \subseteq 1..Len(t.calls)
  BY <1>5 DEF WellAnswered
<1> QED
  BY <1>1, <1>2, <1>4, <1>5, <1>6, <1>7, <1>8, <1>9

LEMMA HarnessTyped ==
    ASSUME HarnessInv, HarnessLimits
    PROVE  HarnessTypeOK
<1>1. HarnessFlags
  BY DEF HarnessLimits
<1>2. HarnessShape
  BY DEF HarnessInv
<1>3. runs \in 0..MaxRuns /\ mishaps \in 0..MaxMishaps
  BY LimitAssumption DEF HarnessInv, HarnessShape, HarnessLimits, RunLimits
<1>4. /\ count.turn \in 0..MaxTurns /\ count.toolTurns \in 0..MaxTurns
      /\ count.repairs \in 0..(MaxRepairs + 1) /\ count.empties \in 0..MaxEmpties
  <2>1. PICK c : c = count
    OBVIOUS
  <2>2. c.turn \in Nat /\ c.toolTurns \in Nat /\ c.repairs \in Nat /\ c.empties \in Nat
    BY <1>2, <2>1 DEF HarnessShape, CountRecords
  <2>3. c.turn <= MaxTurns /\ c.toolTurns <= c.turn /\ c.repairs <= MaxRepairs /\ c.empties <= MaxEmpties
    BY <2>1 DEF HarnessLimits, CountLimits
  <2>4. MaxTurns \in Nat /\ MaxRepairs \in Nat /\ MaxEmpties \in Nat
    BY LimitAssumption
  <2> QED
    BY <2>1, <2>2, <2>3, <2>4
<1>5. count.used \in 0..(ReplyLength * MaxTurns)
  <2>1. PICK c, len, most : c = count /\ len = ReplyLength /\ most = MaxTurns
    OBVIOUS
  <2>2. /\ c.turn \in Nat /\ c.used \in Nat /\ len \in Nat /\ most \in Nat /\ c.turn <= most
    BY <1>2, <2>1, LimitAssumption DEF HarnessShape, CountRecords, HarnessLimits, CountLimits
  <2>3. ASSUME NEW n \in Nat, n <= most PROVE len * n <= len * most
    <3>1. PICK d \in Nat : most = n + d
      <4>1. most - n \in Nat /\ most = n + (most - n)
        BY <2>2, <2>3
      <4> QED
        BY <4>1
    <3>2. len * most = len * n + len * d /\ len * d \in Nat /\ len * n \in Nat
      BY <2>2, <3>1
    <3> QED
      BY <3>2
  <2>4. len * c.turn <= len * most /\ len * c.turn \in Nat /\ len * most \in Nat
    BY <2>2, <2>3
  <2>5. c.used <= len * c.turn
    <3>1. CASE phase \in {"idle", "turn"}
      BY <2>1, <3>1 DEF HarnessLimits, UsedLimits
    <3>2. CASE phase \notin {"idle", "turn"}
      <4>0. PICK t : t = c.turn - 1
        OBVIOUS
      <4>1. PICK before : before = len * t /\ before = len * (c.turn - 1)
        BY <4>0
      <4>2. t \in Nat /\ c.turn = t + 1
        <5>1. c.toolTurns \in Nat /\ c.toolTurns < c.turn
          BY <1>2, <2>1, <3>2 DEF HarnessLimits, CountLimits, InTurn, HarnessShape, CountRecords
        <5> QED
          BY <2>2, <4>0, <5>1
      <4>3. len * c.turn = before + len /\ before \in Nat
        BY <2>2, <4>1, <4>2, OneTurnMore
      <4>4. CASE phase \in {"model", "reply", "answered"}
        <5>1. c.used <= before
          BY <2>1, <4>1, <4>4 DEF HarnessLimits, UsedLimits
        <5> QED
          BY <2>2, <4>3, <5>1
      <4>5. CASE phase = "calls"
        <5>1. c.used <= before + (next - 1)
          BY <2>1, <4>1, <4>5 DEF HarnessLimits, UsedLimits
        <5>2. next \in 1..(Len(reply.calls) + 1) /\ Len(reply.calls) <= len /\ Len(reply.calls) \in Nat
          BY <1>2, <2>1, <4>5, NextIsAsked, LenProperties DEF HarnessShape
        <5> QED
          BY <2>2, <4>3, <5>1, <5>2
      <4>6. CASE phase = "tools"
        <5>1. PICK to \in next..Len(reply.calls) : DOMAIN work = next..to
          BY <4>6 DEF HarnessInv, GroupFits
        <5>2. next \in Nat /\ Len(reply.calls) <= len /\ Len(reply.calls) \in Nat
          BY <1>2, <2>1, LenProperties DEF HarnessShape
        <5>3. to \in Nat /\ to <= len
          BY <2>2, <5>1, <5>2
        <5>4. c.used <= before + to
          BY <2>1, <4>1, <4>6, <5>1, <5>3 DEF HarnessLimits, UsedLimits
        <5> QED
          BY <2>2, <4>3, <5>3, <5>4
      <4> QED
        BY <1>2, <3>2, <4>4, <4>5, <4>6 DEF HarnessShape
    <3> QED
      BY <3>1, <3>2
  <2> QED
    BY <2>1, <2>2, <2>4, <2>5
<1>6. work # <<>> => work \in [DOMAIN work -> Pending \cup Results \cup {"broken"}]
  <2> SUFFICES ASSUME work # <<>> PROVE work \in [DOMAIN work -> Pending \cup Results \cup {"broken"}]
    OBVIOUS
  <2>1. phase = "tools"
    BY <1>2 DEF HarnessShape
  <2>2. PICK to : work \in [next..to -> WorkStates]
    BY <2>1 DEF HarnessInv, GroupFits
  <2> QED
    BY <2>2 DEF WorkStates
<1>7. phase = "tools" => DOMAIN work # {} /\ DOMAIN work \subseteq DOMAIN reply.calls
  <2> SUFFICES ASSUME phase = "tools" PROVE DOMAIN work # {} /\ DOMAIN work \subseteq DOMAIN reply.calls
    OBVIOUS
  <2>1. PICK to \in next..Len(reply.calls) : DOMAIN work = next..to
    BY DEF HarnessInv, GroupFits
  <2>2. next \in DOMAIN work /\ reply.calls \in Seq(Ops)
    BY <1>2, <2>1, LenProperties DEF HarnessShape
  <2> QED
    BY <2>2, GroupIsAsked, LenProperties
<1>8. guard.uncertain \cup guard.done \subseteq Writes
  BY <1>2 DEF HarnessShape, GuardFits
<1>9. tracker.checks \in 0..MaxChecks
  BY <1>2, LimitAssumption DEF HarnessShape, TrackerRecords, HarnessLimits, RunLimits
<1>10. /\ permanent \in BOOLEAN /\ spent \in BOOLEAN
       /\ ctx \in {"live", "expired", "canceled"} /\ offer \in {"all", "reads", "none"}
       /\ outcome \in Outcomes
  BY <1>1, Zenon DEF HarnessFlags
<1>11. /\ phase \in {"idle", "turn", "model", "reply", "answered", "calls", "tools"}
       /\ reply \in [kind : Replies, calls : Seq(Ops), verdict : Verdicts]
       /\ phase = "idle" <=> outcome # "running"
  BY <1>2 DEF HarnessShape
<1> QED
  BY <1>3, <1>4, <1>5, <1>6, <1>7, <1>8, <1>9, <1>10, <1>11, EntryTyped, Zenon DEF HarnessTypeOK

=============================================================================
