------------------------- MODULE ScheduleRunnerProofs -------------------------
(***************************************************************************)
(* Proofs about ScheduleRunner, for any schedules, recurrences, grace and  *)
(* bounds on time, changes, faults and crashes.                            *)
(***************************************************************************)
EXTENDS ScheduleRunner, TLAPS

-----------------------------------------------------------------------------
(* What NextDate returns, for every length of the day.                     *)

\* Dividing by the length of the day.
LEMMA Division ==
    ASSUME NEW t \in Nat
    PROVE  /\ t \div Day \in Nat
           /\ (t \div Day) * Day <= t /\ t < (t \div Day + 1) * Day
BY DayAssumption, Z3

\* A candidate lies on the day it is built for.
LEMMA DayOfCandidate ==
    ASSUME NEW n \in Nat, NEW at \in 0..(Day - 1)
    PROVE  n * Day + at \in Nat /\ (n * Day + at) \div Day = n
BY DayAssumption, Z3

LEMMA TimeOfCandidate ==
    ASSUME NEW n \in Nat, NEW at \in 0..(Day - 1)
    PROVE  (n * Day + at) % Day = at
<1> DEFINE u == n * Day + at
<1>1. u \in Nat /\ u \div Day = n
  BY DayOfCandidate
<1>2. u = (u \div Day) * Day + (u % Day)
  <2> HIDE DEF u
  <2> QED
    BY <1>1, DayAssumption, Z3
<1>3. u = n * Day + (u % Day)
  <2> HIDE DEF u
  <2> QED
    BY <1>1, <1>2
<1>4. u % Day \in Nat /\ n * Day \in Nat
  BY <1>1, DayAssumption, Z3
<1> QED
  BY <1>3, <1>4

\* Only that candidate of a day has the given time of the day.
LEMMA OnlyCandidate ==
    ASSUME NEW u \in Nat, NEW at \in 0..(Day - 1), u % Day = at
    PROVE  u = (u \div Day) * Day + at
BY DayAssumption, Z3

\* Later days have later candidates.
LEMMA CandidatesAscend ==
    ASSUME NEW m \in Nat, NEW n \in Nat, m < n, NEW at \in 0..(Day - 1)
    PROVE  m * Day + at < n * Day + at
BY DayAssumption, Z3

\* A set of days ahead has a first one.
LEMMA FirstDay ==
    ASSUME NEW S \in SUBSET (0..7), S # {}
    PROVE  LET first == CHOOSE o \in S : \A p \in S : o <= p
           IN  first \in S /\ \A p \in S : first <= p
<1>1. \E o \in S : \A p \in S : o <= p
  <2> SUFFICES ASSUME \A o \in S : \E p \in S : p < o
               PROVE  FALSE
    OBVIOUS
  <2>1. 0 \notin S
    OBVIOUS
  <2>2. 1 \notin S /\ 2 \notin S /\ 3 \notin S
    BY <2>1
  <2>3. 4 \notin S /\ 5 \notin S
    BY <2>1, <2>2
  <2>4. 6 \notin S /\ 7 \notin S
    BY <2>1, <2>2, <2>3
  <2>5. PICK o \in S : o \in 0..7
    OBVIOUS
  <2>6. o \in {0, 1, 2, 3, 4, 5, 6, 7}
    BY <2>5
  <2> QED
    BY <2>1, <2>2, <2>3, <2>4, <2>5, <2>6
<1> QED
  BY <1>1

\* The candidates NextDate chooses from.
Later(q, t) == {o \in Horizon(q) : WallClock(t, o, q.at) > t
                                   /\ Allowed(q, WallClock(t, o, q.at))}

\* q falls on the date u: the time of the day is right, and the day is.
Occurs(q, u) == u % Day = q.at /\ Allowed(q, u)

\* There always is a candidate: tomorrow, or an allowed day of the next seven.
LEMMA SomeCandidate ==
    ASSUME NEW q \in Recurrence, NEW t \in Nat, q.frequency # "interval"
    PROVE  /\ Later(q, t) # {} /\ Later(q, t) \subseteq 0..7
           /\ q.at \in 0..(Day - 1)
<1> DEFINE n == t \div Day
<1>1. q.at \in 0..(Day - 1) /\ n \in Nat /\ Horizon(q) \subseteq 0..7
  BY Division DEF Recurrence, Horizon
<1>2. ASSUME NEW o \in 1..7
      PROVE  /\ WallClock(t, o, q.at) > t
             /\ Weekday(WallClock(t, o, q.at)) = (n + o) % 7
  <2>1. (n + 1) * Day + q.at <= (n + o) * Day + q.at
    BY <1>1, CandidatesAscend, DayAssumption, Z3
  <2>2. t < (n + 1) * Day + q.at
    BY <1>1, Division, DayAssumption, Z3
  <2>3. (n + o) * Day + q.at \in Nat /\ ((n + o) * Day + q.at) \div Day = n + o
    BY <1>1, DayOfCandidate
  <2>4. WallClock(t, o, q.at) = (n + o) * Day + q.at
    BY DEF WallClock
  <2>5. WallClock(t, o, q.at) > t
    BY <1>1, <2>1, <2>2, <2>3, <2>4, DayAssumption, DayOfCandidate
  <2>6. Weekday(WallClock(t, o, q.at)) = (n + o) % 7
    BY <2>3, <2>4 DEF Weekday
  <2> QED
    BY <2>5, <2>6
<1>3. CASE q.frequency = "daily"
  BY <1>1, <1>2, <1>3 DEF Later, Horizon, Allowed
<1>4. CASE q.frequency = "weekly"
  <2>1. PICK w \in 0..6 : w \in q.days
    BY <1>4 DEF Recurrence, Weekdays
  <2>2. PICK o \in 1..7 : (n + o) % 7 = w
    <3>1. \E a \in 0..6, m \in Nat : n = 7 * m + a
      <4>1. n % 7 \in 0..6 /\ n \div 7 \in Nat /\ n = 7 * (n \div 7) + (n % 7)
        BY <1>1, Z3
      <4> QED
        BY <4>1
    <3>2. PICK a \in 0..6, m \in Nat : n = 7 * m + a
      BY <3>1
    <3>3. CASE a < w
      <4>1. w - a \in 1..7 /\ n + (w - a) = 7 * m + w
        BY <3>2, <3>3
      <4>2. (7 * m + w) % 7 = w
        BY <3>2, Z3
      <4> QED
        BY <4>1, <4>2
    <3>4. CASE ~(a < w)
      <4>1. w - a + 7 \in 1..7 /\ n + (w - a + 7) = 7 * (m + 1) + w
        BY <3>2, <3>4
      <4>2. (7 * (m + 1) + w) % 7 = w
        BY <3>2, Z3
      <4> QED
        BY <4>1, <4>2
    <3> QED
      BY <3>3, <3>4
  <2> QED
    BY <1>1, <1>2, <1>4, <2>1, <2>2 DEF Later, Horizon, Allowed
<1> QED
  BY <1>1, <1>3, <1>4 DEF Recurrence, Later

\* The next date of a schedule is later than the time it is asked for.
THEOREM NextDateIsLater ==
    ASSUME NEW q \in Recurrence, NEW t \in Nat
    PROVE  NextDate(q, t) \in Nat /\ NextDate(q, t) > t
<1>1. CASE q.frequency = "interval"
  BY <1>1, DayAssumption, Z3 DEF Recurrence, NextDate
<1>2. CASE q.frequency # "interval"
  <2> DEFINE first == CHOOSE o \in Later(q, t) : \A p \in Later(q, t) : o <= p
  <2>1. first \in Later(q, t) /\ NextDate(q, t) = WallClock(t, first, q.at)
    BY <1>2, SomeCandidate, FirstDay DEF NextDate, Later
  <2>2. WallClock(t, first, q.at) > t
    BY <2>1 DEF Later
  <2>3. WallClock(t, first, q.at) \in Nat
    BY <1>2, <2>1, SomeCandidate, Division, DayOfCandidate DEF WallClock
  <2> QED
    BY <2>1, <2>2, <2>3
<1> QED
  BY <1>1, <1>2

\* A daily or weekly schedule is run at its time of the day, on one of its days,
\* and no such date in between is passed over.
THEOREM NextDateIsFirst ==
    ASSUME NEW q \in Recurrence, NEW t \in Nat, q.frequency # "interval"
    PROVE  /\ Occurs(q, NextDate(q, t))
           /\ \A u \in Nat : t < u /\ u < NextDate(q, t) => ~Occurs(q, u)
<1> DEFINE n == t \div Day
           first == CHOOSE o \in Later(q, t) : \A p \in Later(q, t) : o <= p
<1>1. /\ first \in Later(q, t) /\ \A p \in Later(q, t) : first <= p
      /\ NextDate(q, t) = WallClock(t, first, q.at)
  BY SomeCandidate, FirstDay DEF NextDate, Later
<1>2. q.at \in 0..(Day - 1) /\ n \in Nat /\ first \in 0..7
  BY <1>1, SomeCandidate, Division
<1>day. n + first \in Nat
  <2> HIDE DEF n, first
  <2> QED
    BY <1>2
<1>3. Occurs(q, NextDate(q, t))
  <2>1. ((n + first) * Day + q.at) % Day = q.at
    BY <1>2, <1>day, TimeOfCandidate
  <2> QED
    BY <1>1, <2>1 DEF Occurs, Later, WallClock
<1>4. ASSUME NEW u \in Nat, t < u, u < NextDate(q, t), Occurs(q, u)
      PROVE  FALSE
  <2> DEFINE m == u \div Day
  <2>1. m \in Nat /\ u = m * Day + q.at
    BY <1>2, <1>4, Division, OnlyCandidate DEF Occurs
  <2>2. n <= m
    BY <1>2, <1>4, <2>1, DayAssumption, Z3
  <2>3. m < n + first
    <3>1. u < (n + first) * Day + q.at
      BY <1>1, <1>4 DEF WallClock
    <3>2. SUFFICES ASSUME ~(m < n + first) PROVE FALSE
      OBVIOUS
    <3>3. CASE m = n + first
      BY <2>1, <3>1, <3>3, <1>2, DayAssumption, DayOfCandidate
    <3>4. CASE n + first < m
      <4>1. (n + first) * Day + q.at < m * Day + q.at
        BY <1>2, <1>day, <2>1, <3>4, CandidatesAscend
      <4>2. (n + first) * Day + q.at \in Nat
        BY <1>2, <1>day, DayOfCandidate
      <4> QED
        <5> HIDE DEF m, n, first
        <5> QED
          BY <2>1, <3>1, <4>1, <4>2
    <3> HIDE DEF m, n, first
    <3> QED
      BY <1>2, <2>1, <3>2, <3>3, <3>4
  <2>4. WallClock(t, m - n, q.at) = u
    <3>1. n + (m - n) = m
      BY <1>2, <2>1
    <3> QED
      BY <2>1, <3>1 DEF WallClock
  <2>5. m - n \in Horizon(q) /\ m - n < first
    BY <1>1, <1>2, <2>1, <2>2, <2>3 DEF Horizon, Later
  <2>6. m - n \in Later(q, t)
    BY <1>4, <2>4, <2>5 DEF Later, Occurs
  <2> HIDE DEF m, n, first
  <2> QED
    BY <1>1, <1>2, <2>1, <2>5, <2>6
<1> QED
  BY <1>3, <1>4

-----------------------------------------------------------------------------
(* Types.                                                                  *)

\* What the store may hold for a schedule.
AnyItem == Schedule \cup {NoSchedule, Deleted}

\* Schedules that are there, and those that are not.
LEMMA Kinds ==
    ASSUME TypeOK, NEW s \in Schedules
    PROVE  /\ items[s] \in AnyItem
           /\ There(s) => items[s] \in Schedule
           /\ ~There(s) => ~items[s].enabled /\ items[s].next = None
BY DEF There, TypeOK, Items, AnyItem, Schedule, NoSchedule, Deleted

LEMMA NothingPlanned ==
    DOMAIN Nothing = {}
BY DEF Nothing

\* What was written is again a store of schedules.
LEMMA StoreType ==
    ASSUME TypeOK, NEW s \in Schedules, NEW item \in AnyItem,
           Persist([items EXCEPT ![s] = item])
    PROVE  items' \in Items /\ disk' \in Items /\ faults' \in 0..MaxFaults
BY BoundAssumption DEF Persist, TypeOK, Items, AnyItem

\* A new date is written, or nothing changes; what has no date stays so.
LEMMA DateWritten ==
    ASSUME TypeOK, NEW s \in Schedules, NEW d \in Date, SetDate(s, d)
    PROVE  \/ UNCHANGED store
           \/ /\ There(s) /\ [items[s] EXCEPT !.next = d] \in Schedule
              /\ Persist([items EXCEPT ![s] = [items[s] EXCEPT !.next = d]])
<1>1. CASE There(s) /\ Persist([items EXCEPT ![s].next = d])
  <2>1. [items[s] EXCEPT !.next = d] \in Schedule
    BY <1>1, Kinds DEF Schedule
  <2> QED
    BY <1>1, <2>1
<1> QED
  BY <1>1 DEF SetDate

LEMMA DateType ==
    ASSUME TypeOK, NEW s \in Schedules, NEW d \in Date, SetDate(s, d)
    PROVE  items' \in Items /\ disk' \in Items /\ faults' \in 0..MaxFaults
<1>1. CASE UNCHANGED store
  BY <1>1 DEF TypeOK, store
<1>2. CASE ~ UNCHANGED store
  <2> DEFINE item == [items[s] EXCEPT !.next = d]
  <2>1. item \in AnyItem /\ Persist([items EXCEPT ![s] = item])
    BY <1>2, DateWritten DEF AnyItem
  <2> HIDE DEF item
  <2> QED
    BY <2>1, StoreType
<1> QED
  BY <1>1, <1>2

\* A schedule created or changed by a user: it has a date iff it is enabled,
\* and the date lies ahead.
LEMMA RedatedType ==
    ASSUME TypeOK, NEW q \in Recurrences, NEW on \in BOOLEAN, NEW d \in Date
    PROVE  LET item == [state |-> "there", enabled |-> on, recurrence |-> q, next |-> d]
           IN  /\ Redated(item) \in Schedule
               /\ Redated(item).enabled => Redated(item).next \in Nat /\ Redated(item).next > time
               /\ ~Redated(item).enabled => Redated(item).next = None
<1>1. NextDate(q, time) \in Nat /\ NextDate(q, time) > time
  BY RecurrenceAssumption, BoundAssumption, NextDateIsLater DEF TypeOK
<1> QED
  BY <1>1 DEF Redated, Schedule, Date

\* What a user's change writes.
LEMMA ChangeWrites ==
    ASSUME TypeOK, Change
    PROVE  \E s \in Schedules : \E item \in AnyItem :
             /\ Persist([items EXCEPT ![s] = item])
             /\ item.enabled => item.next \in Nat /\ item.next > time
             /\ ~item.enabled => item.next = None
<1>1. PICK s \in Schedules :
        \/ \E q \in Recurrences, on \in BOOLEAN : CreateSchedule(s, q, on) \/ UpdateSchedule(s, q, on)
        \/ DeleteSchedule(s)
  BY DEF Change
<1>2. CASE DeleteSchedule(s)
  <2>1. Deleted \in AnyItem /\ ~Deleted.enabled /\ Deleted.next = None
    BY DEF Deleted, AnyItem
  <2> QED
    BY <1>2, <2>1 DEF DeleteSchedule
<1>3. ASSUME NEW q \in Recurrences, NEW on \in BOOLEAN,
             CreateSchedule(s, q, on) \/ UpdateSchedule(s, q, on)
      PROVE  \E item \in AnyItem :
             /\ Persist([items EXCEPT ![s] = item])
             /\ item.enabled => item.next \in Nat /\ item.next > time
             /\ ~item.enabled => item.next = None
  <2> DEFINE Item(d) == [state |-> "there", enabled |-> on, recurrence |-> q, next |-> d]
  <2>1. PICK d \in Date : Persist([items EXCEPT ![s] = Redated(Item(d))])
    <3>1. None \in Date /\ (There(s) => items[s].next \in Date)
      BY Kinds DEF Date, Schedule
    <3> QED
      BY <1>3, <3>1 DEF CreateSchedule, UpdateSchedule
  <2>2. /\ Redated(Item(d)) \in AnyItem
        /\ Redated(Item(d)).enabled => Redated(Item(d)).next \in Nat /\ Redated(Item(d)).next > time
        /\ ~Redated(Item(d)).enabled => Redated(Item(d)).next = None
    BY RedatedType DEF AnyItem
  <2> HIDE DEF Item
  <2> QED
    BY <2>1, <2>2
<1> QED
  BY <1>1, <1>2, <1>3

\* The plan of a pass: every schedule in it gets a date after now.
LEMMA PlanType ==
    ASSUME TypeOK, NEW S \in SUBSET Enabled
    PROVE  /\ DOMAIN PlanFor(S) \subseteq Schedules /\ DOMAIN PlanFor(S) = S
           /\ \A s \in S : /\ PlanFor(S)[s] \in Todo
                           /\ PlanFor(S)[s].due = items[s].next
                           /\ PlanFor(S)[s].next > time
<1>1. \A s \in S : s \in Schedules /\ items[s] \in Schedule
  BY DEF Enabled, There, TypeOK, Items, NoSchedule, Deleted
<1>2. \A s \in S : /\ NextDate(items[s].recurrence, time) \in Nat
                   /\ NextDate(items[s].recurrence, time) > time
  BY <1>1, RecurrenceAssumption, BoundAssumption, NextDateIsLater DEF TypeOK, Schedule
<1> QED
  BY <1>1, <1>2 DEF PlanFor, Todo, Schedule, Date

LEMMA ScheduleTypesInit == Init => TypeOK
<1> SUFFICES ASSUME Init
             PROVE  TypeOK
  OBVIOUS
<1>1. items \in Items /\ disk \in Items
  BY DEF Init, Items
<1>2. fired \in [Schedules -> Date]
  BY DEF Init, Date
<1>3. DOMAIN plan = {}
  BY NothingPlanned DEF Init
<1>4. {time, now, boot} \subseteq 0..MaxTime
  BY BoundAssumption DEF Init
<1>5. changes \in 0..MaxChanges /\ faults \in 0..MaxFaults /\ crashes \in 0..MaxCrashes
  BY BoundAssumption DEF Init
<1> QED
  BY <1>1, <1>2, <1>3, <1>4, <1>5 DEF Init, TypeOK

LEMMA ScheduleTypesStep == TypeOK /\ [Next]_vars => TypeOK'
<1> SUFFICES ASSUME TypeOK, [Next]_vars
             PROVE  TypeOK'
  OBVIOUS
<1> USE DEF store, runner, history
<1>1. CASE Tick
  BY <1>1, BoundAssumption DEF TypeOK, Tick
<1>2. CASE Change
  <2>1. items' \in Items /\ disk' \in Items /\ faults' \in 0..MaxFaults
    BY <1>2, ChangeWrites, StoreType
  <2>2. changes' \in 0..MaxChanges
    BY <1>2, BoundAssumption DEF TypeOK, Change
  <2> QED
    BY <1>2, <2>1, <2>2 DEF TypeOK, Change
<1>3. ASSUME NEW s \in Schedules, RunSchedule(s)
      PROVE  TypeOK'
  <2>1. manual' \in [schedule : ByHand, next : Date]
    BY <1>3, Kinds DEF RunSchedule, Schedule
  <2> QED
    BY <1>3, <2>1 DEF TypeOK, RunSchedule
<1>4. CASE RunScheduleMark
  <2>1. manual.schedule \in Schedules /\ manual.next \in Date
    BY <1>4, BoundAssumption DEF RunScheduleMark, TypeOK
  <2>2. items' \in Items /\ disk' \in Items /\ faults' \in 0..MaxFaults
    BY <1>4, <2>1, DateType DEF RunScheduleMark, TypeOK
  <2> QED
    BY <1>4, <2>2 DEF TypeOK, RunScheduleMark
<1>5. CASE Boot
  <2>1. DOMAIN plan' \subseteq Schedules /\ \A s \in DOMAIN plan' : plan'[s] \in Todo
    BY <1>5, PlanType, {s \in Enabled : Missed(s)} \in SUBSET Enabled DEF Boot
  <2> QED
    BY <1>5, <2>1 DEF TypeOK, Boot
<1>6. ASSUME NEW s \in Schedules, Rebase(s)
      PROVE  TypeOK'
  <2>1. items' \in Items /\ disk' \in Items /\ faults' \in 0..MaxFaults
    <3>1. plan[s].next \in Date
      BY <1>6 DEF Rebase, TypeOK, Todo, Date
    <3> QED
      BY <1>6, <3>1, DateType DEF Rebase, TypeOK
  <2> QED
    BY <1>6, <2>1 DEF TypeOK, Rebase, Without
<1>7. CASE Scan
  <2>1. DOMAIN plan' \subseteq Schedules /\ \A s \in DOMAIN plan' : plan'[s] \in Todo
    BY <1>7, PlanType, Due \in SUBSET Enabled DEF Scan, Due
  <2> QED
    BY <1>7, <2>1 DEF TypeOK, Scan
<1>8. ASSUME NEW s \in Schedules, Trigger(s)
      PROVE  TypeOK'
  BY <1>8 DEF TypeOK, Trigger
<1>9. CASE TriggerMark
  <2>1. current \in Schedules /\ plan[current] \in Todo
    BY <1>9 DEF TriggerMark, TypeOK
  <2>2. items' \in Items /\ disk' \in Items /\ faults' \in 0..MaxFaults
    <3>1. plan[current].next \in Date
      BY <2>1 DEF Todo, Date
    <3> QED
      BY <1>9, <2>1, <3>1, DateType DEF TriggerMark, TypeOK
  <2>3. fired' \in [Schedules -> Date]
    BY <1>9 DEF TriggerMark, TypeOK, Date
  <2> QED
    BY <1>9, <2>2, <2>3 DEF TypeOK, TriggerMark, Without
<1>10. CASE Stop
  BY <1>10, NothingPlanned DEF TypeOK, Stop
<1>11. CASE CloseService
  BY <1>11 DEF TypeOK, CloseService
<1>12. CASE CrashAndRestart
  <2>1. items' \in Items
    <3>1. PICK gone \in SUBSET Schedules : items' = Loaded(gone)
      BY <1>12 DEF CrashAndRestart
    <3>2. ASSUME NEW s \in Schedules, disk[s].state = "there"
          PROVE  [disk[s] EXCEPT !.enabled = FALSE, !.next = None] \in Schedule
      <4>1. disk[s] \in Schedule
        BY <3>2 DEF TypeOK, Items, NoSchedule, Deleted
      <4> QED
        BY <4>1 DEF Schedule, Date
    <3> QED
      BY <3>1, <3>2 DEF Loaded, TypeOK, Items
  <2>2. crashes' \in 0..MaxCrashes
    BY <1>12, BoundAssumption DEF TypeOK, CrashAndRestart
  <2>3. DOMAIN plan' = {}
    BY <1>12, NothingPlanned DEF CrashAndRestart
  <2>4. now' \in 0..MaxTime
    BY <1>12, BoundAssumption DEF CrashAndRestart
  <2> QED
    BY <1>12, <2>1, <2>2, <2>3, <2>4 DEF TypeOK, CrashAndRestart
<1>13. CASE UNCHANGED vars
  BY <1>13 DEF TypeOK, vars
<1> QED
  BY <1>1, <1>2, <1>3, <1>4, <1>5, <1>6, <1>7, <1>8, <1>9, <1>10, <1>11, <1>12, <1>13
  DEF Next, RunnerStep, Quiet

\* Every variable keeps its type.
THEOREM ScheduleRunnerTypes == Spec => []TypeOK
BY ScheduleTypesInit, ScheduleTypesStep, PTL DEF Spec

-----------------------------------------------------------------------------
(* Dates.  A date only moves past the time at which the runner looked, in  *)
(* memory and in the file, and so does the date of a trigger under way.    *)

\* What memory or the file may say of a schedule whose trigger was recorded.
Ahead(item, f) ==
    /\ f # None /\ item.next # None => item.next > f
    /\ item.enabled => item.next # None

FiredInv ==
    \A s \in Timed : fired[s] # None => fired[s] <= time

\* The file has what memory has, but for schedules switched off by a load.
StoreInv ==
    \A s \in Timed : /\ Ahead(items[s], fired[s]) /\ Ahead(disk[s], fired[s])
                     /\ items[s] = disk[s] \/ items[s].next = None

PlanInv ==
    \A s \in DOMAIN plan :
        /\ plan[s].next > now
        /\ s \in Timed /\ fired[s] # None => fired[s] <= now
        /\ s \in Timed /\ stage \in {"scan", "mark"} =>
             plan[s].due # None /\ (fired[s] # None => plan[s].due > fired[s])

DatesInv == TypeOK /\ now <= time /\ FiredInv /\ StoreInv /\ PlanInv

\* A write that leaves every schedule with a good date keeps the store so.
LEMMA StoreKept ==
    ASSUME TypeOK, StoreInv, NEW s \in Schedules, NEW item \in AnyItem,
           Persist([items EXCEPT ![s] = item]), UNCHANGED fired,
           s \in Timed => Ahead(item, fired[s])
    PROVE  StoreInv'
<1>1. ASSUME NEW r \in Timed
      PROVE  /\ Ahead(items'[r], fired[r]) /\ Ahead(disk'[r], fired[r])
             /\ items'[r] = disk'[r] \/ items'[r].next = None
  <2>1. r \in Schedules
    BY DEF Timed
  <2>2. CASE items' = [items EXCEPT ![s] = item] /\ disk' = items'
    BY <2>1, <2>2 DEF StoreInv, TypeOK, Items
  <2>3. CASE UNCHANGED <<items, disk>>
    BY <2>1, <2>3 DEF StoreInv
  <2> QED
    BY <2>2, <2>3 DEF Persist
<1> QED
  BY <1>1 DEF StoreInv

\* So does the runner's own write, of a date after any recorded trigger.
LEMMA DateKept ==
    ASSUME TypeOK, StoreInv, NEW s \in Schedules, NEW d \in Date, SetDate(s, d), UNCHANGED fired,
           s \in Timed => d \in Nat /\ (fired[s] # None => d > fired[s])
    PROVE  StoreInv'
<1>1. CASE UNCHANGED store
  BY <1>1 DEF StoreInv, store
<1>2. CASE ~ UNCHANGED store
  <2> DEFINE item == [items[s] EXCEPT !.next = d]
  <2>1. item \in AnyItem /\ Persist([items EXCEPT ![s] = item])
    BY <1>2, DateWritten DEF AnyItem
  <2>2. item.next = d
    BY Kinds DEF AnyItem, Schedule, NoSchedule, Deleted
  <2>3. s \in Timed => Ahead(item, fired[s])
    BY <2>2, NoneAssumption DEF Ahead
  <2> HIDE DEF item
  <2> QED
    BY <2>1, <2>3, StoreKept
<1> QED
  BY <1>1, <1>2

LEMMA DatesInit == Init => DatesInv
<1> SUFFICES ASSUME Init
             PROVE  DatesInv
  OBVIOUS
<1>1. TypeOK
  BY ScheduleTypesInit
<1>2. StoreInv
  BY DEF Init, StoreInv, Ahead, NoSchedule, Timed
<1>3. FiredInv /\ PlanInv
  BY NothingPlanned DEF Init, FiredInv, PlanInv, Timed
<1> QED
  BY <1>1, <1>2, <1>3, BoundAssumption DEF Init, DatesInv

\* A pass that begins takes every due date from the store as it is.
LEMMA PlanMade ==
    ASSUME DatesInv, NEW S \in SUBSET Enabled, plan' = PlanFor(S), now' = time, UNCHANGED fired,
           stage' \in {"scan", "mark"} => \A s \in S : items[s].next # None
    PROVE  PlanInv'
<1>1. DOMAIN plan' = S /\ S \subseteq Schedules
  BY PlanType DEF DatesInv
<1>2. ASSUME NEW s \in S
      PROVE  /\ plan'[s].next > now'
             /\ s \in Timed /\ fired[s] # None => fired[s] <= now'
             /\ s \in Timed /\ stage' \in {"scan", "mark"} =>
                  plan'[s].due # None /\ (fired[s] # None => plan'[s].due > fired[s])
  <2>1. plan'[s].next > now' /\ plan'[s].due = items[s].next
    BY PlanType DEF DatesInv
  <2> QED
    BY <1>1, <2>1 DEF DatesInv, FiredInv, StoreInv, Ahead
<1> QED
  BY <1>1, <1>2 DEF PlanInv

\* What remains of a plan keeps its dates.
LEMMA PlanShrinks ==
    ASSUME PlanInv, UNCHANGED <<now, fired>>, DOMAIN plan' \subseteq DOMAIN plan,
           \A s \in DOMAIN plan' : plan'[s] = plan[s],
           stage' \in {"scan", "mark"} => stage \in {"scan", "mark"} \/ DOMAIN plan' = {}
    PROVE  PlanInv'
BY DEF PlanInv

\* Recording a trigger: the date written lies after now.
LEMMA DatesMark ==
    ASSUME DatesInv, TriggerMark
    PROVE  FiredInv' /\ StoreInv' /\ PlanInv'
<1> DEFINE c == current
<1>1. /\ c \in DOMAIN plan /\ c \in Schedules /\ plan[c] \in Todo
      /\ plan[c].next \in Nat /\ plan[c].next > now /\ now \in Nat /\ time \in Nat
  BY BoundAssumption DEF TriggerMark, DatesInv, TypeOK, Todo, PlanInv
<1>2. \A s \in Schedules : fired[s] \in Date
  BY DEF DatesInv, TypeOK
<1>3. c \in Timed /\ fired[c] # None => plan[c].next > fired[c]
  BY <1>1, <1>2 DEF DatesInv, PlanInv, Date
<1>4. \/ UNCHANGED store
      \/ SetDate(c, plan[c].next)
  BY DEF TriggerMark
<1>5. \A s \in Schedules : fired'[s] = fired[s] \/ (s = c /\ fired'[s] = now /\ items'[c].next = plan[c].next)
  BY DEF TriggerMark, DatesInv, TypeOK
<1>6. FiredInv'
  BY <1>1, <1>5 DEF FiredInv, DatesInv, TriggerMark, Timed
<1>7. \A s \in Timed : /\ Ahead(items'[s], fired[s]) /\ Ahead(disk'[s], fired[s])
                       /\ items'[s] = disk'[s] \/ items'[s].next = None
  <2>1. CASE UNCHANGED store
    BY <2>1 DEF store, DatesInv, StoreInv
  <2>2. CASE SetDate(c, plan[c].next) /\ ~ UNCHANGED store
    <3> DEFINE item == [items[c] EXCEPT !.next = plan[c].next]
    <3>1. item \in AnyItem /\ Persist([items EXCEPT ![c] = item])
      BY <1>1, <2>2, DateWritten DEF AnyItem, DatesInv, Date
    <3>2. item.next = plan[c].next
      BY <1>1, Kinds DEF AnyItem, Schedule, NoSchedule, Deleted, DatesInv
    <3>3. c \in Timed => Ahead(item, fired[c])
      BY <1>1, <1>3, <3>2, NoneAssumption DEF Ahead
    <3> HIDE DEF item, c
    <3>4. ASSUME NEW s \in Timed
          PROVE  /\ Ahead(items'[s], fired[s]) /\ Ahead(disk'[s], fired[s])
                 /\ items'[s] = disk'[s] \/ items'[s].next = None
      <4>1. s \in Schedules
        BY DEF Timed
      <4>2. CASE items' = [items EXCEPT ![c] = item] /\ disk' = items'
        BY <4>1, <4>2, <1>1, <3>3 DEF StoreInv, TypeOK, Items, DatesInv
      <4>3. CASE UNCHANGED <<items, disk>>
        BY <4>1, <4>3 DEF StoreInv, DatesInv
      <4> QED
        BY <3>1, <4>2, <4>3 DEF Persist
    <3> QED
      BY <3>4
  <2> QED
    BY <1>4, <2>1, <2>2
<1>8. StoreInv'
  <2>1. ASSUME NEW s \in Timed, fired'[s] # fired[s]
        PROVE  Ahead(items'[s], fired'[s]) /\ Ahead(disk'[s], fired'[s])
    <3>1. s = c /\ fired'[s] = now /\ items'[s].next = plan[c].next
      BY <1>5, <2>1 DEF Timed
    <3>2. items'[s] = disk'[s]
      BY <1>1, <1>7, <3>1, NoneAssumption
    <3> QED
      BY <1>1, <1>7, <3>1, <3>2 DEF Ahead
  <2> QED
    BY <1>7, <2>1 DEF StoreInv
<1>9. PlanInv'
  <2>1. \A s \in DOMAIN plan' : s \in DOMAIN plan /\ s # c /\ plan'[s] = plan[s] /\ s \in Schedules
    BY DEF TriggerMark, Without, DatesInv, TypeOK
  <2>2. \A s \in DOMAIN plan' : fired'[s] = fired[s]
    BY <1>5, <2>1
  <2> QED
    BY <2>1, <2>2 DEF PlanInv, TriggerMark, DatesInv
<1> QED
  BY <1>6, <1>8, <1>9

\* Loading the file loses nothing that was recorded.
LEMMA DatesLoaded ==
    ASSUME DatesInv, CrashAndRestart
    PROVE  FiredInv' /\ StoreInv' /\ PlanInv'
<1> USE DEF store, runner, history
<1>1. PICK gone \in SUBSET Schedules : items' = Loaded(gone)
  BY DEF CrashAndRestart
<1>2. ASSUME NEW s \in Timed
      PROVE  /\ Ahead(items'[s], fired[s])
             /\ items'[s] = disk[s] \/ items'[s].next = None
  <2>1. s \in Schedules /\ Ahead(disk[s], fired[s])
    BY DEF Timed, DatesInv, StoreInv
  <2>2. CASE s \in gone /\ disk[s].state = "there"
    <3>1. disk[s] \in Schedule
      BY <2>1, <2>2 DEF DatesInv, TypeOK, Items, NoSchedule, Deleted
    <3>2. ~items'[s].enabled /\ items'[s].next = None
      BY <1>1, <2>1, <2>2, <3>1 DEF Loaded, Schedule
    <3> QED
      BY <3>2 DEF Ahead
  <2>3. CASE ~ (s \in gone /\ disk[s].state = "there")
    BY <1>1, <2>1, <2>3 DEF Loaded
  <2> QED
    BY <2>2, <2>3
<1>3. DOMAIN plan' = {}
  BY NothingPlanned DEF CrashAndRestart
<1> QED
  BY <1>2, <1>3 DEF CrashAndRestart, DatesInv, StoreInv, FiredInv, PlanInv

LEMMA DatesStep == DatesInv /\ [Next]_vars => DatesInv'
<1> SUFFICES ASSUME DatesInv, [Next]_vars
             PROVE  DatesInv'
  OBVIOUS
<1> USE DEF store, runner, history
<1>1. TypeOK /\ TypeOK' /\ now <= time /\ FiredInv /\ StoreInv /\ PlanInv
  BY ScheduleTypesStep DEF DatesInv
<1>2. now' <= time'
  BY <1>1, BoundAssumption DEF TypeOK, Next, vars, Tick, Change, RunSchedule, RunScheduleMark, CloseService,
     RunnerStep, Boot, Scan, TriggerMark, Stop, Rebase, Trigger, CrashAndRestart, Quiet
<1>3. CASE Tick
  BY <1>1, <1>3, BoundAssumption DEF Tick, DatesInv, FiredInv, StoreInv, PlanInv, TypeOK, Date, Timed
<1>4. CASE Change
  <2>1. PICK s \in Schedules : \E item \in AnyItem :
             /\ Persist([items EXCEPT ![s] = item])
             /\ item.enabled => item.next \in Nat /\ item.next > time
             /\ ~item.enabled => item.next = None
    BY <1>1, <1>4, ChangeWrites
  <2>2. PICK item \in AnyItem :
             /\ Persist([items EXCEPT ![s] = item])
             /\ item.enabled => item.next \in Nat /\ item.next > time
             /\ ~item.enabled => item.next = None
    BY <2>1
  <2>3. s \in Timed => Ahead(item, fired[s])
    BY <1>1, <2>2, NoneAssumption, BoundAssumption DEF Ahead, FiredInv, TypeOK, Date, Timed
  <2>4. StoreInv'
    BY <1>1, <1>4, <2>2, <2>3, StoreKept DEF Change
  <2> QED
    BY <1>1, <1>2, <1>4, <2>4 DEF Change, DatesInv, FiredInv, PlanInv
<1>5. ASSUME NEW s \in Schedules, RunSchedule(s)
      PROVE  DatesInv'
  BY <1>1, <1>2, <1>5 DEF RunSchedule, DatesInv, FiredInv, StoreInv, PlanInv
<1>6. CASE RunScheduleMark
  <2>1. manual.schedule \in ByHand /\ manual.schedule \in Schedules /\ manual.next \in Date
    BY <1>1, <1>6, BoundAssumption DEF RunScheduleMark, TypeOK
  <2>2. StoreInv'
    <3>1. CASE SetDate(manual.schedule, manual.next)
      BY <1>1, <1>6, <2>1, <3>1, DateKept DEF RunScheduleMark, Timed
    <3>2. CASE UNCHANGED store
      BY <1>1, <1>6, <3>2 DEF RunScheduleMark, StoreInv
    <3> QED
      BY <1>6, <3>1, <3>2 DEF RunScheduleMark
  <2> QED
    BY <1>1, <1>2, <1>6, <2>2 DEF RunScheduleMark, DatesInv, FiredInv, PlanInv
<1>7. CASE Boot
  <2>1. PlanInv'
    BY <1>7, PlanMade, {s \in Enabled : Missed(s)} \in SUBSET Enabled DEF Boot
  <2> QED
    BY <1>1, <1>2, <1>7, <2>1 DEF Boot, DatesInv, FiredInv, StoreInv
<1>8. ASSUME NEW s \in Schedules, Rebase(s)
      PROVE  DatesInv'
  <2>1. /\ plan[s].next \in Date
        /\ s \in Timed => plan[s].next \in Nat /\ (fired[s] # None => plan[s].next > fired[s])
    BY <1>1, <1>8, BoundAssumption DEF Rebase, TypeOK, Todo, Date, PlanInv
  <2>2. StoreInv'
    <3>1. CASE SetDate(s, plan[s].next)
      BY <1>1, <1>8, <2>1, <3>1, DateKept DEF Rebase
    <3>2. CASE UNCHANGED store
      BY <1>1, <1>8, <3>2 DEF Rebase, StoreInv
    <3> QED
      BY <1>8, <3>1, <3>2 DEF Rebase
  <2>3. PlanInv'
    BY <1>1, <1>8, PlanShrinks DEF Rebase, Without
  <2> QED
    BY <1>1, <1>2, <1>8, <2>2, <2>3 DEF Rebase, DatesInv, FiredInv
<1>9. CASE Scan
  <2>1. PlanInv'
    BY <1>9, PlanMade, Due \in SUBSET Enabled DEF Scan, Due
  <2> QED
    BY <1>1, <1>2, <1>9, <2>1 DEF Scan, DatesInv, FiredInv, StoreInv
<1>10. ASSUME NEW s \in Schedules, Trigger(s)
       PROVE  DatesInv'
  BY <1>1, <1>2, <1>10 DEF Trigger, DatesInv, FiredInv, StoreInv, PlanInv
<1>11. CASE TriggerMark
  BY <1>1, <1>2, <1>11, DatesMark DEF DatesInv
<1>12. CASE Stop
  <2>1. PlanInv'
    BY <1>12, NothingPlanned DEF Stop, PlanInv
  <2> QED
    BY <1>1, <1>2, <1>12, <2>1 DEF Stop, DatesInv, FiredInv, StoreInv
<1>13. CASE CloseService
  BY <1>1, <1>2, <1>13 DEF CloseService, DatesInv, FiredInv, StoreInv, PlanInv
<1>14. CASE CrashAndRestart
  BY <1>1, <1>2, <1>14, DatesLoaded DEF DatesInv
<1>15. CASE UNCHANGED vars
  BY <1>1, <1>15 DEF vars, DatesInv, FiredInv, StoreInv, PlanInv
<1> QED
  BY <1>3, <1>4, <1>5, <1>6, <1>7, <1>8, <1>9, <1>10, <1>11, <1>12, <1>13, <1>14, <1>15
  DEF Next, RunnerStep, Quiet

THEOREM DatesMoveAhead == Spec => []DatesInv
BY DatesInit, DatesStep, PTL DEF Spec

\* A schedule that is switched on, and that nobody triggers by hand, has a date.
THEOREM ScheduleEnabledHasDate == Spec => []EnabledHasDate
<1>1. DatesInv => EnabledHasDate
  BY DEF DatesInv, StoreInv, Ahead, EnabledHasDate, Timed
<1> QED
  BY <1>1, DatesMoveAhead, PTL

\* No date at or before a recorded trigger is run again, whatever was changed,
\* lost or restarted meanwhile.
THEOREM ScheduleRecordedOnce == Spec => RecordedOnce
<1>1. DatesInv /\ [Next]_vars =>
        [\A s \in Timed : Triggers(s) => fired[s] = None \/ plan[s].due > fired[s]]_vars
  <2> SUFFICES ASSUME DatesInv, Next, NEW s \in Timed, Triggers(s)
               PROVE  fired[s] = None \/ plan[s].due > fired[s]
    BY DEF Quiet
  <2>1. PICK r \in Schedules : Trigger(r)
    BY DEF Triggers, Next, RunnerStep, Tick, Change, RunSchedule, RunScheduleMark, CloseService,
       Boot, Scan, TriggerMark, Stop, Rebase, CrashAndRestart, Quiet, runner, vars
  <2>2. r = s
    BY <2>1 DEF Trigger, Triggers
  <2> QED
    BY <2>1, <2>2 DEF Trigger, DatesInv, PlanInv
<1> QED
  BY <1>1, DatesMoveAhead, PTL DEF Spec, RecordedOnce

-----------------------------------------------------------------------------
(* Missed dates.  A start moves every date that was missed by more than    *)
(* the grace before the runner looks for due ones.                         *)

\* Until a storage fault: when the runner works, every date lies after the last
\* rebase or was missed by no more than the grace, or waits to be rebased.
MissedInv ==
    /\ boot <= time
    /\ stage \in {"rebase", "scan", "mark"} => boot <= now
    /\ faults = 0 /\ ~closed /\ stage \in {"rebase", "scan", "mark"} =>
         \A s \in Timed \cap Enabled :
             items[s].next + Grace >= boot \/ (stage = "rebase" /\ s \in DOMAIN plan)
    /\ faults = 0 /\ stage \in {"scan", "mark"} =>
         \A s \in Timed \cap DOMAIN plan : plan[s].due + Grace >= boot

\* The bounds as numbers, and dates where there must be one.
LEMMA NumbersOf ==
    ASSUME DatesInv
    PROVE  /\ time \in Nat /\ boot \in Nat /\ now \in Nat /\ faults \in Nat /\ Grace \in Nat
           /\ \A s \in Timed \cap Enabled : items[s].next \in Nat
           /\ \A s \in Timed \cap DOMAIN plan : plan[s].next \in Nat /\ plan[s].next > now
<1>1. TypeOK /\ StoreInv /\ PlanInv
  BY DEF DatesInv
<1>2. ASSUME NEW s \in Timed \cap Enabled PROVE items[s].next \in Nat
  <2>1. s \in Schedules /\ items[s].enabled /\ items[s] \in Schedule
    BY <1>1, Kinds DEF Enabled
  <2>2. items[s].next # None
    BY <1>1, <2>1 DEF StoreInv, Ahead
  <2> QED
    BY <2>1, <2>2 DEF Schedule, Date
<1> QED
  BY <1>1, <1>2, BoundAssumption DEF TypeOK, PlanInv, Todo

\* Faults are only added, and what is written without one is written.
LEMMA NoFaultSoFar ==
    ASSUME DatesInv, [Next]_vars, faults' = 0
    PROVE  faults = 0
<1> USE DEF store
<1>1. faults \in Nat
  BY NumbersOf
<1>2. faults' \in {faults, faults + 1}
  BY DEF Next, vars, Tick, Change, CreateSchedule, UpdateSchedule, DeleteSchedule, RunSchedule,
     RunScheduleMark, CloseService, RunnerStep, Boot, Scan, TriggerMark, Stop, Rebase, Trigger,
     CrashAndRestart, Quiet, SetDate, Persist
<1> QED
  BY <1>1, <1>2

\* The store after a write without a fault.
LEMMA OneWritten ==
    ASSUME TypeOK, NEW s \in Schedules, NEW item \in AnyItem,
           Persist([items EXCEPT ![s] = item]), faults' = faults
    PROVE  /\ items'[s] = item /\ \A r \in Schedules \ {s} : items'[r] = items[r]
           /\ Enabled' \subseteq Enabled \cup {s} /\ (s \in Enabled' => item.enabled)
<1>1. items' = [items EXCEPT ![s] = item]
  BY BoundAssumption DEF Persist, TypeOK
<1>2. items'[s] = item /\ \A r \in Schedules \ {s} : items'[r] = items[r]
  BY <1>1 DEF TypeOK, Items
<1> QED
  BY <1>2 DEF Enabled, There

\* A date after the last rebase is a good one.
LEMMA GoodDate ==
    ASSUME DatesInv, MissedInv, NEW s \in Schedules, NEW item \in AnyItem,
           Persist([items EXCEPT ![s] = item]), faults = 0, faults' = 0, ~closed,
           stage \in {"rebase", "scan", "mark"}, UNCHANGED boot,
           s \in Timed /\ item.enabled => item.next \in Nat /\ item.next >= boot,
           NEW r \in Timed \cap Enabled'
    PROVE  items'[r].next + Grace >= boot \/ (stage = "rebase" /\ r \in DOMAIN plan /\ r # s)
<1>1. r \in Schedules /\ TypeOK
  BY DEF Timed, DatesInv
<1>2. CASE r = s
  BY <1>1, <1>2, NumbersOf, OneWritten
<1>3. CASE r # s
  BY <1>1, <1>3, OneWritten DEF MissedInv
<1> QED
  BY <1>2, <1>3

LEMMA MissedInit == Init => MissedInv
BY BoundAssumption DEF Init, MissedInv

LEMMA MissedStep == DatesInv /\ MissedInv /\ [Next]_vars => MissedInv'
<1> SUFFICES ASSUME DatesInv, MissedInv, [Next]_vars PROVE MissedInv'
  OBVIOUS
<1> USE DEF store, runner, history
<1>1. /\ TypeOK /\ DatesInv'
      /\ boot <= time /\ time \in Nat /\ boot \in Nat /\ now \in Nat /\ Grace \in Nat
  BY DatesStep, NumbersOf DEF DatesInv, MissedInv
<1>2. faults' = 0 => faults = 0
  BY NoFaultSoFar
<1>3. CASE Tick
  BY <1>1, <1>3 DEF Tick, MissedInv, Enabled, There
<1>4. CASE Change
  <2>1. PICK s \in Schedules : \E item \in AnyItem :
             /\ Persist([items EXCEPT ![s] = item])
             /\ item.enabled => item.next \in Nat /\ item.next > time
             /\ ~item.enabled => item.next = None
    BY <1>1, <1>4, ChangeWrites
  <2>2. PICK item \in AnyItem :
             /\ Persist([items EXCEPT ![s] = item])
             /\ item.enabled => item.next \in Nat /\ item.next > time
    BY <2>1
  <2>3. UNCHANGED <<time, stage, now, plan, closed, boot>>
    BY <1>4 DEF Change
  <2>4. item.enabled => item.next \in Nat /\ item.next >= boot
    BY <1>1, <2>2
  <2>5. ASSUME faults' = 0, ~closed, stage \in {"rebase", "scan", "mark"},
               NEW r \in Timed \cap Enabled'
        PROVE  items'[r].next + Grace >= boot \/ (stage = "rebase" /\ r \in DOMAIN plan)
    BY <1>2, <2>2, <2>3, <2>4, <2>5, GoodDate
  <2> QED
    BY <1>1, <1>2, <2>3, <2>5 DEF MissedInv
<1>5. ASSUME NEW s \in Schedules, RunSchedule(s) PROVE MissedInv'
  BY <1>5 DEF RunSchedule, MissedInv, Enabled, There
<1>6. CASE RunScheduleMark
  <2>1. manual.schedule \in ByHand /\ manual.schedule \in Schedules /\ manual.next \in Date
    BY <1>1, <1>6, BoundAssumption DEF RunScheduleMark, TypeOK
  <2>2. UNCHANGED <<time, stage, now, plan, closed, boot>>
    BY <1>6 DEF RunScheduleMark
  <2>3. CASE UNCHANGED store
    BY <2>2, <2>3 DEF MissedInv, Enabled, There
  <2>4. CASE ~UNCHANGED store
    <3> DEFINE item == [items[manual.schedule] EXCEPT !.next = manual.next]
    <3>1. item \in AnyItem /\ Persist([items EXCEPT ![manual.schedule] = item])
      BY <1>1, <1>6, <2>1, <2>4, DateWritten DEF RunScheduleMark, AnyItem
    <3>2. manual.schedule \notin Timed
      BY <2>1 DEF Timed
    <3> HIDE DEF item
    <3>3. ASSUME faults' = 0, ~closed, stage \in {"rebase", "scan", "mark"},
                 NEW r \in Timed \cap Enabled'
          PROVE  items'[r].next + Grace >= boot \/ (stage = "rebase" /\ r \in DOMAIN plan)
      BY <1>2, <2>1, <2>2, <3>1, <3>2, <3>3, GoodDate
    <3> QED
      BY <1>1, <1>2, <2>2, <3>3 DEF MissedInv
  <2> QED
    BY <2>3, <2>4
<1>7. CASE Boot
  <2> DEFINE late == {s \in Enabled : Missed(s)}
  <2>1. late \in SUBSET Enabled
    OBVIOUS
  <2>2. DOMAIN plan' = late /\ boot' = time /\ now' = time /\ time' = time /\ stage' = "rebase"
    BY <1>1, <1>7, <2>1, PlanType DEF Boot
  <2>3. Enabled' = Enabled /\ items' = items
    BY <1>7 DEF Boot, Enabled, There
  <2>4. \A s \in Timed \cap Enabled : items[s].next + Grace >= time \/ s \in late
    BY <1>1, NumbersOf DEF Missed
  <2> HIDE DEF late
  <2> QED
    BY <1>1, <2>2, <2>3, <2>4 DEF MissedInv
<1>8. ASSUME NEW s \in Schedules, Rebase(s) PROVE MissedInv'
  <2>1. /\ UNCHANGED <<time, stage, now, closed, boot>> /\ stage = "rebase"
        /\ s \in DOMAIN plan /\ DOMAIN plan' = DOMAIN plan \ {s}
        /\ \A r \in DOMAIN plan' : plan'[r] = plan[r]
    BY <1>8 DEF Rebase, Without
  <2>2. ASSUME faults' = 0, ~closed, NEW r \in Timed \cap Enabled'
        PROVE  items'[r].next + Grace >= boot \/ r \in DOMAIN plan'
    <3>1. SetDate(s, plan[s].next) /\ boot <= now
      BY <1>8, <2>1, <2>2 DEF Rebase, MissedInv
    <3>2. s \in Timed => plan[s].next \in Nat /\ plan[s].next >= boot
      BY <1>1, <2>1, <3>1, NumbersOf
    <3>3. plan[s].next \in Date
      BY <1>1, <2>1 DEF TypeOK, Todo, Date
    <3>4. CASE UNCHANGED store
      <4>1. CASE There(s)
        <5>1. items' = [items EXCEPT ![s].next = plan[s].next]
          BY <1>1, <1>2, <2>2, <3>1, <4>1, BoundAssumption DEF SetDate, Persist, TypeOK
        <5>2. items'[s].next = plan[s].next /\ items' = items /\ Enabled' = Enabled
          BY <1>1, <3>4, <4>1, <5>1, Kinds DEF TypeOK, Items, Schedule, Enabled, There
        <5>3. CASE r = s
          BY <1>1, <2>1, <2>2, <3>2, <5>2, <5>3, BoundAssumption DEF TypeOK
        <5>4. CASE r # s
          BY <1>2, <2>1, <2>2, <5>2, <5>4 DEF MissedInv
        <5> QED
          BY <5>3, <5>4
      <4>2. CASE ~There(s)
        BY <1>2, <2>1, <2>2, <3>4, <4>2 DEF MissedInv, Enabled, There
      <4> QED
        BY <4>1, <4>2
    <3>5. CASE ~UNCHANGED store
      <4> DEFINE item == [items[s] EXCEPT !.next = plan[s].next]
      <4>1. item \in AnyItem /\ Persist([items EXCEPT ![s] = item])
        BY <1>1, <3>1, <3>3, <3>5, DateWritten DEF AnyItem
      <4>2. item.next = plan[s].next
        BY <1>1, Kinds DEF AnyItem, Schedule, NoSchedule, Deleted
      <4> HIDE DEF item
      <4> QED
        BY <1>2, <2>1, <2>2, <3>2, <4>1, <4>2, GoodDate
    <3> QED
      BY <3>4, <3>5
  <2> QED
    BY <1>1, <2>1, <2>2 DEF MissedInv
<1>9. CASE Scan
  <2>1. /\ DOMAIN plan' = Due /\ \A s \in Due : plan'[s].due = items[s].next
        /\ Due \subseteq Enabled
    BY <1>1, <1>9, PlanType, Due \in SUBSET Enabled DEF Scan, Due
  <2>2. /\ UNCHANGED <<time, items, faults, closed, boot>> /\ now' = time /\ stage' = "scan"
        /\ stage \in {"rebase", "scan"} /\ DOMAIN plan = {} /\ ~closed
    BY <1>9, NothingPlanned DEF Scan
  <2>3. faults = 0 => \A s \in Timed \cap Enabled : items[s].next + Grace >= boot
    BY <2>2 DEF MissedInv
  <2> QED
    BY <1>1, <2>1, <2>2, <2>3 DEF MissedInv, Enabled, There
<1>10. ASSUME NEW s \in Schedules, Trigger(s) PROVE MissedInv'
  BY <1>10 DEF Trigger, MissedInv, Enabled, There
<1>11. CASE TriggerMark
  <2>1. /\ UNCHANGED <<time, now, closed, boot>> /\ stage = "mark" /\ stage' = "scan"
        /\ current \in DOMAIN plan /\ current \in Schedules /\ plan[current] \in Todo
        /\ DOMAIN plan' = DOMAIN plan \ {current}
        /\ \A r \in DOMAIN plan' : plan'[r] = plan[r]
    BY <1>1, <1>11 DEF TriggerMark, Without, TypeOK
  <2>2. ASSUME faults' = 0, ~closed, NEW r \in Timed \cap Enabled'
        PROVE  items'[r].next + Grace >= boot
    <3>1. SetDate(current, plan[current].next) /\ boot <= now
      BY <1>11, <2>1, <2>2 DEF TriggerMark, MissedInv
    <3>2. current \in Timed => plan[current].next \in Nat /\ plan[current].next >= boot
      BY <1>1, <2>1, <3>1, NumbersOf
    <3>3. plan[current].next \in Date
      BY <2>1 DEF Todo, Date
    <3>4. CASE UNCHANGED store
      BY <1>2, <2>1, <2>2, <3>4 DEF MissedInv, Enabled, There
    <3>5. CASE ~UNCHANGED store
      <4> DEFINE item == [items[current] EXCEPT !.next = plan[current].next]
      <4>1. item \in AnyItem /\ Persist([items EXCEPT ![current] = item])
        BY <1>1, <2>1, <3>1, <3>3, <3>5, DateWritten DEF AnyItem
      <4>2. item.next = plan[current].next
        BY <1>1, <2>1, Kinds DEF AnyItem, Schedule, NoSchedule, Deleted
      <4> HIDE DEF item
      <4> QED
        BY <1>2, <2>1, <2>2, <3>2, <4>1, <4>2, GoodDate
    <3> QED
      BY <3>4, <3>5
  <2> QED
    BY <1>1, <1>2, <2>1, <2>2 DEF MissedInv
<1>12. CASE Stop
  BY <1>12 DEF Stop, MissedInv
<1>13. CASE CloseService
  BY <1>13 DEF CloseService, MissedInv, Enabled, There
<1>14. CASE CrashAndRestart
  BY <1>14 DEF CrashAndRestart, MissedInv
<1>15. CASE UNCHANGED vars
  BY <1>15 DEF vars, MissedInv, Enabled, There
<1> QED
  BY <1>3, <1>4, <1>5, <1>6, <1>7, <1>8, <1>9, <1>10, <1>11, <1>12, <1>13, <1>14, <1>15
  DEF Next, RunnerStep, Quiet

\* Until a storage fault no run is started for a date missed by more than the
\* grace before the last start of the service (rebaselineSchedules).
THEOREM ScheduleMissedIsSkipped == Spec => MissedIsSkipped
<1>1. DatesInv /\ MissedInv /\ [Next]_vars =>
        [\A s \in Timed : Triggers(s) /\ faults = 0 => plan[s].due + Grace >= boot]_vars
  <2> SUFFICES ASSUME MissedInv, Next, NEW s \in Timed, Triggers(s), faults = 0
               PROVE  plan[s].due + Grace >= boot
    BY DEF Quiet
  <2>1. PICK r \in Schedules : Trigger(r)
    BY DEF Triggers, Next, RunnerStep, Tick, Change, RunSchedule, RunScheduleMark, CloseService,
       Boot, Scan, TriggerMark, Stop, Rebase, CrashAndRestart, Quiet, runner, vars
  <2>2. r = s
    BY <2>1 DEF Trigger, Triggers
  <2> QED
    BY <2>1, <2>2 DEF Trigger, MissedInv
<1>2. DatesInv /\ MissedInv /\ [Next]_vars => MissedInv'
  BY MissedStep
<1> QED
  BY <1>1, <1>2, MissedInit, DatesMoveAhead, PTL DEF Spec, MissedIsSkipped
=============================================================================
