------------------------------ MODULE Recurrence ------------------------------
(***************************************************************************)
(* The recurrence of a schedule (src/src/domain/schedule.go).  Time is a   *)
(* number of units since a midnight that begins a Sunday; Day of them make *)
(* a day (1440 minutes in the code).  Clock changes are left out: a day    *)
(* always has the same length.                                             *)
(***************************************************************************)
EXTENDS Naturals

CONSTANT Day
ASSUME DayAssumption == Day \in Nat \ {0}

Weekdays == 0..6

Recurrence ==
    [frequency : {"interval"}, every : 1..(7 * Day)]
    \cup [frequency : {"daily"}, at : 0..(Day - 1)]
    \cup [frequency : {"weekly"}, at : 0..(Day - 1), days : (SUBSET Weekdays) \ {{}}]

\* The given time of the day that lies offset days after the day of t.
WallClock(t, offset, at) == (t \div Day + offset) * Day + at

Weekday(t) == (t \div Day) % 7

\* How many days ahead Next looks.
Horizon(q) == IF q.frequency = "daily" THEN 0..1 ELSE 0..7

Allowed(q, t) == q.frequency = "daily" \/ Weekday(t) \in q.days

\* Mutant: a candidate at this very moment counts as the next one.
NextDateOrNow(q, t) ==
    IF q.frequency = "interval" THEN t + q.every
    ELSE LET later == {o \in Horizon(q) : WallClock(t, o, q.at) >= t
                                          /\ Allowed(q, WallClock(t, o, q.at))}
             first == CHOOSE o \in later : \A p \in later : o <= p
         IN  WallClock(t, first, q.at)

\* The next date after t: the first candidate that is strictly later.
NextDate(q, t) ==
    IF q.frequency = "interval" THEN t + q.every
    ELSE LET later == {o \in Horizon(q) : WallClock(t, o, q.at) > t
                                          /\ Allowed(q, WallClock(t, o, q.at))}
             first == CHOOSE o \in later : \A p \in later : o <= p
         IN  WallClock(t, first, q.at)
=============================================================================
