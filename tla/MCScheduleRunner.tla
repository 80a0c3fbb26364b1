--------------------------- MODULE MCScheduleRunner ---------------------------
(* Days of two units, of which time sees a Sunday and a Monday.            *)
EXTENDS ScheduleRunner, TLC

CONSTANTS s1, s2

EveryUnit  == [frequency |-> "interval", every |-> 1]
Daily      == [frequency |-> "daily", at |-> 1]
FirstDays  == [frequency |-> "weekly", at |-> 1, days |-> {0, 1}]

DatesRecurrences  == {EveryUnit, FirstDays}
ManualRecurrences == {EveryUnit, Daily}
=============================================================================
