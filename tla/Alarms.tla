------------------------------- MODULE Alarms -------------------------------
(***************************************************************************)
(* The alarm table as the protocols see it: rows that are given out and    *)
(* taken back by number (src/src/timer.c), each with the time left until   *)
(* its call.  UnixTimer has the threads and the clock arithmetic; here     *)
(* alarms are called on time, which is its OnTime, and one by one.         *)
(*                                                                         *)
(* An operator takes a table a and gives its next value.  An alarm is      *)
(* named by the callback and the id that SetAlarm is given.                *)
(***************************************************************************)
EXTENDS Integers

CONSTANTS
  MAX_NB_TIMER,  \* rows of the table
  NoAlarm        \* the callback of a free row

ASSUME AlarmsAssumption == MAX_NB_TIMER \in Nat \ {0}

TIMER_NONE == -1
Rows == 0 .. MAX_NB_TIMER - 1
Handles == Rows \cup {TIMER_NONE}

FreeRow == [alarm |-> NoAlarm, left |-> 0, interval |-> 0]

EmptyTable == [r \in Rows |-> FreeRow]

UsedRows(a) == {r \in Rows : a[r].alarm # NoAlarm}

\* The handle SetAlarm returns: the first free row, if there is one.
Allocated(a) ==
  IF UsedRows(a) = Rows THEN TIMER_NONE
  ELSE CHOOSE r \in Rows \ UsedRows(a) : \A q \in Rows \ UsedRows(a) : r <= q

SetAlarm(a, alarm, value, period) ==
  LET h == Allocated(a)
  IN  IF h = TIMER_NONE THEN a
      ELSE [a EXCEPT ![h] = [alarm |-> alarm, left |-> value, interval |-> period]]

\* Whoever owns the row.
DelAlarm(a, h) == IF h = TIMER_NONE THEN a ELSE [a EXCEPT ![h] = FreeRow]

Due(a, r) == r \in UsedRows(a) /\ a[r].left = 0

\* TimeDispatch, up to the call: one-shot rows are free, periodic ones armed.
Called(a, r) ==
  IF a[r].interval = 0 THEN [a EXCEPT ![r] = FreeRow]
  ELSE [a EXCEPT ![r].left = a[r].interval]

OneTickLater(a) ==
  [r \in Rows |-> IF a[r].left > 0 THEN [a[r] EXCEPT !.left = @ - 1] ELSE a[r]]

-----------------------------------------------------------------------------
(***************************************************************************)
(* The owners' side: a record d with an alarm table and a handle for each  *)
(* alarm.                                                                  *)
(***************************************************************************)
\* handle = SetAlarm(...), whatever the handle was.
Set(d, alarm, value, period) ==
  [d EXCEPT !.alarms = SetAlarm(@, alarm, value, period),
            !.handle[alarm] = Allocated(d.alarms)]

\* handle = DelAlarm(handle).
Del(d, alarm) ==
  [d EXCEPT !.alarms = DelAlarm(@, d.handle[alarm]), !.handle[alarm] = TIMER_NONE]

=============================================================================
