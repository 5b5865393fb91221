------------------------------- MODULE Timer -------------------------------
(***************************************************************************)
(* The alarm table of src/src/timer.c: SetAlarm, DelAlarm and the two      *)
(* passes of TimeDispatch, over the driver's two primitives setTimer and   *)
(* getElapsedTime.  The module gives the operations; UnixTimer composes    *)
(* them with the threads that call them.                                   *)
(*                                                                         *)
(* A row keeps state, callback, val and interval as in s_timer_entry; d    *)
(* and id are folded into the callback's identity.  The code leaves stale  *)
(* fields in a free row and never reads them, so a free row is FreeEntry.  *)
(***************************************************************************)
EXTENDS Integers

CONSTANTS
  MAX_NB_TIMER,  \* rows of the table
  TIMEVAL_MAX,   \* largest TIMEVAL, which is unsigned: arithmetic wraps
  UNS32_MAX,     \* largest UNS32, to which TimeDispatch casts
  Callbacks,     \* the (callback, d, id) triples users register
  NoCallback     \* NULL

ASSUME TableAssumption ==
  /\ MAX_NB_TIMER \in Nat \ {0}
  /\ TIMEVAL_MAX \in Nat /\ TIMEVAL_MAX > 1
  /\ UNS32_MAX \in Nat \ {0} /\ UNS32_MAX <= TIMEVAL_MAX \div 2
  /\ NoCallback \notin Callbacks

VARIABLES
  timers,            \* the table
  last_timer_raw,    \* highest row the loops look at, -1 for none
  total_sleep_time,  \* what the code believes the hardware timer was set to
  elapsed,           \* now - last_sig
  sample,            \* the difference getElapsedTime() computes, once it has the time
  remain,            \* time left on the hardware timer
  togo,              \* ghost: time the row's requested delay still has to run
  across             \* ghost: rows set while last_sig was stamped

tableVars == <<timers, last_timer_raw, total_sleep_time, remain, togo, across>>

-----------------------------------------------------------------------------
Rows == 0 .. MAX_NB_TIMER - 1
TIMER_NONE == -1
Handles == Rows \cup {TIMER_NONE}

FREE == "free"
ARMED == "armed"
TRIG == "trig"
TRIG_PERIOD == "trig_period"

\* The states with bit TIMER_ARMED and with bit TIMER_TRIG set.
ArmedBit == {ARMED, TRIG_PERIOD}
TrigBit == {TRIG, TRIG_PERIOD}

FreeEntry == [state |-> FREE, callback |-> NoCallback, val |-> 0, interval |-> 0]

Used(r) == timers[r].state # FREE

FirstFree(r) ==
  /\ r \in Rows
  /\ r <= last_timer_raw + 1
  /\ ~Used(r)
  /\ \A q \in Rows : q < r => Used(q)

(***************************************************************************)
(* getElapsedTime() takes the time, reads last_sig and subtracts.  A stamp *)
(* in between makes the difference negative; it is unsigned for SetAlarm,  *)
(* and TimeDispatch keeps the lower 32 bits.                               *)
(***************************************************************************)
Elapsed == sample % (TIMEVAL_MAX + 1)
Overrun == sample % (UNS32_MAX + 1)

(***************************************************************************)
(* setTimer(value).  A value of TIMEVAL_MAX is 584542 years, and beyond    *)
(* the half of it the timer is as good as disarmed.  A value of 0 is       *)
(* rounded up, and setting a deleted timer has no effect.                  *)
(***************************************************************************)
Farthest == TIMEVAL_MAX \div 2

Deleted == -1

AtLeastOne(value) == IF value = 0 THEN 1 ELSE value

setTimer(value) == remain' = IF remain = Deleted THEN Deleted ELSE AtLeastOne(value)

SleepsLonger(value) == total_sleep_time > Elapsed /\ total_sleep_time - Elapsed > value

ShortenSleepNoSet(value) ==
  /\ total_sleep_time' = IF SleepsLonger(value) THEN Elapsed + value ELSE total_sleep_time
  /\ remain' = remain

\* The wakeup is moved forward if the new alarm is sooner than the others.
ShortenSleep(value) ==
  IF SleepsLonger(value)
  THEN /\ total_sleep_time' = Elapsed + value
       /\ setTimer(value)
  ELSE UNCHANGED <<total_sleep_time, remain>>

GrowLastNever(handle) == last_timer_raw

GrowLast(handle) ==
  IF handle = last_timer_raw + 1 THEN handle ELSE last_timer_raw

SetAlarmRelative(cb, value, period, handle) ==
  \/ /\ FirstFree(handle)
     /\ last_timer_raw' = GrowLast(handle)
     /\ ShortenSleep(value)
     /\ timers' = [timers EXCEPT ![handle] =
                     [state |-> ARMED, callback |-> cb, val |-> value,
                      interval |-> period]]
     /\ togo' = [togo EXCEPT ![handle] = AtLeastOne(value)]
     /\ across' = IF sample < 0 THEN across \cup {handle} ELSE across \ {handle}
  \/ /\ handle = TIMER_NONE
     /\ \A r \in Rows : ~FirstFree(r)
     /\ UNCHANGED tableVars

\* The sum is unsigned.
RowVal(value) == (value + Elapsed) % (TIMEVAL_MAX + 1)

\* SetAlarm(d, id, callback, value, period) returning handle.
SetAlarm(cb, value, period, handle) ==
  \/ /\ FirstFree(handle)
     /\ last_timer_raw' = GrowLast(handle)
     /\ ShortenSleep(value)
     /\ timers' = [timers EXCEPT ![handle] =
                     [state |-> ARMED, callback |-> cb, val |-> RowVal(value),
                      interval |-> period]]
     /\ togo' = [togo EXCEPT ![handle] = AtLeastOne(value)]
     /\ across' = IF sample < 0 THEN across \cup {handle} ELSE across \ {handle}
  \/ /\ handle = TIMER_NONE
     /\ \A r \in Rows : ~FirstFree(r)
     /\ UNCHANGED tableVars

ShrinkLastAlways(handle) == last_timer_raw - 1

ShrinkLast(handle) ==
  IF handle = last_timer_raw THEN last_timer_raw - 1 ELSE last_timer_raw

\* DelAlarm(handle): the handle is not checked against an owner.
DelAlarm(handle) ==
  IF handle = TIMER_NONE
  THEN UNCHANGED tableVars
  ELSE /\ last_timer_raw' = ShrinkLast(handle)
       /\ timers' = [timers EXCEPT ![handle] = FreeEntry]
       /\ UNCHANGED <<total_sleep_time, remain, togo, across>>

\* What a period may be: TimeDispatch divides by its lower 32 bits.
Intervals == {p \in 0 .. Farthest : p # 0 => p % (UNS32_MAX + 1) # 0}

Entries ==
  [state : {FREE, ARMED, TRIG, TRIG_PERIOD}, callback : Callbacks \cup {NoCallback},
   val : 0 .. TIMEVAL_MAX, interval : Intervals]

TableTypeOK ==
  /\ timers \in [Rows -> Entries]
  /\ last_timer_raw \in -1 .. MAX_NB_TIMER - 1
  /\ total_sleep_time \in 0 .. TIMEVAL_MAX
  /\ remain \in {Deleted} \cup (1 .. TIMEVAL_MAX)
  /\ togo \in [Rows -> Int]
  /\ across \subseteq Rows

-----------------------------------------------------------------------------
(***************************************************************************)
(* TimeDispatch.  The first pass marks the rows that are due, takes the    *)
(* time slept off the others and programs the next wakeup.  overrun is     *)
(* (UNS32)getElapsedTime().                                                *)
(***************************************************************************)
RealSleep(overrun) == (total_sleep_time + overrun) % (TIMEVAL_MAX + 1)

Armed(r) == r <= last_timer_raw /\ timers[r].state \in ArmedBit

Due(r, overrun) == timers[r].val <= RealSleep(overrun)

\* (UNS32)row->interval.
Interval32(r) == timers[r].interval % (UNS32_MAX + 1)

PassOneRow(r, overrun) ==
  IF ~Armed(r) THEN timers[r]
  ELSE IF ~Due(r, overrun)
  THEN [timers[r] EXCEPT !.val = @ - RealSleep(overrun)]
  ELSE IF timers[r].interval = 0
  THEN [timers[r] EXCEPT !.state = TRIG]
  ELSE [timers[r] EXCEPT !.state = TRIG_PERIOD,
                         !.val = timers[r].interval - (overrun % Interval32(r))]

\* n is next_wakeup: the least val the first pass leaves in an armed row.
NextWakeupIgnoresPeriodic(n, overrun) ==
  LET wakes == {r \in Rows : Armed(r) /\ ~Due(r, overrun)}
  IN  /\ \A r \in wakes : n <= PassOneRow(r, overrun).val
      /\ n = TIMEVAL_MAX \/ \E r \in wakes : n = PassOneRow(r, overrun).val

NextWakeup(n, overrun) ==
  LET wakes == {r \in Rows : Armed(r) /\ (Due(r, overrun) => timers[r].interval # 0)}
  IN  /\ \A r \in wakes : n <= PassOneRow(r, overrun).val
      /\ n = TIMEVAL_MAX \/ \E r \in wakes : n = PassOneRow(r, overrun).val

PassOne(overrun) ==
  /\ \E n \in 0 .. TIMEVAL_MAX :
       /\ NextWakeup(n, overrun)
       /\ total_sleep_time' = n
       /\ setTimer(n)
  /\ timers' = [r \in Rows |-> PassOneRow(r, overrun)]
  /\ across' = {r \in across : ~(Armed(r) /\ Due(r, overrun))}
  /\ UNCHANGED <<last_timer_raw, togo>>

(***************************************************************************)
(* The second pass, at loop index i: row r is the next one with TRIG set.  *)
(* A one-shot row is free before its callback runs, a periodic one armed.  *)
(***************************************************************************)
NextTrig(i, r) ==
  /\ r \in Rows
  /\ i <= r
  /\ r <= last_timer_raw
  /\ timers[r].state \in TrigBit
  /\ \A q \in Rows : i <= q /\ q < r => timers[q].state \notin TrigBit

ClearTrigKeepsRow(r) == [timers[r] EXCEPT !.state = ARMED]

ClearTrig(r) ==
  IF timers[r].state = TRIG THEN FreeEntry ELSE [timers[r] EXCEPT !.state = ARMED]

Trigger(r) ==
  /\ timers' = [timers EXCEPT ![r] = ClearTrig(r)]
  /\ togo' = [togo EXCEPT ![r] = timers[r].interval]
  /\ UNCHANGED <<last_timer_raw, total_sleep_time, remain, across>>

=============================================================================
