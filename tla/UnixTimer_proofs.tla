-------------------------- MODULE UnixTimer_proofs --------------------------
(***************************************************************************)
(* Proofs about UnixTimer, for every table size, every set of users, every *)
(* number of threads and every bound on time.                              *)
(***************************************************************************)
EXTENDS UnixTimer, WellFoundedInduction, TLAPS

USE DEF FREE, ARMED, TRIG, TRIG_PERIOD, TIMER_NONE, Unlocked, CanThread,
        MainThread, TimerThread, Deleted, FirstPass

-----------------------------------------------------------------------------
(***************************************************************************)
(* Arithmetic and order.                                                   *)
(***************************************************************************)
\* A non-empty set of naturals has a least element: what the scans of
\* SetAlarm and of TimeDispatch's second pass rely on.
LEMMA LeastNat ==
  ASSUME NEW T, T \subseteq Nat, T # {}
  PROVE  \E n \in T : \A m \in T : n <= m
<1>1. IsWellFoundedOn(OpToRel(<, Nat), Nat)
  BY NatLessThanWellFounded, Zenon
<1>2. PICK n \in T : \A m \in T : ~(<<m, n>> \in OpToRel(<, Nat))
  BY <1>1, WFMin, Zenon
<1>3. \A m \in T : ~(m < n)
  BY <1>2, Zenon DEF OpToRel
<1>4. ASSUME NEW m \in T PROVE n <= m
  <2>1. m \in Nat /\ n \in Nat
    BY <1>2
  <2> QED BY <1>3, <2>1
<1> QED BY <1>2, <1>4

\* The remainder the casts, the periodic reload and the unsigned sums compute.
LEMMA Remainder ==
  ASSUME NEW a \in Int, NEW b \in Nat \ {0}
  PROVE  a % b \in 0 .. b - 1
  OBVIOUS

LEMMA RemainderOfSmall ==
  ASSUME NEW b \in Nat \ {0}, NEW a \in 0 .. b - 1
  PROVE  a % b = a
  OBVIOUS

LEMMA RemainderBelow ==
  ASSUME NEW a \in Nat, NEW b \in Nat \ {0}
  PROVE  a % b <= a
  OBVIOUS

\* Twice half the range of TIMEVAL is still within it.
LEMMA HalfTheRange ==
  /\ Farthest \in Nat \ {0}
  /\ 2 * Farthest <= TIMEVAL_MAX
  /\ Farthest < TIMEVAL_MAX
  /\ UNS32_MAX <= Farthest
  BY TableAssumption DEF Farthest

-----------------------------------------------------------------------------
(***************************************************************************)
(* The operations of the table keep its type.                              *)
(***************************************************************************)
\* SetAlarm keeps the table well typed, whatever the difference it computes.
LEMMA SetAlarmType ==
  ASSUME TableTypeOK, NEW cb \in Callbacks, NEW value \in 0 .. Farthest,
         NEW period \in Intervals, NEW h \in Handles, sample \in Int,
         SetAlarm(cb, value, period, h)
  PROVE  TableTypeOK'
<1> USE TableAssumption
<1>0. Farthest \in Nat \ {0} /\ Farthest < TIMEVAL_MAX
  BY HalfTheRange
<1>1. CASE h = TIMER_NONE /\ UNCHANGED tableVars
  BY <1>1 DEF TableTypeOK, tableVars
<1>2. CASE FirstFree(h)
  <2> USE <1>2 DEF FirstFree
  <2>0. Elapsed \in 0 .. TIMEVAL_MAX /\ RowVal(value) \in 0 .. TIMEVAL_MAX
    <3>1. Elapsed \in 0 .. TIMEVAL_MAX
      BY Remainder DEF Elapsed
    <3>2. value + Elapsed \in Int
      BY <1>0, <3>1
    <3> QED BY <3>1, <3>2, Remainder DEF RowVal
  <2>1. timers' \in [Rows -> Entries]
    <3>1. [state |-> ARMED, callback |-> cb, val |-> RowVal(value), interval |-> period]
            \in Entries
      BY <2>0 DEF Entries
    <3>2. timers' = [timers EXCEPT ![h] = [state |-> ARMED, callback |-> cb,
                                val |-> RowVal(value), interval |-> period]]
      BY DEF SetAlarm, Rows
    <3> QED BY <3>1, <3>2 DEF TableTypeOK
  <2>2. last_timer_raw' \in -1 .. MAX_NB_TIMER - 1
    BY DEF SetAlarm, GrowLast, TableTypeOK, Rows
  <2>3. /\ total_sleep_time' \in 0 .. TIMEVAL_MAX
        /\ remain' \in {Deleted} \cup (1 .. TIMEVAL_MAX)
    BY <1>0, <2>0 DEF SetAlarm, ShortenSleep, SleepsLonger, setTimer, AtLeastOne,
                      TableTypeOK, Rows
  <2>4. h # TIMER_NONE
    BY DEF Rows
  <2>5. togo' \in [Rows -> Int]
    <3>1. togo' = [togo EXCEPT ![h] = AtLeastOne(value)] /\ AtLeastOne(value) \in Int
      BY <1>0, <2>4 DEF SetAlarm, AtLeastOne
    <3> QED BY <3>1 DEF TableTypeOK
  <2>6. across' \subseteq Rows
    BY <2>4 DEF SetAlarm, TableTypeOK
  <2> QED BY <2>1, <2>2, <2>3, <2>5, <2>6 DEF TableTypeOK
<1> QED BY <1>1, <1>2 DEF SetAlarm

\* A free row is well typed.
LEMMA FreeEntryType == FreeEntry \in Entries
  BY TableAssumption, HalfTheRange DEF FreeEntry, Entries, Intervals

\* DelAlarm keeps the table well typed when the last row is used no higher.
LEMMA DelAlarmType ==
  ASSUME TableTypeOK, NEW h \in Handles, DelAlarm(h)
  PROVE  TableTypeOK'
<1> USE TableAssumption
<1>1. CASE h = TIMER_NONE
  BY <1>1 DEF DelAlarm, TableTypeOK, tableVars
<1>2. CASE h \in Rows
  <2>1. FreeEntry \in Entries
    BY FreeEntryType
  <2>2. timers' = [timers EXCEPT ![h] = FreeEntry]
    BY <1>2 DEF DelAlarm, Rows
  <2>3. timers' \in [Rows -> Entries]
    BY <2>1, <2>2 DEF TableTypeOK
  <2>4. h # TIMER_NONE
    BY <1>2 DEF Rows
  <2>5. UNCHANGED <<total_sleep_time, remain, togo, across>>
    BY <2>4 DEF DelAlarm
  <2>6. last_timer_raw' \in -1 .. MAX_NB_TIMER - 1
    BY <1>2, <2>4 DEF DelAlarm, ShrinkLast, TableTypeOK, Rows
  <2> QED BY <2>3, <2>5, <2>6 DEF TableTypeOK
<1> QED BY <1>1, <1>2 DEF Handles

\* The next val of a periodic row is not 0 and not more than its period: what
\* is left of the period in 32 bits is not 0.
LEMMA ReloadFits ==
  ASSUME NEW e \in Nat, NEW p \in Nat, NEW m \in Nat \ {0}, p % m # 0
  PROVE  p - (e % (p % m)) \in 1 .. p
<1> DEFINE b == p % m
           c == e % b
<1>1. b \in 0 .. m - 1 /\ b <= p /\ b # 0
  <2>1. p % m \in 0 .. m - 1
    BY Remainder
  <2>2. p % m <= p
    BY RemainderBelow
  <2> QED BY <2>1, <2>2
<1> HIDE DEF b
<1>2. b \in Nat \ {0}
  BY <1>1
<1>3. c \in 0 .. b - 1
  BY <1>2, Remainder
<1> HIDE DEF c
<1>4. p - c \in 1 .. p
  BY <1>1, <1>2, <1>3
<1> QED BY <1>4 DEF b, c

LEMMA Reloaded ==
  ASSUME NEW e \in Nat, NEW r \in Rows, timers[r].interval \in Intervals \ {0}
  PROVE  timers[r].interval - (e % Interval32(r)) \in 1 .. timers[r].interval
<1>1. /\ timers[r].interval \in Nat
      /\ timers[r].interval % (UNS32_MAX + 1) # 0
  BY HalfTheRange DEF Intervals
<1>2. UNS32_MAX + 1 \in Nat \ {0}
  BY TableAssumption
<1> QED BY <1>1, <1>2, ReloadFits DEF Interval32

\* What the first pass writes into a row.
LEMMA PassOneRowType ==
  ASSUME TableTypeOK, NEW e \in Nat, NEW r \in Rows
  PROVE  PassOneRow(r, e) \in Entries
<1> USE TableAssumption
<1>1. timers[r] \in Entries
  BY DEF TableTypeOK
<1>2. RealSleep(e) \in Nat
  BY Remainder DEF RealSleep, TableTypeOK
<1>3. CASE ~Armed(r)
  BY <1>1, <1>3 DEF PassOneRow
<1>4. CASE Armed(r) /\ ~Due(r, e)
  BY <1>1, <1>2, <1>4 DEF PassOneRow, Due, Entries
<1>5. CASE Armed(r) /\ Due(r, e) /\ timers[r].interval = 0
  BY <1>1, <1>5 DEF PassOneRow, Entries
<1>6. CASE Armed(r) /\ Due(r, e) /\ timers[r].interval # 0
  <2>1. timers[r].interval \in Intervals \ {0} /\ timers[r].interval \in 0 .. Farthest
    BY <1>1, <1>6 DEF Entries, Intervals
  <2>2. timers[r].interval - (e % Interval32(r)) \in 1 .. timers[r].interval
    BY <2>1, Reloaded
  <2>3. timers[r].interval - (e % Interval32(r)) \in 0 .. TIMEVAL_MAX
    BY <2>1, <2>2, HalfTheRange
  <2> QED BY <1>1, <1>6, <2>3 DEF PassOneRow, Entries
<1> QED BY <1>3, <1>4, <1>5, <1>6

\* The first pass of TimeDispatch keeps the table well typed.
LEMMA PassOneType ==
  ASSUME TableTypeOK, NEW e \in Nat, PassOne(e)
  PROVE  TableTypeOK'
<1> USE TableAssumption
<1>1. timers' \in [Rows -> Entries]
  BY PassOneRowType DEF PassOne
<1>2. /\ total_sleep_time' \in 0 .. TIMEVAL_MAX
      /\ remain' \in {Deleted} \cup (1 .. TIMEVAL_MAX)
      /\ across' \subseteq Rows
  BY DEF PassOne, setTimer, AtLeastOne, TableTypeOK
<1> QED BY <1>1, <1>2 DEF PassOne, TableTypeOK

\* Calling a triggered row keeps the table well typed.
LEMMA TriggerType ==
  ASSUME TableTypeOK, NEW r \in Rows, Trigger(r)
  PROVE  TableTypeOK'
<1>1. ClearTrig(r) \in Entries
  BY FreeEntryType DEF ClearTrig, TableTypeOK, Entries
<1>2. timers[r].interval \in Int
  BY HalfTheRange DEF TableTypeOK, Entries, Intervals
<1> QED BY <1>1, <1>2 DEF Trigger, TableTypeOK

-----------------------------------------------------------------------------
(***************************************************************************)
(* Type correctness of the driver.                                         *)
(***************************************************************************)
\* The delays users ask for, added to the time since last_sig, do not wrap.
LEMMA DelaysFit ==
  /\ \A v \in Values \cup Periods \cup {0} : v \in 0 .. Farthest /\ MaxSample + v <= Farthest
  /\ MaxSample \in Nat /\ MaxElapsed \in Nat /\ MaxElapsed <= MaxSample
  /\ Periods \subseteq Intervals /\ 0 \in Intervals
  BY UnixTimerAssumption, TableAssumption, HalfTheRange DEF Intervals

\* What getElapsedTime returns to SetAlarm is within TIMEVAL.
LEMMA ElapsedType ==
  ASSUME sample \in Int
  PROVE  Elapsed \in 0 .. TIMEVAL_MAX
<1>1. TIMEVAL_MAX + 1 \in Nat \ {0} /\ TIMEVAL_MAX \in Nat
  BY TableAssumption
<1>2. Elapsed \in 0 .. (TIMEVAL_MAX + 1) - 1
  BY <1>1, Remainder DEF Elapsed
<1> QED BY <1>1, <1>2

\* TimeDispatch's cast leaves a natural number.
LEMMA OverrunType ==
  ASSUME sample \in Int
  PROVE  Overrun \in 0 .. UNS32_MAX
<1>1. UNS32_MAX + 1 \in Nat \ {0} /\ UNS32_MAX \in Nat
  BY TableAssumption
<1>2. Overrun \in 0 .. (UNS32_MAX + 1) - 1
  BY <1>1, Remainder DEF Overrun
<1> QED BY <1>1, <1>2

\* Every variable keeps its type.
THEOREM TypeCorrect == Spec => []TypeOK
<1> USE TableAssumption, UnixTimerAssumption
<1>1. Init => TypeOK
  <2> SUFFICES ASSUME Init PROVE TypeOK
    OBVIOUS
  <2>1. FreeEntry \in Entries
    BY FreeEntryType
  <2>2. TableTypeOK
    BY <2>1 DEF Init, TableTypeOK
  <2>3. handle \in [Users -> Handles]
    BY DEF Init, Handles
  <2>4. /\ elapsed \in 0 .. MaxElapsed
        /\ loop \in {FirstPass} \cup (0 .. MAX_NB_TIMER)
        /\ sample \in Int /\ sample <= MaxSample
    BY DEF Init
  <2>5. started \in BOOLEAN
    BY DEF Init
  <2> QED BY <2>2, <2>3, <2>4, <2>5 DEF Init, TypeOK
<1>2. TypeOK /\ [Next]_vars => TypeOK'
  <2> SUFFICES ASSUME TypeOK, [Next]_vars
               PROVE  TypeOK'
    OBVIOUS
  <2> USE DEF TypeOK
  <2>0. elapsed \in Int /\ elapsed <= MaxSample
    OBVIOUS
  <2>1. CASE Tick
    <3>1. elapsed' \in 0 .. MaxElapsed
      BY <2>1 DEF Tick
    <3>2. TableTypeOK'
      BY <2>1, HalfTheRange DEF Tick, TableTypeOK, HardwareRuns
    <3> QED BY <2>1, <3>1, <3>2 DEF Tick
  <2>2. CASE Stamp
    <3>1. sample' \in Int /\ sample' <= MaxSample
      BY <2>0, <2>2 DEF Stamp
    <3>2. TableTypeOK'
      BY <2>2 DEF Stamp, tableVars, TableTypeOK
    <3> QED BY <2>2, <3>1, <3>2 DEF Stamp
  <2>3. CASE EnterDispatch
    BY <2>0, <2>3 DEF EnterDispatch, tableVars, TableTypeOK
  <2>4. CASE Dispatch
    <3>1. Overrun \in Nat
      BY OverrunType
    <3>2. TableTypeOK'
      BY <2>4, <3>1, PassOneType DEF Dispatch
    <3> QED BY <2>4, <3>2 DEF Dispatch
  <2>5. ASSUME NEW r \in Rows, Call(r) PROVE TypeOK'
    <3>1. TableTypeOK'
      BY <2>5, TriggerType DEF Call
    <3>2. timers[r].callback \in Callbacks \cup {NoCallback}
      BY DEF TableTypeOK, Entries
    <3>3. handle' \in [Users -> Handles]
      BY <2>5 DEF Call, CallForgetsHandle, Handles
    <3> QED BY <2>5, <3>1, <3>2, <3>3 DEF Call, Rows, readVars
  <2>6. CASE CallbackReturns
    BY <2>6 DEF CallbackReturns, tableVars, readVars, TableTypeOK
  <2>7. CASE DispatchEnds
    BY <2>7 DEF DispatchEnds, tableVars, readVars, TableTypeOK
  <2>8. CASE StartTimerLoop
    BY <2>0, <2>8 DEF EnterMutex, StartTimerLoop, tableVars, TableTypeOK
  <2>9. CASE InitArmed
    <3>1. TableTypeOK'
      BY <2>9, SetAlarmType, DelaysFit DEF InitArmed
    <3> QED BY <2>9, <3>1 DEF InitArmed
  <2>10. CASE StopTimerLoop
    BY <2>10 DEF EnterMutex, StopTimerLoop, readVars, TableTypeOK
  <2>11. CASE ReceiveFrame
    BY <2>11 DEF EnterMutex, ReceiveFrame, tableVars, readVars, TableTypeOK
  <2>12. CASE LeaveMutex
    BY <2>12 DEF LeaveMutex, tableVars, readVars, TableTypeOK
  <2>13. ASSUME NEW u \in Users, CallSetAlarm(u) PROVE TypeOK'
    BY <2>0, <2>13 DEF CallSetAlarm, tableVars, threadVars, TableTypeOK
  <2>14. ASSUME NEW u \in Users, NEW v \in Values, NEW p \in Periods, Arm(u, v, p)
         PROVE TypeOK'
    <3>1. PICK h \in Handles : /\ SetAlarm(u, v, p, h)
                               /\ handle' = [handle EXCEPT ![u] = h]
      BY <2>14 DEF Arm
    <3>2. v \in 0 .. Farthest /\ p \in Intervals
      BY DelaysFit
    <3>3. TableTypeOK'
      BY <3>1, <3>2, SetAlarmType
    <3> QED BY <2>14, <3>1, <3>3 DEF Arm, threadVars
  <2>15. ASSUME NEW u \in Users, Cancel(u) PROVE TypeOK'
    <3>1. TableTypeOK'
      BY <2>15, DelAlarmType DEF Cancel
    <3> QED BY <2>15, <3>1 DEF Cancel, threadVars, readVars, Handles
  <2>16. CASE UNCHANGED vars
    BY <2>16 DEF vars, tableVars, threadVars, readVars, TableTypeOK
  <2> QED BY <2>1, <2>2, <2>3, <2>4, <2>5, <2>6, <2>7, <2>8, <2>9, <2>10,
             <2>11, <2>12, <2>13, <2>14, <2>15, <2>16 DEF Next
<1> QED BY <1>1, <1>2, PTL DEF Spec

-----------------------------------------------------------------------------
(***************************************************************************)
(* What a step does to the table.                                          *)
(***************************************************************************)
\* Every step changes the table by one of the module Timer's operations, or
\* not at all.
LEMMA TableSteps ==
  ASSUME TypeOK, [Next]_vars
  PROVE  \/ UNCHANGED <<timers, last_timer_raw>>
         \/ \E cb \in Callbacks, v \in Nat, p \in Nat, h \in Handles : SetAlarm(cb, v, p, h)
         \/ \E h \in Rows : DelAlarm(h)
         \/ PassOne(Overrun)
         \/ \E r \in Rows : NextTrig(loop, r) /\ Trigger(r)
<1> USE UnixTimerAssumption
<1>1. CASE \/ Tick \/ Stamp \/ EnterDispatch \/ CallbackReturns \/ DispatchEnds
           \/ StartTimerLoop \/ StopTimerLoop \/ ReceiveFrame \/ LeaveMutex \/ UNCHANGED vars
  BY <1>1 DEF Tick, Stamp, EnterDispatch, CallbackReturns, DispatchEnds, StartTimerLoop,
              StopTimerLoop, EnterMutex, ReceiveFrame, LeaveMutex, vars, tableVars
<1>2. CASE Dispatch
  BY <1>2 DEF Dispatch
<1>3. ASSUME NEW r \in Rows, Call(r)
      PROVE  NextTrig(loop, r) /\ Trigger(r)
  BY <1>3 DEF Call
<1>4. CASE InitArmed
  <2>1. InitCallback \in Callbacks /\ 0 \in Nat
    OBVIOUS
  <2> QED BY <1>4, <2>1 DEF InitArmed
<1>5. ASSUME NEW u \in Users, NEW v \in Values, NEW p \in Periods, Arm(u, v, p)
      PROVE  \E h \in Handles : SetAlarm(u, v, p, h)
  BY <1>5 DEF Arm
<1>6. ASSUME NEW u \in Users, Cancel(u)
      PROVE  \E h \in Rows : DelAlarm(h)
  BY <1>6 DEF Cancel, TypeOK, Handles
<1>7. ASSUME NEW u \in Users, CallSetAlarm(u)
      PROVE  UNCHANGED <<timers, last_timer_raw>>
  BY <1>7 DEF CallSetAlarm, tableVars
<1>8. Users \subseteq Callbacks /\ Values \subseteq Nat /\ Periods \subseteq Nat
  OBVIOUS
<1> QED BY <1>1, <1>2, <1>3, <1>4, <1>5, <1>6, <1>7, <1>8 DEF Next

-----------------------------------------------------------------------------
\* No used row is ever above last_timer_raw.
THEOREM RowsWithinLast == Spec => []AboveLastFree
<1> USE TableAssumption
<1>1. Init => AboveLastFree
  BY DEF Init, AboveLastFree, Used, FreeEntry
<1>2. TypeOK /\ AboveLastFree /\ [Next]_vars => AboveLastFree'
  <2> SUFFICES ASSUME TypeOK, AboveLastFree, [Next]_vars, NEW q \in Rows,
                      q > last_timer_raw'
               PROVE  timers'[q].state = FREE
    BY DEF AboveLastFree, Used
  <2> USE DEF AboveLastFree, Used
  <2>0. /\ timers \in [Rows -> Entries]
        /\ last_timer_raw \in Int
        /\ q \in Int
    BY DEF TypeOK, TableTypeOK, Rows
  <2>1. CASE UNCHANGED <<timers, last_timer_raw>>
    BY <2>1
  <2>2. ASSUME NEW cb \in Callbacks, NEW v \in Nat, NEW p \in Nat, NEW h \in Handles,
               SetAlarm(cb, v, p, h)
        PROVE  timers'[q].state = FREE
    <3>1. CASE UNCHANGED tableVars
      BY <3>1 DEF tableVars
    <3>2. CASE FirstFree(h)
      <4>1. h \in Int /\ h <= last_timer_raw'
        BY <2>0, <2>2, <3>2 DEF SetAlarm, FirstFree, GrowLast, Rows
      <4>2. q # h /\ q > last_timer_raw
        BY <2>0, <2>2, <3>2, <4>1 DEF SetAlarm, FirstFree, GrowLast, Rows
      <4>3. timers'[q] = timers[q]
        BY <2>0, <2>2, <3>2, <4>2 DEF SetAlarm, FirstFree, Rows
      <4> QED BY <4>2, <4>3
    <3> QED BY <2>2, <3>1, <3>2 DEF SetAlarm
  <2>3. ASSUME NEW h \in Rows, DelAlarm(h)
        PROVE  timers'[q].state = FREE
    <3>1. timers' = [timers EXCEPT ![h] = FreeEntry]
      BY <2>3 DEF DelAlarm, Rows
    <3>2. CASE q = h
      BY <2>0, <3>1, <3>2 DEF FreeEntry
    <3>3. CASE q # h
      <4>1. q > last_timer_raw
        BY <2>0, <2>3, <3>3 DEF DelAlarm, ShrinkLast, Rows
      <4> QED BY <2>0, <3>1, <3>3, <4>1
    <3> QED BY <3>2, <3>3
  <2>4. CASE PassOne(Overrun)
    <3>1. q > last_timer_raw /\ timers'[q] = PassOneRow(q, Overrun)
      BY <2>4 DEF PassOne
    <3>2. ~Armed(q)
      BY <2>0, <3>1 DEF Armed
    <3> QED BY <3>1, <3>2 DEF PassOneRow
  <2>5. ASSUME NEW r \in Rows, NextTrig(loop, r), Trigger(r)
        PROVE  timers'[q].state = FREE
    <3>1. q > last_timer_raw /\ r \in Int /\ q # r
      BY <2>0, <2>5 DEF Trigger, NextTrig, Rows
    <3> QED BY <2>0, <2>5, <3>1 DEF Trigger
  <2> QED BY <2>1, <2>2, <2>3, <2>4, <2>5, TableSteps
<1> QED BY <1>1, <1>2, TypeCorrect, PTL DEF Spec

\* SetAlarm refuses an alarm only when the table is full.
THEOREM RefusalMeansFull == Spec => []RefusedOnlyWhenFull
<1>1. TypeOK /\ AboveLastFree => RefusedOnlyWhenFull
  <2> SUFFICES ASSUME TypeOK, AboveLastFree, NEW q \in Rows, ~Used(q)
               PROVE  \E r \in Rows : FirstFree(r)
    BY DEF RefusedOnlyWhenFull
  <2> DEFINE T == {r \in Rows : ~Used(r)}
  <2>1. PICK r \in T : \A m \in T : r <= m
    <3>1. T \subseteq Nat /\ T # {}
      BY TableAssumption DEF Rows
    <3> HIDE DEF T
    <3> QED BY <3>1, LeastNat
  <2>2. \A p \in Rows : p < r => Used(p)
    BY <2>1 DEF Rows
  <2>3. r <= last_timer_raw + 1
    <3>1. last_timer_raw + 1 \in T \/ last_timer_raw = MAX_NB_TIMER - 1
      BY TableAssumption DEF AboveLastFree, TypeOK, TableTypeOK, Rows
    <3> QED BY <2>1, <3>1, TableAssumption DEF Rows
  <2> QED BY <2>1, <2>2, <2>3 DEF FirstFree
<1> QED BY <1>1, TypeCorrect, RowsWithinLast, PTL

\* NoRowIsLost: what timer.c:32 and timer.c:109 do to last_timer_raw loses
\* no row, used or free.
THEOREM TableIsSound == Spec => []NoRowIsLost
BY RowsWithinLast, RefusalMeansFull, PTL DEF NoRowIsLost

-----------------------------------------------------------------------------
\* Whoever is inside SetAlarm or in the first pass holds the mutex.
MutexHeld ==
  /\ loop = FirstPass => mutex = TimerThread
  /\ caller # NoCallback => mutex # Unlocked /\ (mutex = TimerThread => running # NoCallback)
  /\ caller = InitCallback => mutex = MainThread

LEMMA MutexInvariant == Spec => []MutexHeld
<1> USE TableAssumption, UnixTimerAssumption
<1>1. Init => MutexHeld
  BY DEF Init, MutexHeld
<1>2. TypeOK /\ MutexHeld /\ [Next]_vars => MutexHeld'
  <2> SUFFICES ASSUME TypeOK, MutexHeld, [Next]_vars
               PROVE  MutexHeld'
    OBVIOUS
  <2> USE DEF MutexHeld
  <2>1. CASE Tick \/ Stamp \/ EnterDispatch \/ Dispatch
    BY <2>1 DEF Tick, Stamp, EnterDispatch, Dispatch
  <2>2. ASSUME NEW r \in Rows, Call(r) PROVE MutexHeld'
    BY <2>2 DEF Call, readVars, Rows
  <2>3. CASE CallbackReturns \/ LeaveMutex \/ UNCHANGED vars
    BY <2>3 DEF CallbackReturns, LeaveMutex, vars, readVars, threadVars
  <2>4. CASE StartTimerLoop \/ InitArmed \/ StopTimerLoop \/ ReceiveFrame
    BY <2>4 DEF StartTimerLoop, InitArmed, StopTimerLoop, ReceiveFrame, EnterMutex, readVars
  <2>5. ASSUME NEW u \in Users, CallSetAlarm(u) \/ Cancel(u) PROVE MutexHeld'
    BY <2>5 DEF CallSetAlarm, Cancel, InUserCode, readVars, threadVars
  <2>6. ASSUME NEW u \in Users, NEW v \in Values, NEW p \in Periods, Arm(u, v, p)
        PROVE  MutexHeld'
    BY <2>6 DEF Arm, threadVars
  <2>7. CASE DispatchEnds
    BY <2>7 DEF DispatchEnds, readVars
  <2> QED BY <2>1, <2>2, <2>3, <2>4, <2>5, <2>6, <2>7 DEF Next
<1> QED BY <1>1, <1>2, TypeCorrect, PTL DEF Spec

\* A triggered row is called by the dispatch that triggered it.  The end of
\* the second pass needs that no triggered row is above last_timer_raw.
THEOREM TriggersAreCalled == Spec => []NoTriggerLeftBehind
<1> USE TableAssumption
<1>1. Init => NoTriggerLeftBehind
  BY DEF Init, NoTriggerLeftBehind, FreeEntry, TrigBit
<1>2. TypeOK /\ AboveLastFree /\ MutexHeld /\ NoTriggerLeftBehind /\ [Next]_vars => NoTriggerLeftBehind'
  <2> SUFFICES ASSUME TypeOK, AboveLastFree, MutexHeld, NoTriggerLeftBehind, [Next]_vars,
                      NEW q \in Rows, timers'[q].state \in TrigBit
               PROVE  mutex' = TimerThread /\ loop' <= q
    BY DEF NoTriggerLeftBehind
  <2> USE DEF NoTriggerLeftBehind, TrigBit
  <2>0. /\ timers \in [Rows -> Entries]
        /\ last_timer_raw \in Int
        /\ q \in Int
        /\ loop \in Int
    BY DEF TypeOK, TableTypeOK, Rows
  <2>1. CASE \/ Tick \/ Stamp \/ CallbackReturns \/ UNCHANGED vars
    BY <2>0, <2>1 DEF Tick, Stamp, CallbackReturns, vars, tableVars, threadVars
  <2>2. CASE EnterDispatch \/ StartTimerLoop \/ StopTimerLoop \/ ReceiveFrame \/ LeaveMutex
    BY <2>0, <2>2 DEF EnterDispatch, StartTimerLoop, StopTimerLoop, EnterMutex, ReceiveFrame,
                      LeaveMutex, tableVars
  <2>3. CASE Dispatch
    BY <2>0, <2>3 DEF Dispatch, MutexHeld, Rows
  <2>4. ASSUME NEW r \in Rows, Call(r)
        PROVE  mutex' = TimerThread /\ loop' <= q
    <3>1. timers' = [timers EXCEPT ![r] = ClearTrig(r)]
      BY <2>4 DEF Call, Trigger
    <3>2. timers'[r].state \notin TrigBit
      BY <2>0, <3>1 DEF ClearTrig, FreeEntry, Entries
    <3>3. q # r /\ timers[q].state \in TrigBit
      BY <2>0, <3>1, <3>2
    <3>4. loop <= q
      BY <3>3
    <3>5. r < q
      BY <2>0, <2>4, <3>3, <3>4 DEF Call, NextTrig, Rows
    <3> QED BY <2>0, <2>4, <3>5 DEF Call, Rows
  <2>5. CASE DispatchEnds
    <3>1. timers[q].state \in TrigBit /\ loop <= q
      BY <2>5 DEF DispatchEnds, tableVars
    <3>2. q <= last_timer_raw
      BY <2>0, <3>1 DEF AboveLastFree, Used
    <3> DEFINE T == {r \in Rows : loop <= r /\ timers[r].state \in TrigBit}
    <3>3. PICK r \in T : \A m \in T : r <= m
      <4>1. T \subseteq Nat /\ T # {}
        BY <3>1 DEF Rows
      <4> HIDE DEF T
      <4> QED BY <4>1, LeastNat
    <3>4. r \in Rows /\ loop <= r /\ timers[r].state \in TrigBit /\ r <= q
      BY <3>1, <3>3
    <3>5. \A p \in Rows : loop <= p /\ p < r => timers[p].state \notin TrigBit
      BY <3>3 DEF Rows
    <3>6. r <= last_timer_raw
      BY <2>0, <3>2, <3>4 DEF Rows
    <3>7. NextTrig(loop, r)
      BY <3>4, <3>5, <3>6 DEF NextTrig
    <3> QED BY <2>5, <3>4, <3>7 DEF DispatchEnds
  <2>6. ASSUME NEW cb, NEW v, NEW p, NEW h, SetAlarm(cb, v, p, h)
        PROVE  timers[q].state \in TrigBit
    BY <2>0, <2>6 DEF SetAlarm, tableVars, FirstFree
  <2>7. CASE InitArmed
    <3>1. timers[q].state \in TrigBit /\ mutex = MainThread
      BY <2>6, <2>7, UnixTimerAssumption DEF InitArmed, MutexHeld
    <3> QED BY <3>1
  <2>8. ASSUME NEW u \in Users, NEW v \in Values, NEW p \in Periods, Arm(u, v, p)
        PROVE  mutex' = TimerThread /\ loop' <= q
    <3>1. timers[q].state \in TrigBit
      BY <2>6, <2>8 DEF Arm
    <3> QED BY <2>8, <3>1 DEF Arm, threadVars
  <2>9. ASSUME NEW u \in Users, Cancel(u)
        PROVE  mutex' = TimerThread /\ loop' <= q
    <3>1. timers[q].state \in TrigBit
      BY <2>0, <2>9 DEF Cancel, DelAlarm, FreeEntry, tableVars
    <3> QED BY <2>9, <3>1 DEF Cancel, threadVars
  <2>10. ASSUME NEW u \in Users, CallSetAlarm(u)
         PROVE  mutex' = TimerThread /\ loop' <= q
    BY <2>10 DEF CallSetAlarm, tableVars, threadVars
  <2> QED BY <2>1, <2>2, <2>3, <2>4, <2>5, <2>7, <2>8, <2>9, <2>10 DEF Next
<1> QED BY <1>1, <1>2, TypeCorrect, RowsWithinLast, MutexInvariant, PTL DEF Spec

-----------------------------------------------------------------------------
(***************************************************************************)
(* Ownership.  A callback occupies one row at most, init_callback none     *)
(* before StartTimerLoop; and nobody calls SetAlarm who has an alarm.      *)
(***************************************************************************)
RowsDistinct ==
  \A r, q \in Rows : Used(r) /\ Used(q) /\ timers[r].callback = timers[q].callback => r = q

UsedRowsCallSomebody == \A r \in Rows : Used(r) => timers[r].callback \in Callbacks

InitSetOnce ==
  ~started \/ caller = InitCallback =>
    \A r \in Rows : Used(r) => timers[r].callback # InitCallback

CallerHasNone ==
  /\ caller \in Users => handle[caller] = TIMER_NONE
  /\ caller = InitCallback => started

Ownership ==
  /\ HandlesMatchRows /\ RowsDistinct /\ UsedRowsCallSomebody
  /\ InitSetOnce /\ CallerHasNone

\* An alarm nobody has pending is set in a row of its own, or nowhere.
LEMMA SetAlarmRow ==
  ASSUME TypeOK, NEW cb, NEW v, NEW p, NEW h \in Handles, SetAlarm(cb, v, p, h)
  PROVE  \/ h = TIMER_NONE /\ timers' = timers
         \/ /\ h \in Rows
            /\ ~Used(h)
            /\ timers'[h].state = ARMED
            /\ timers'[h].callback = cb
            /\ timers'[h].interval = p
            /\ \A q \in Rows : q # h => timers'[q] = timers[q]
<1>1. timers \in [Rows -> Entries]
  BY DEF TypeOK, TableTypeOK
<1> QED BY <1>1 DEF SetAlarm, FirstFree, tableVars

\* The inductive form of HandlesMatchRows: rows in use have distinct
\* callbacks, and StartTimerLoop's row is set once.
THEOREM OwnershipInvariant == Spec => []Ownership
<1> USE TableAssumption, UnixTimerAssumption
<1>1. Init => Ownership
  BY DEF Init, Ownership, HandlesMatchRows, RowsDistinct, UsedRowsCallSomebody,
         InitSetOnce, CallerHasNone, Used, FreeEntry
<1>2. TypeOK /\ Ownership /\ [Next]_vars => Ownership'
  <2> SUFFICES ASSUME TypeOK, Ownership, [Next]_vars
               PROVE  Ownership'
    OBVIOUS
  <2> USE DEF Ownership, HandlesMatchRows, RowsDistinct, UsedRowsCallSomebody, InitSetOnce,
              CallerHasNone, Used
  <2>0. /\ timers \in [Rows -> Entries]
        /\ handle \in [Users -> Handles]
        /\ TIMER_NONE \notin Rows
    BY DEF TypeOK, TableTypeOK, Rows
  <2>1. CASE \/ Tick \/ Stamp \/ EnterDispatch \/ CallbackReturns \/ DispatchEnds
             \/ StartTimerLoop \/ StopTimerLoop \/ ReceiveFrame \/ LeaveMutex \/ UNCHANGED vars
    <3>1. timers' = timers /\ handle' = handle
      BY <2>1 DEF Tick, Stamp, EnterDispatch, CallbackReturns, DispatchEnds, StartTimerLoop,
                  StopTimerLoop, EnterMutex, ReceiveFrame, LeaveMutex, vars, tableVars
    <3>2. \/ caller' = caller /\ started' = started
          \/ ~started /\ started' /\ caller' = InitCallback
      BY <2>1 DEF Tick, Stamp, EnterDispatch, CallbackReturns, DispatchEnds, StartTimerLoop,
                  StopTimerLoop, EnterMutex, ReceiveFrame, LeaveMutex, vars, readVars
    <3> QED BY <3>1, <3>2
  <2>2. CASE Dispatch
    <3>1. \A r \in Rows : /\ timers'[r].callback = timers[r].callback
                          /\ timers'[r].state # FREE <=> timers[r].state # FREE
      <4> SUFFICES ASSUME NEW r \in Rows
                   PROVE  /\ timers'[r].callback = timers[r].callback
                          /\ timers'[r].state # FREE <=> timers[r].state # FREE
        OBVIOUS
      <4>1. timers'[r] = PassOneRow(r, Overrun) /\ timers[r] \in Entries
        BY <2>0, <2>2 DEF Dispatch, PassOne
      <4> QED BY <4>1 DEF PassOneRow, Armed, ArmedBit, Entries
    <3>2. UNCHANGED <<handle, started, caller>>
      BY <2>2 DEF Dispatch
    <3> QED BY <2>0, <3>1, <3>2 DEF Handles
  <2>3. ASSUME NEW r \in Rows, Call(r)
        PROVE  Ownership'
    <3>1. /\ timers[r].state \in TrigBit
          /\ timers' = [timers EXCEPT ![r] = ClearTrig(r)]
          /\ handle' = CallForgetsHandle(r)
          /\ started' = started /\ caller' = caller
      BY <2>3 DEF Call, NextTrig, Trigger, readVars
    <3>2. CASE timers[r].state = TRIG
      <4>1. timers'[r].state = FREE /\ \A q \in Rows : q # r => timers'[q] = timers[q]
        BY <2>0, <3>1, <3>2 DEF ClearTrig, FreeEntry
      <4>2. \A u \in Users : handle'[u] = IF timers[r].callback = u
                                         THEN TIMER_NONE ELSE handle[u]
        BY <3>1, <3>2 DEF CallForgetsHandle
      <4>3. \A u \in Users : handle'[u] # TIMER_NONE => handle'[u] = handle[u] /\ handle[u] # r
        BY <4>2
      <4>4. HandlesMatchRows'
        BY <2>0, <3>2, <4>1, <4>2, <4>3 DEF Handles
      <4>5. CallerHasNone'
        BY <3>1, <4>3
      <4>6. RowsDistinct' /\ UsedRowsCallSomebody' /\ InitSetOnce'
        BY <2>0, <3>1, <4>1
      <4> QED BY <4>4, <4>5, <4>6
    <3>3. CASE timers[r].state = TRIG_PERIOD
      <4>1. /\ timers'[r].state = ARMED
            /\ timers'[r].callback = timers[r].callback
            /\ \A q \in Rows : q # r => timers'[q] = timers[q]
        BY <2>0, <3>1, <3>3 DEF ClearTrig, Entries
      <4>2. \A u \in Users : handle'[u] = handle[u]
        BY <3>1, <3>3 DEF CallForgetsHandle
      <4> QED BY <2>0, <3>1, <3>3, <4>1, <4>2 DEF Handles
    <3> QED BY <3>1, <3>2, <3>3 DEF TrigBit
  <2>4. CASE InitArmed
    <3>1. PICK h \in Handles : SetAlarm(InitCallback, 0, 0, h)
      BY <2>4 DEF InitArmed
    <3>2. started' /\ handle' = handle /\ caller = InitCallback /\ caller' = NoCallback
      BY <2>4 DEF InitArmed
    <3> QED BY <2>0, <3>1, <3>2, SetAlarmRow DEF Handles
  <2>5. ASSUME NEW u \in Users, NEW v \in Values, NEW p \in Periods, Arm(u, v, p)
        PROVE  Ownership'
    <3>1. PICK h \in Handles : SetAlarm(u, v, p, h) /\ handle' = [handle EXCEPT ![u] = h]
      BY <2>5 DEF Arm
    <3>2. handle[u] = TIMER_NONE /\ started' = started /\ caller' = NoCallback
      BY <2>5 DEF Arm
    <3>3. \A r \in Rows : Used(r) => timers[r].callback # u
      BY <2>0, <3>2
    <3>4. CASE h = TIMER_NONE /\ timers' = timers
      BY <2>0, <3>1, <3>2, <3>4
    <3>5. CASE /\ h \in Rows
               /\ ~Used(h)
               /\ timers'[h].state = ARMED
               /\ timers'[h].callback = u
               /\ \A q \in Rows : q # h => timers'[q] = timers[q]
      <4>1. handle'[u] = h /\ \A w \in Users : w # u => handle'[w] = handle[w]
        BY <2>0, <3>1
      <4>2. HandlesMatchRows'
        BY <2>0, <3>2, <3>3, <3>5, <4>1 DEF Handles
      <4> QED BY <2>0, <3>2, <3>3, <3>5, <4>2
    <3> QED BY <3>1, <3>4, <3>5, SetAlarmRow
  <2>6. ASSUME NEW u \in Users, Cancel(u)
        PROVE  Ownership'
    <3>1. /\ handle[u] \in Rows
          /\ timers' = [timers EXCEPT ![handle[u]] = FreeEntry]
          /\ handle' = [handle EXCEPT ![u] = TIMER_NONE]
          /\ started' = started /\ caller' = NoCallback
      BY <2>0, <2>6 DEF Cancel, InUserCode, DelAlarm, Handles, readVars
    <3>2. /\ timers'[handle[u]].state = FREE
          /\ \A q \in Rows : q # handle[u] => timers'[q] = timers[q]
      BY <2>0, <3>1 DEF FreeEntry
    <3>3. /\ handle'[u] = TIMER_NONE
          /\ \A w \in Users : w # u => handle'[w] = handle[w]
      BY <2>0, <3>1
    <3>4. \A w \in Users : w # u /\ handle[w] # TIMER_NONE => handle[w] # handle[u]
      BY <3>1, <2>0
    <3>5. HandlesMatchRows'
      BY <2>0, <3>1, <3>2, <3>3, <3>4 DEF Handles
    <3> QED BY <2>0, <3>1, <3>2, <3>5
  <2>7. ASSUME NEW u \in Users, CallSetAlarm(u)
        PROVE  Ownership'
    <3>1. /\ timers' = timers /\ handle' = handle /\ started' = started
          /\ caller' = u /\ handle[u] = TIMER_NONE /\ u # InitCallback
      BY <2>7 DEF CallSetAlarm, tableVars
    <3>2. ~started' \/ caller' = InitCallback => ~started
      BY <3>1
    <3> QED BY <3>1, <3>2
  <2> QED BY <2>1, <2>2, <2>3, <2>4, <2>5, <2>6, <2>7 DEF Next
<1> QED BY <1>1, <1>2, TypeCorrect, PTL DEF Spec

\* No user's handle ever names another's alarm.
THEOREM HandlesNameOwnRows == Spec => []HandlesMatchRows
<1>1. Ownership => HandlesMatchRows
  BY DEF Ownership
<1> QED BY <1>1, OwnershipInvariant, PTL

-----------------------------------------------------------------------------
(***************************************************************************)
(* Wakeups.  A row that was not set across a stamp is within reach, so     *)
(* that total_sleep_time is beyond Farthest only if all that are armed     *)
(* were; and while it is not beyond, the hardware timer runs or a          *)
(* notification is on its way.  The second fact is what makes SetAlarm's   *)
(* decision not to call setTimer safe for such a row.  A row set across a  *)
(* stamp has that stamp's own thread, which still waits for the mutex.     *)
(***************************************************************************)
SleepInReach == total_sleep_time > Farthest => ArmedRows \subseteq across

SleepCovered ==
  remain # Deleted /\ total_sleep_time <= Farthest => HardwareRuns \/ OnItsWay

StamperWaits == sample < 0 => waiting > 0

Wakeups ==
  OutOfReachOnlyAcross /\ SleepInReach /\ SleepCovered /\ NoLostWakeup /\ StamperWaits

\* A difference that is not negative is what SetAlarm adds; it does not wrap.
LEMMA SumFits ==
  ASSUME NEW v \in 0 .. Farthest, MaxSample + v <= Farthest, sample \in Int,
         sample <= MaxSample, sample >= 0
  PROVE  Elapsed = sample /\ RowVal(v) = v + sample /\ v + sample <= Farthest
<1> USE UnixTimerAssumption
<1>0. Farthest \in Nat /\ Farthest < TIMEVAL_MAX /\ TIMEVAL_MAX \in Nat /\ MaxSample \in Nat
  BY HalfTheRange, TableAssumption
<1>1. TIMEVAL_MAX + 1 \in Nat \ {0} /\ sample \in 0 .. (TIMEVAL_MAX + 1) - 1
  BY <1>0
<1>2. Elapsed = sample
  BY <1>1, RemainderOfSmall DEF Elapsed
<1>3. v + sample \in 0 .. (TIMEVAL_MAX + 1) - 1 /\ v + sample <= Farthest
  BY <1>0
<1> QED BY <1>1, <1>2, <1>3, RemainderOfSmall DEF RowVal

\* What SetAlarm leaves of the wakeups when no stamp fell into its read.
LEMMA SetAlarmWakeups ==
  ASSUME TypeOK, Wakeups, NEW cb, NEW p, NEW v \in 0 .. Farthest, MaxSample + v <= Farthest,
         NEW h \in Handles, SetAlarm(cb, v, p, h), UNCHANGED <<notify, waiting, loop>>
  PROVE  OutOfReachOnlyAcross' /\ SleepInReach' /\ SleepCovered' /\ NoLostWakeup'
<1> USE TableAssumption, UnixTimerAssumption
<1>0. /\ timers \in [Rows -> Entries]
      /\ sample \in Int /\ sample <= MaxSample
      /\ total_sleep_time \in Int
      /\ remain \in {Deleted} \cup (1 .. TIMEVAL_MAX)
      /\ Farthest \in Nat \ {0}
      /\ waiting \in Nat /\ notify \in Nat
  BY HalfTheRange DEF TypeOK, TableTypeOK
<1>1. CASE UNCHANGED tableVars
  BY <1>1 DEF tableVars, Wakeups, OutOfReachOnlyAcross, SleepInReach, SleepCovered,
              NoLostWakeup, HardwareRuns, OnItsWay, ArmedRows, InReach
<1>2. CASE /\ h \in Rows
           /\ ShortenSleep(v)
           /\ timers' = [timers EXCEPT ![h] = [state |-> ARMED, callback |-> cb,
                                              val |-> RowVal(v), interval |-> p]]
           /\ across' = IF sample < 0 THEN across \cup {h} ELSE across \ {h}
  <2>1. /\ timers'[h].val = RowVal(v)
        /\ \A r \in Rows \ {h} : timers'[r] = timers[r]
    BY <1>0, <1>2
  <2>2. ArmedRows' \subseteq ArmedRows \cup {h}
    BY <2>1 DEF ArmedRows
  <2>3. CASE sample < 0
    <3>1. across' = across \cup {h} /\ waiting' > 0
      BY <1>2, <2>3 DEF Wakeups, StamperWaits
    <3>2. SleepCovered' /\ NoLostWakeup'
      BY <1>0, <3>1 DEF SleepCovered, NoLostWakeup, OnItsWay
    <3>3. OutOfReachOnlyAcross'
      BY <2>1, <2>2, <3>1 DEF OutOfReachOnlyAcross, Wakeups, ArmedRows, InReach
    <3>4. total_sleep_time' <= total_sleep_time
      <4>1. Elapsed \in Int
        BY <1>0, ElapsedType
      <4>2. CASE SleepsLonger(v)
        BY <1>0, <1>2, <4>1, <4>2 DEF ShortenSleep, SleepsLonger
      <4>3. CASE ~SleepsLonger(v)
        BY <1>0, <1>2, <4>3 DEF ShortenSleep
      <4> QED BY <4>2, <4>3
    <3>5. total_sleep_time' > Farthest => total_sleep_time > Farthest
      <4>1. total_sleep_time' \in Int
        <5>1. Elapsed \in Int
          BY <1>0, ElapsedType
        <5> QED BY <1>0, <1>2, <5>1 DEF ShortenSleep
      <4> QED BY <1>0, <3>4, <4>1
    <3>6. SleepInReach'
      BY <2>2, <3>1, <3>5 DEF SleepInReach, Wakeups
    <3> QED BY <3>2, <3>3, <3>6
  <2>4. CASE sample >= 0
    <3>0. Elapsed = sample /\ RowVal(v) = v + sample /\ v + sample <= Farthest
      BY <1>0, <2>4, SumFits
    <3>1. across' = across \ {h}
      BY <1>0, <1>2, <2>4
    <3>2. OutOfReachOnlyAcross'
      BY <2>1, <2>2, <3>0, <3>1 DEF OutOfReachOnlyAcross, Wakeups, ArmedRows, InReach
    <3>3. total_sleep_time' <= Farthest
      BY <1>0, <1>2, <2>4, <3>0 DEF ShortenSleep, SleepsLonger
    <3>4. SleepInReach'
      <4>1. total_sleep_time' \in Int
        BY <1>0, <1>2, <3>0 DEF ShortenSleep
      <4> QED BY <1>0, <3>3, <4>1 DEF SleepInReach
    <3>5. SleepCovered'
      <4>1. CASE SleepsLonger(v)
        <5>1. remain' = Deleted \/ remain' \in 1 .. Farthest
          BY <1>0, <1>2, <4>1 DEF ShortenSleep, setTimer, AtLeastOne
        <5> QED BY <1>0, <5>1 DEF SleepCovered, HardwareRuns
      <4>2. CASE ~SleepsLonger(v)
        <5>1. UNCHANGED <<total_sleep_time, remain>>
          BY <1>2, <4>2 DEF ShortenSleep
        <5> QED BY <3>3, <5>1 DEF Wakeups, SleepCovered, HardwareRuns, OnItsWay
      <4> QED BY <4>1, <4>2
    <3>6. NoLostWakeup'
      BY <3>3, <3>5 DEF NoLostWakeup, SleepCovered
    <3> QED BY <3>2, <3>4, <3>5, <3>6
  <2> QED BY <1>0, <2>3, <2>4
<1> QED BY <1>1, <1>2 DEF SetAlarm, FirstFree

\* The first pass sees to the wakeups of all that it leaves armed.
LEMMA PassOneWakeups ==
  ASSUME TypeOK, AboveLastFree, Wakeups, NEW e \in Nat, PassOne(e)
  PROVE  OutOfReachOnlyAcross' /\ SleepInReach' /\ SleepCovered' /\ NoLostWakeup'
<1> USE TableAssumption
<1>0. /\ timers \in [Rows -> Entries]
      /\ timers' = [r \in Rows |-> PassOneRow(r, e)]
      /\ last_timer_raw \in Int
      /\ Farthest \in Nat \ {0}
  BY HalfTheRange DEF TypeOK, TableTypeOK, PassOne
<1>1. RealSleep(e) \in Nat
  BY Remainder DEF RealSleep, TypeOK, TableTypeOK
<1>2. ASSUME NEW r \in Rows, r \in ArmedRows'
      PROVE  /\ Armed(r) /\ (Due(r, e) => timers[r].interval # 0)
             /\ timers'[r].val \in Nat
             /\ r \in ArmedRows
  <2>1. timers[r] \in Entries /\ timers'[r] = PassOneRow(r, e)
    BY <1>0
  <2>2. timers'[r].state # FREE /\ timers'[r].state # TRIG
    BY <1>2 DEF ArmedRows, ArmedBit
  <2>3. timers'[r].val \in Nat
    <3>1. PassOneRow(r, e) \in Entries
      BY PassOneRowType DEF TypeOK
    <3> QED BY <2>1, <3>1 DEF Entries
  <2>4. CASE ~Armed(r)
    <3>1. timers'[r] = timers[r]
      BY <2>1, <2>4 DEF PassOneRow
    <3>2. r <= last_timer_raw
      BY <1>0, <2>2, <3>1 DEF AboveLastFree, Used, Rows
    <3> QED BY <1>2, <2>4, <3>1, <3>2 DEF Armed, ArmedRows
  <2>5. CASE Armed(r) /\ Due(r, e) /\ timers[r].interval = 0
    BY <2>1, <2>2, <2>5 DEF PassOneRow, Entries
  <2>6. CASE Armed(r) /\ (Due(r, e) => timers[r].interval # 0)
    BY <2>3, <2>6 DEF Armed, ArmedRows
  <2> QED BY <2>4, <2>5, <2>6
<1>3. OutOfReachOnlyAcross'
  <2> SUFFICES ASSUME NEW r \in ArmedRows', r \notin across'
               PROVE  timers'[r].val <= Farthest
    BY DEF OutOfReachOnlyAcross, InReach
  <2>0. r \in Rows
    BY DEF ArmedRows
  <2>1. /\ timers[r] \in Entries
        /\ timers'[r] = PassOneRow(r, e)
        /\ Armed(r) /\ (Due(r, e) => timers[r].interval # 0)
        /\ r \in ArmedRows
    BY <1>0, <1>2, <2>0
  <2>2. CASE Due(r, e)
    <3>1. timers[r].interval \in Intervals \ {0} /\ timers[r].interval \in 0 .. Farthest
      BY <2>1, <2>2 DEF Entries, Intervals
    <3>2. timers[r].interval - (e % Interval32(r)) \in 1 .. timers[r].interval
      BY <2>0, <3>1, Reloaded
    <3>3. timers'[r].val = timers[r].interval - (e % Interval32(r))
      BY <2>1, <2>2 DEF PassOneRow, Entries
    <3> QED BY <1>0, <3>1, <3>2, <3>3
  <2>3. CASE ~Due(r, e)
    <3>1. r \notin across
      BY <2>0, <2>3 DEF PassOne
    <3>2. timers[r].val <= Farthest /\ timers[r].val \in Int
      BY <2>1, <3>1 DEF Wakeups, OutOfReachOnlyAcross, InReach, Entries
    <3>3. timers'[r].val = timers[r].val - RealSleep(e)
      BY <2>1, <2>3 DEF PassOneRow, Entries
    <3> QED BY <1>0, <1>1, <3>2, <3>3
  <2> QED BY <2>2, <2>3
<1>4. PICK n \in 0 .. TIMEVAL_MAX : /\ NextWakeup(n, e)
                                   /\ total_sleep_time' = n
                                   /\ setTimer(n)
  BY DEF PassOne
<1>5. ASSUME NEW r \in ArmedRows'
      PROVE  n <= timers'[r].val /\ timers'[r].val \in Nat
  <2>1. r \in Rows
    BY DEF ArmedRows
  <2>2. timers'[r] = PassOneRow(r, e)
    BY <1>0, <2>1
  <2> QED BY <1>2, <1>4, <2>1, <2>2 DEF NextWakeup
<1>6. n <= Farthest => remain' = Deleted \/ remain' \in 1 .. Farthest
  BY <1>0, <1>4 DEF setTimer, AtLeastOne
<1>7. SleepCovered'
  BY <1>0, <1>4, <1>6 DEF SleepCovered, HardwareRuns
<1>8. NoLostWakeup'
  <2> SUFFICES ASSUME NEW r \in ArmedRows', timers'[r].val <= Farthest
               PROVE  total_sleep_time' <= Farthest
    BY <1>7 DEF NoLostWakeup, SleepCovered, InReach
  <2> QED BY <1>0, <1>4, <1>5
<1>9. SleepInReach'
  <2> SUFFICES ASSUME n > Farthest, NEW r \in ArmedRows', r \notin across'
               PROVE  FALSE
    BY <1>4 DEF SleepInReach
  <2>1. timers'[r].val <= Farthest
    BY <1>3 DEF OutOfReachOnlyAcross, InReach
  <2> QED BY <1>0, <1>4, <1>5, <2>1
<1> QED BY <1>3, <1>7, <1>8, <1>9

\* The inductive form of NoLostWakeup: the belief total_sleep_time is within
\* reach while an alarm is, and such a belief has an expiry behind it.
THEOREM WakeupsInvariant == Spec => []Wakeups
<1> USE TableAssumption, UnixTimerAssumption
<1>1. Init => Wakeups
  <2> SUFFICES ASSUME Init PROVE Wakeups
    OBVIOUS
  <2>1. ArmedRows = {}
    BY DEF Init, ArmedRows, ArmedBit, FreeEntry
  <2>2. total_sleep_time > Farthest /\ ~(total_sleep_time <= Farthest) /\ ~(sample < 0)
    BY HalfTheRange DEF Init
  <2> QED BY <2>1, <2>2 DEF Wakeups, OutOfReachOnlyAcross, SleepInReach, SleepCovered,
                            NoLostWakeup, StamperWaits
<1>2. TypeOK /\ AboveLastFree /\ MutexHeld /\ Wakeups /\ [Next]_vars => Wakeups'
  <2> SUFFICES ASSUME TypeOK, AboveLastFree, MutexHeld, Wakeups, [Next]_vars
               PROVE  Wakeups'
    OBVIOUS
  <2> USE DEF Wakeups
  <2>0. /\ timers \in [Rows -> Entries]
        /\ elapsed \in 0 .. MaxElapsed
        /\ notify \in Nat /\ waiting \in Nat
        /\ sample \in Int
        /\ remain \in {Deleted} \cup (1 .. TIMEVAL_MAX)
        /\ Farthest \in Nat \ {0}
    BY HalfTheRange DEF TypeOK, TableTypeOK
  <2>1. ASSUME UNCHANGED <<timers, total_sleep_time, across>>
        PROVE  OutOfReachOnlyAcross' /\ SleepInReach' /\ ArmedRows' = ArmedRows
    BY <2>1 DEF OutOfReachOnlyAcross, SleepInReach, ArmedRows, InReach
  <2>2. ASSUME UNCHANGED <<timers, total_sleep_time, across>>,
               remain # Deleted /\ (HardwareRuns \/ OnItsWay) => (HardwareRuns \/ OnItsWay)',
               remain' # Deleted => remain # Deleted
        PROVE  OutOfReachOnlyAcross' /\ SleepInReach' /\ SleepCovered' /\ NoLostWakeup'
    BY <2>1, <2>2 DEF SleepCovered, NoLostWakeup, InReach
  <2>3. CASE Tick
    <3>1. UNCHANGED <<timers, total_sleep_time, across, waiting, sample, loop>>
      BY <2>3 DEF Tick
    <3>2. /\ remain # Deleted /\ (HardwareRuns \/ OnItsWay) => (HardwareRuns \/ OnItsWay)'
          /\ remain' # Deleted => remain # Deleted
      BY <2>0, <2>3 DEF Tick, HardwareRuns, OnItsWay
    <3> QED BY <2>2, <3>1, <3>2 DEF StamperWaits
  <2>4. CASE Stamp
    <3>1. /\ UNCHANGED <<timers, total_sleep_time, across, remain, loop>>
          /\ waiting' > 0 /\ notify' \in Nat /\ waiting' \in Nat
      BY <2>0, <2>4 DEF Stamp, tableVars
    <3>2. OnItsWay'
      <4>1. \A n, w \in Nat : w > 0 => n + w > 0
        OBVIOUS
      <4>2. notify' + waiting' > 0
        BY <3>1, <4>1
      <4> QED BY <4>2 DEF OnItsWay
    <3>3. OutOfReachOnlyAcross' /\ SleepInReach' /\ SleepCovered' /\ NoLostWakeup'
      BY <2>1, <3>1, <3>2 DEF SleepCovered, NoLostWakeup
    <3> QED BY <3>1, <3>3 DEF StamperWaits
  <2>5. CASE EnterDispatch
    <3>1. UNCHANGED <<timers, total_sleep_time, across, remain>> /\ loop' = FirstPass
      BY <2>5 DEF EnterDispatch, tableVars
    <3>2. StamperWaits'
      BY <2>0, <2>5 DEF EnterDispatch, StamperWaits
    <3> QED BY <2>2, <3>1, <3>2 DEF OnItsWay
  <2>6. CASE Dispatch
    <3>1. PassOne(Overrun) /\ Overrun \in Nat /\ sample' = 0
      BY <2>0, <2>6, OverrunType DEF Dispatch
    <3> QED BY <3>1, PassOneWakeups DEF StamperWaits
  <2>7. ASSUME NEW r \in Rows, Call(r)
        PROVE  Wakeups'
    <3>1. /\ timers' = [timers EXCEPT ![r] = ClearTrig(r)]
          /\ timers[r].state \in TrigBit
          /\ UNCHANGED <<total_sleep_time, remain, across, notify, waiting, sample>>
          /\ loop # FirstPass
      BY <2>7 DEF Call, Trigger, NextTrig, readVars
    <3>2. \A q \in Rows : q # r => timers'[q] = timers[q]
      BY <2>0, <3>1
    <3>3. r \in ArmedRows' => r \in ArmedRows /\ timers'[r].val = timers[r].val
      BY <2>0, <3>1 DEF ClearTrig, FreeEntry, ArmedRows, ArmedBit, TrigBit, Entries
    <3>4. ArmedRows' \subseteq ArmedRows /\ \A q \in ArmedRows' : timers'[q].val = timers[q].val
      BY <3>2, <3>3 DEF ArmedRows
    <3> QED BY <3>1, <3>4 DEF OutOfReachOnlyAcross, SleepInReach, SleepCovered, NoLostWakeup,
                              StamperWaits, InReach, HardwareRuns, OnItsWay
  <2>8. CASE CallbackReturns \/ DispatchEnds \/ LeaveMutex \/ UNCHANGED vars
    <3>1. /\ UNCHANGED <<timers, total_sleep_time, across, remain, notify, waiting, sample>>
          /\ loop' = loop \/ loop # FirstPass
      BY <2>8 DEF CallbackReturns, DispatchEnds, LeaveMutex, vars, tableVars, readVars, threadVars
    <3> QED BY <2>2, <3>1 DEF HardwareRuns, OnItsWay, StamperWaits
  <2>9. CASE StartTimerLoop \/ ReceiveFrame
    <3>1. /\ UNCHANGED <<timers, total_sleep_time, across, remain, notify, waiting, loop>>
          /\ sample' = sample \/ sample' = elapsed
      BY <2>9 DEF StartTimerLoop, ReceiveFrame, tableVars, readVars
    <3> QED BY <2>0, <2>2, <3>1 DEF HardwareRuns, OnItsWay, StamperWaits
  <2>10. CASE StopTimerLoop
    <3>1. /\ UNCHANGED <<timers, total_sleep_time, across, waiting, sample>>
          /\ remain' = Deleted
      BY <2>10 DEF StopTimerLoop, readVars
    <3> QED BY <2>1, <3>1 DEF SleepCovered, NoLostWakeup, StamperWaits
  <2>11. ASSUME NEW u \in Users, CallSetAlarm(u)
         PROVE  Wakeups'
    <3>1. /\ UNCHANGED <<timers, total_sleep_time, across, remain, notify, waiting, loop>>
          /\ sample' = elapsed
      BY <2>11 DEF CallSetAlarm, tableVars, threadVars
    <3> QED BY <2>0, <2>2, <3>1 DEF HardwareRuns, OnItsWay, StamperWaits
  <2>12. CASE InitArmed
    <3>1. /\ UNCHANGED <<notify, waiting, loop>>
          /\ \E h \in Handles : SetAlarm(InitCallback, 0, 0, h)
          /\ sample' = 0
      BY <2>12 DEF InitArmed
    <3> QED BY <3>1, SetAlarmWakeups, DelaysFit DEF StamperWaits
  <2>13. ASSUME NEW u \in Users, NEW v \in Values, NEW p \in Periods, Arm(u, v, p)
         PROVE  Wakeups'
    <3>1. /\ UNCHANGED <<notify, waiting, loop>>
          /\ \E h \in Handles : SetAlarm(u, v, p, h)
          /\ sample' = 0
      BY <2>13 DEF Arm, threadVars
    <3>2. v \in 0 .. Farthest /\ MaxSample + v <= Farthest
      BY DelaysFit
    <3> QED BY <3>1, <3>2, SetAlarmWakeups DEF StamperWaits
  <2>14. ASSUME NEW u \in Users, Cancel(u)
         PROVE  Wakeups'
    <3>1. /\ timers' = [timers EXCEPT ![handle[u]] = FreeEntry]
          /\ UNCHANGED <<total_sleep_time, remain, across, notify, waiting, sample, loop>>
      BY <2>14 DEF Cancel, DelAlarm, threadVars, readVars
    <3>2. \A q \in Rows : timers'[q] = timers[q] \/ timers'[q] = FreeEntry
      BY <2>0, <3>1
    <3>3. ArmedRows' \subseteq ArmedRows /\ \A q \in ArmedRows' : timers'[q].val = timers[q].val
      BY <3>2 DEF ArmedRows, FreeEntry, ArmedBit
    <3> QED BY <3>1, <3>3 DEF OutOfReachOnlyAcross, SleepInReach, SleepCovered, NoLostWakeup,
                              StamperWaits, InReach, HardwareRuns, OnItsWay
  <2> QED BY <2>3, <2>4, <2>5, <2>6, <2>7, <2>8, <2>9, <2>10, <2>11, <2>12, <2>13, <2>14
          DEF Next
<1> QED BY <1>1, <1>2, TypeCorrect, RowsWithinLast, MutexInvariant, PTL DEF Spec

\* The wrap of total_sleep_time + overrun never decides about a row that was
\* not set across a stamp.
THEOREM WrapNeverMatters == Spec => []WrapIsHarmless
<1>1. TypeOK /\ Wakeups => WrapIsHarmless
  <2>1. TypeOK => total_sleep_time \in Int
    BY DEF TypeOK, TableTypeOK
  <2>2. TypeOK /\ total_sleep_time + UNS32_MAX > TIMEVAL_MAX => total_sleep_time > Farthest
    BY <2>1, HalfTheRange, TableAssumption
  <2> QED BY <2>2 DEF Wakeups, SleepInReach, WrapIsHarmless
<1> QED BY <1>1, TypeCorrect, WakeupsInvariant, PTL

\* An alarm within reach is never left without a wakeup, whatever stamps fall
\* into the reads of getElapsedTime.
THEOREM WakeupNeverLost == Spec => []NoLostWakeup
<1>1. Wakeups => NoLostWakeup
  BY DEF Wakeups
<1> QED BY <1>1, WakeupsInvariant, PTL

\* Only a SetAlarm whose read was torn by a stamp puts an alarm out of reach.
THEOREM OnlyTornReadsLose == Spec => []OutOfReachOnlyAcross
<1>1. Wakeups => OutOfReachOnlyAcross
  BY DEF Wakeups
<1> QED BY <1>1, WakeupsInvariant, PTL

\* NoAlarmForgotten: no alarm but one set across a stamp (timers_unix.c:149) is
\* left behind between the passes of TimeDispatch (timer.c:119) or between a
\* stamp and its dispatch (timers_unix.c:38).
THEOREM NobodyIsForgotten == Spec => []NoAlarmForgotten
BY TriggersAreCalled, WrapNeverMatters, WakeupNeverLost, OnlyTornReadsLose, PTL
   DEF NoAlarmForgotten

-----------------------------------------------------------------------------
(***************************************************************************)
(* The driver implements AlarmService.                                     *)
(***************************************************************************)
KindMatchesState ==
  \A r \in Rows : /\ timers[r].state = TRIG => timers[r].interval = 0
                  /\ timers[r].state = TRIG_PERIOD => timers[r].interval # 0

\* The first pass marks one-shot rows TRIG and periodic rows TRIG_PERIOD.
LEMMA KindInvariant == Spec => []KindMatchesState
<1>1. Init => KindMatchesState
  BY DEF Init, KindMatchesState, FreeEntry
<1>2. TypeOK /\ KindMatchesState /\ [Next]_vars => KindMatchesState'
  <2> SUFFICES ASSUME TypeOK, KindMatchesState, [Next]_vars, NEW q \in Rows
               PROVE  /\ timers'[q].state = TRIG => timers'[q].interval = 0
                      /\ timers'[q].state = TRIG_PERIOD => timers'[q].interval # 0
    BY DEF KindMatchesState
  <2>0. timers \in [Rows -> Entries] /\ timers[q] \in Entries
    BY DEF TypeOK, TableTypeOK
  <2>00. /\ timers[q].state = TRIG => timers[q].interval = 0
         /\ timers[q].state = TRIG_PERIOD => timers[q].interval # 0
    BY DEF KindMatchesState
  <2>1. CASE timers'[q] = timers[q]
    BY <2>00, <2>1
  <2>2. CASE timers'[q].state \in {FREE, ARMED}
    BY <2>2
  <2>3. ASSUME NEW cb \in Callbacks, NEW v \in Nat, NEW p \in Nat, NEW h \in Handles,
               SetAlarm(cb, v, p, h)
        PROVE  timers'[q] = timers[q] \/ timers'[q].state \in {FREE, ARMED}
    BY <2>0, <2>3, SetAlarmRow
  <2>4. ASSUME NEW h \in Rows, DelAlarm(h)
        PROVE  timers'[q] = timers[q] \/ timers'[q].state \in {FREE, ARMED}
    <3>1. timers' = [timers EXCEPT ![h] = FreeEntry] \/ timers' = timers
      BY <2>4 DEF DelAlarm, tableVars
    <3> QED BY <2>0, <3>1 DEF FreeEntry
  <2>5. CASE PassOne(Overrun)
    <3>1. timers'[q] = PassOneRow(q, Overrun)
      BY <2>5 DEF PassOne
    <3> QED BY <2>0, <2>00, <3>1 DEF PassOneRow, Armed, ArmedBit, Entries
  <2>6. ASSUME NEW r \in Rows, Trigger(r), NextTrig(loop, r)
        PROVE  timers'[q] = timers[q] \/ timers'[q].state \in {FREE, ARMED}
    BY <2>0, <2>6 DEF Trigger, ClearTrig, FreeEntry, Entries
  <2> QED BY <2>1, <2>2, <2>3, <2>4, <2>5, <2>6, TableSteps
<1> QED BY <1>1, <1>2, TypeCorrect, PTL DEF Spec

\* Rows that keep use, callback and interval leave the pending alarms as they are.
LEMMA SamePending ==
  ASSUME \A r \in Rows : /\ Used(r)' <=> Used(r)
                         /\ timers'[r].callback = timers[r].callback
                         /\ timers'[r].interval = timers[r].interval
  PROVE  UNCHANGED <<PendingOnce, PendingCyclic>>
  BY DEF PendingOnce, PendingCyclic

\* Every step of the driver is a step of the service or none.
LEMMA StepRefines ==
  ASSUME TypeOK, Ownership, KindMatchesState, [Next]_vars
  PROVE  [Service!ServiceNext]_(Service!serviceVars)
<1> USE TableAssumption, UnixTimerAssumption DEF Service!serviceVars
<1>0. /\ timers \in [Rows -> Entries]
      /\ handle \in [Users -> Handles]
      /\ TIMER_NONE \notin Rows
  BY DEF TypeOK, TableTypeOK, Rows
<1>1. CASE \/ Tick \/ Stamp \/ EnterDispatch \/ DispatchEnds \/ StartTimerLoop
           \/ StopTimerLoop \/ ReceiveFrame \/ LeaveMutex \/ UNCHANGED vars
  <2>1. UNCHANGED <<timers, running>>
    BY <1>1 DEF Tick, Stamp, EnterDispatch, DispatchEnds, StartTimerLoop, StopTimerLoop,
                EnterMutex, ReceiveFrame, LeaveMutex, vars, tableVars, threadVars
  <2> QED BY <2>1, SamePending DEF Used
<1>2. CASE Dispatch
  <2>1. UNCHANGED <<PendingOnce, PendingCyclic>>
    <3>1. ASSUME NEW r \in Rows
          PROVE  /\ Used(r)' <=> Used(r)
                 /\ timers'[r].callback = timers[r].callback
                 /\ timers'[r].interval = timers[r].interval
      <4>1. timers'[r] = PassOneRow(r, Overrun) /\ timers[r] \in Entries
        BY <1>0, <1>2 DEF Dispatch, PassOne
      <4> QED BY <4>1 DEF PassOneRow, Armed, ArmedBit, Entries, Used
    <3> QED BY <3>1, SamePending
  <2> QED BY <1>2, <2>1 DEF Dispatch
<1>3. CASE CallbackReturns
  <2>1. UNCHANGED <<PendingOnce, PendingCyclic>>
    BY <1>3, SamePending DEF CallbackReturns, tableVars, Used
  <2>2. Service!Finish
    BY <1>3, <2>1 DEF CallbackReturns, Service!Finish
  <2> QED BY <2>2 DEF Service!ServiceNext
<1>4. ASSUME NEW r \in Rows, Call(r)
      PROVE  Service!ServiceNext
  <2> DEFINE c == timers[r].callback
  <2>1. /\ Used(r)
        /\ timers[r].state \in TrigBit
        /\ timers' = [timers EXCEPT ![r] = ClearTrig(r)]
        /\ running = NoCallback /\ running' = c
    BY <1>4 DEF Call, Trigger, NextTrig, Used, TrigBit
  <2>2. c \in Callbacks /\ \A q \in Rows : q # r /\ Used(q) => timers[q].callback # c
    BY <2>1 DEF Ownership, RowsDistinct, UsedRowsCallSomebody
  <2>3. \A q \in Rows : q # r => timers'[q] = timers[q]
    BY <1>0, <2>1
  <2>4. c \in PendingOnce \cup PendingCyclic
    BY <2>1 DEF PendingOnce, PendingCyclic
  <2>5. PendingOnce' = PendingOnce \ {c} /\ PendingCyclic' = PendingCyclic
    <3>1. CASE timers[r].state = TRIG
      <4>1. ~Used(r)' /\ timers[r].interval = 0
        <5>1. timers[r].interval = 0
          BY <3>1 DEF KindMatchesState
        <5>2. timers'[r] = FreeEntry
          BY <1>0, <2>1, <3>1 DEF ClearTrig
        <5> QED BY <5>1, <5>2 DEF FreeEntry, Used
      <4>2. PendingOnce' = PendingOnce \ {c}
        BY <2>1, <2>2, <2>3, <4>1 DEF PendingOnce, Used
      <4>3. PendingCyclic' = PendingCyclic
        BY <2>3, <4>1 DEF PendingCyclic, Used
      <4> QED BY <4>2, <4>3
    <3>2. CASE timers[r].state = TRIG_PERIOD
      <4>1. /\ Used(r)'
            /\ timers[r].interval # 0
            /\ timers'[r].interval = timers[r].interval
            /\ timers'[r].callback = c
        BY <1>0, <2>1, <3>2 DEF ClearTrig, KindMatchesState, Used, Entries
      <4>2. \A q \in Rows : /\ Used(q)' <=> Used(q)
                            /\ timers'[q].callback = timers[q].callback
                            /\ timers'[q].interval = timers[q].interval
        BY <2>1, <2>3, <4>1 DEF Used
      <4>3. UNCHANGED <<PendingOnce, PendingCyclic>>
        BY <4>2, SamePending
      <4>4. c \notin PendingOnce
        BY <2>2, <4>1 DEF PendingOnce
      <4> QED BY <4>3, <4>4
    <3> QED BY <2>1, <3>1, <3>2 DEF TrigBit
  <2>6. Service!Start(c)
    BY <2>1, <2>4, <2>5 DEF Service!Start
  <2> QED BY <2>2, <2>6 DEF Service!ServiceNext
<1>5. ASSUME NEW cb \in Callbacks, NEW v \in Nat, NEW p \in Nat, NEW h \in Handles,
             SetAlarm(cb, v, p, h), running' = running,
             \A r \in Rows : Used(r) => timers[r].callback # cb
      PROVE  [Service!ServiceNext]_(Service!serviceVars)
  <2>1. CASE timers' = timers
    BY <1>5, <2>1, SamePending DEF Used
  <2>2. CASE /\ h \in Rows
             /\ ~Used(h)
             /\ timers'[h].state = ARMED
             /\ timers'[h].callback = cb
             /\ timers'[h].interval = p
             /\ \A q \in Rows : q # h => timers'[q] = timers[q]
    <3>1. cb \notin PendingOnce \cup PendingCyclic
      BY <1>5 DEF PendingOnce, PendingCyclic
    <3>2. CASE p = 0
      <4>1. PendingOnce' = PendingOnce \cup {cb} /\ PendingCyclic' = PendingCyclic
        BY <2>2, <3>2 DEF PendingOnce, PendingCyclic, Used
      <4> QED BY <1>5, <3>1, <4>1 DEF Service!Set, Service!ServiceNext
    <3>3. CASE p # 0
      <4>1. PendingCyclic' = PendingCyclic \cup {cb} /\ PendingOnce' = PendingOnce
        BY <2>2, <3>3 DEF PendingOnce, PendingCyclic, Used
      <4> QED BY <1>5, <3>1, <4>1 DEF Service!Set, Service!ServiceNext
    <3> QED BY <3>2, <3>3
  <2> QED BY <1>5, <2>1, <2>2, SetAlarmRow
<1>6. CASE InitArmed
  <2>1. PICK h \in Handles : SetAlarm(InitCallback, 0, 0, h)
    BY <1>6 DEF InitArmed
  <2>2. running' = running /\ \A r \in Rows : Used(r) => timers[r].callback # InitCallback
    BY <1>6 DEF InitArmed, Ownership, InitSetOnce
  <2>3. InitCallback \in Callbacks /\ 0 \in Nat
    OBVIOUS
  <2> QED BY <1>5, <2>1, <2>2, <2>3
<1>7. ASSUME NEW u \in Users, NEW v \in Values, NEW p \in Periods, Arm(u, v, p)
      PROVE  [Service!ServiceNext]_(Service!serviceVars)
  <2>1. PICK h \in Handles : SetAlarm(u, v, p, h)
    BY <1>7 DEF Arm
  <2>2. running' = running /\ handle[u] = TIMER_NONE
    BY <1>7 DEF Arm, threadVars, Ownership, CallerHasNone
  <2>3. \A r \in Rows : Used(r) => timers[r].callback # u
    BY <1>0, <2>2 DEF Ownership, HandlesMatchRows
  <2>4. u \in Callbacks /\ v \in Nat /\ p \in Nat
    OBVIOUS
  <2> QED BY <1>5, <2>1, <2>2, <2>3, <2>4
<1>8. ASSUME NEW u \in Users, Cancel(u)
      PROVE  Service!ServiceNext
  <2>1. PICK h \in Rows : h = handle[u]
    BY <1>0, <1>8 DEF Cancel, Handles
  <2>2. timers' = [timers EXCEPT ![h] = FreeEntry] /\ running' = running
    BY <1>0, <1>8, <2>1 DEF Cancel, DelAlarm, threadVars
  <2>3. Used(h) /\ timers[h].callback = u
    BY <1>0, <2>1 DEF Ownership, HandlesMatchRows
  <2>4. ~Used(h)' /\ \A q \in Rows : q # h => timers'[q] = timers[q]
    BY <1>0, <2>2 DEF FreeEntry, Used
  <2>5. \A q \in Rows : q # h /\ Used(q) => timers[q].callback # u
    BY <2>3 DEF Ownership, RowsDistinct
  <2>6. u \in PendingOnce \cup PendingCyclic
    BY <2>3 DEF PendingOnce, PendingCyclic
  <2>7. PendingOnce' = PendingOnce \ {u}
    BY <2>3, <2>4, <2>5 DEF PendingOnce, Used
  <2>8. PendingCyclic' = PendingCyclic \ {u}
    BY <2>3, <2>4, <2>5 DEF PendingCyclic, Used
  <2>9. Service!Delete(u)
    BY <2>2, <2>6, <2>7, <2>8 DEF Service!Delete
  <2> QED BY <2>9 DEF Service!ServiceNext
<1>9. ASSUME NEW u \in Users, CallSetAlarm(u)
      PROVE  UNCHANGED Service!serviceVars
  <2>1. UNCHANGED <<timers, running>>
    BY <1>9 DEF CallSetAlarm, tableVars, threadVars
  <2> QED BY <2>1, SamePending DEF Used
<1> QED BY <1>1, <1>2, <1>3, <1>4, <1>6, <1>7, <1>8, <1>9 DEF Next

\* The alarm table with its driver keeps the promises of AlarmService.
THEOREM DriverImplementsService == Spec => ImplementsAlarmService
<1>1. Init => Service!ServiceInit
  BY DEF Init, Service!ServiceInit, PendingOnce, PendingCyclic, Used, FreeEntry
<1>2. TypeOK /\ Ownership /\ KindMatchesState /\ [Next]_vars
        => [Service!ServiceNext]_(Service!serviceVars)
  BY StepRefines
<1> QED BY <1>1, <1>2, TypeCorrect, OwnershipInvariant, KindInvariant, PTL
        DEF Spec, ImplementsAlarmService, Service!ServiceSpec

=============================================================================
