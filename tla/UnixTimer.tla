----------------------------- MODULE UnixTimer -----------------------------
(***************************************************************************)
(* The alarm table under the POSIX driver (src/drivers/timers_unix.c and   *)
(* the receive loop of src/drivers/unix.c).  The hardware timer is a       *)
(* one-shot POSIX timer; each expiry starts a thread that runs             *)
(* timer_notify, which stamps last_sig BEFORE it waits for the mutex.  The *)
(* CAN receive thread dispatches frames under the same mutex, so alarms    *)
(* are set and deleted from two kinds of thread.  getElapsedTime() takes   *)
(* the time first and reads last_sig then: the stamps of threads that wait *)
(* for the mutex, and time, may fall between the two.                      *)
(*                                                                         *)
(* The users of the table are abstract: each owns one handle variable and  *)
(* follows the discipline of lifegrd.c, sync.c and pdo.c: it sets an alarm *)
(* only when its handle is TIMER_NONE, stores what SetAlarm returns, stores*)
(* what DelAlarm returns, and a one-shot callback first sets its handle to *)
(* TIMER_NONE.                                                             *)
(***************************************************************************)
EXTENDS Timer

CONSTANTS
  Users,        \* the callbacks with a handle variable
  InitCallback, \* StartTimerLoop's init_callback: its handle is discarded
  CanOpened,    \* whether a CAN port is open, i.e. a receive thread runs
  Races,        \* whether others lock the mutex while a notification is on its way
  Values,       \* bound: delays users ask for
  Periods,      \* bound: periods users ask for, 0 for a one-shot alarm
  MaxThreads,   \* bound: notification threads alive at once
  MaxLag,       \* bound: time during which notifications or callbacks run
  MaxIdle,      \* bound: time that passes while no hardware timer runs
  MaxElapsed,   \* bound: time since last_sig while one runs
  Tears,        \* by how much a stamp between the reads of last_sig's two fields
                \* falsifies what getElapsedTime() computes
  MaxSample     \* bound: what it computes at most

ASSUME UnixTimerAssumption ==
  /\ Callbacks = Users \cup {InitCallback}
  /\ InitCallback \notin Users
  /\ CanOpened \in BOOLEAN /\ Races \in BOOLEAN
  /\ Values \subseteq Nat
  /\ Periods \subseteq Nat
  /\ MaxThreads \in Nat /\ MaxLag \in Nat /\ MaxIdle \in Nat /\ MaxElapsed \in Nat
  /\ Tears \subseteq Int
  /\ MaxIdle <= MaxElapsed /\ MaxSample \in Nat /\ MaxElapsed <= MaxSample
  /\ \A v \in Values \cup Periods \cup {0} : MaxSample + v <= Farthest
  /\ Periods \subseteq Intervals

VARIABLES
  notify,   \* notification threads started that have not stamped last_sig
  waiting,  \* notification threads that stamped it and wait for the mutex
  mutex,    \* who holds CanFestival_mutex
  loop,     \* TimeDispatch's i in its second pass, FirstPass before it
  caller,   \* whose alarm SetAlarm is setting: it has the time already
  running,  \* the callback TimeDispatch is in
  started,  \* whether StartTimerLoop ran
  lag,      \* time passed since all was quiet
  handle    \* the users' handle variables

threadVars == <<notify, waiting, mutex, loop, running>>
readVars == <<elapsed, sample, caller>>
vars == <<tableVars, readVars, threadVars, started, lag, handle>>

-----------------------------------------------------------------------------
Unlocked == "unlocked"
CanThread == "can"
MainThread == "main"
TimerThread == "timer"

FirstPass == -1

Init ==
  /\ timers = [r \in Rows |-> FreeEntry]
  /\ last_timer_raw = -1
  /\ total_sleep_time = TIMEVAL_MAX
  /\ elapsed = 0 /\ sample = 0
  /\ remain = TIMEVAL_MAX
  /\ togo = [r \in Rows |-> 0] /\ across = {}
  /\ notify = 0 /\ waiting = 0
  /\ mutex = Unlocked
  /\ loop = 0
  /\ running = NoCallback /\ caller = NoCallback
  /\ started = FALSE
  /\ lag = 0
  /\ handle = [u \in Users |-> TIMER_NONE]

-----------------------------------------------------------------------------
(***************************************************************************)
(* Time, the hardware timer and the notification threads.                  *)
(***************************************************************************)
Quiet == notify = 0 /\ waiting = 0 /\ mutex = Unlocked

HardwareRuns == remain # Deleted /\ remain <= Farthest

Tick ==
  /\ Quiet \/ lag < MaxLag
  /\ IF HardwareRuns THEN elapsed < MaxElapsed ELSE elapsed < MaxIdle
  /\ remain = 1 => notify + waiting < MaxThreads
  /\ elapsed' = elapsed + 1
  /\ lag' = IF Quiet THEN 0 ELSE lag + 1
  /\ togo' = [r \in Rows |-> IF Used(r) /\ togo[r] >= 0 THEN togo[r] - 1 ELSE togo[r]]
  /\ remain' = IF ~HardwareRuns THEN remain
               ELSE IF remain = 1 THEN TIMEVAL_MAX ELSE remain - 1
  /\ notify' = IF remain = 1 THEN notify + 1 ELSE notify
  /\ UNCHANGED <<timers, last_timer_raw, total_sleep_time, across, sample, caller,
                 waiting, mutex, loop, running, started, handle>>

\* The holder of the mutex is between the two halves of getElapsedTime.
Reading == caller # NoCallback \/ loop = FirstPass

(***************************************************************************)
(* timer_notify: gettimeofday(&last_sig), outside the mutex.  The time a   *)
(* reader has taken is not after the new last_sig; if it reads one field   *)
(* of the old and one of the new, its difference may be anything near.     *)
(***************************************************************************)
Stamp ==
  /\ notify > 0
  /\ notify' = notify - 1
  /\ waiting' = waiting + 1
  /\ elapsed' = 0
  /\ IF Reading THEN \E t \in Tears \cup {0} : /\ sample' = sample - elapsed + t
                                             /\ sample' <= MaxSample
     ELSE sample' = sample
  /\ UNCHANGED <<tableVars, caller, mutex, loop, running, started, lag, handle>>

\* timer_notify: EnterMutex; TimeDispatch takes the time.
EnterDispatch ==
  /\ waiting > 0
  /\ mutex = Unlocked
  /\ mutex' = TimerThread
  /\ waiting' = waiting - 1
  /\ loop' = FirstPass
  /\ sample' = elapsed
  /\ UNCHANGED <<tableVars, elapsed, caller, notify, running, started, lag, handle>>

\* The first pass of TimeDispatch.
Dispatch ==
  /\ loop = FirstPass
  /\ loop' = 0
  /\ PassOne(Overrun)
  /\ sample' = 0
  /\ UNCHANGED <<elapsed, caller, notify, waiting, mutex, running, started, lag, handle>>

CallKeepsHandle(r) == handle

\* What a one-shot callback does first; a periodic one keeps its handle.
CallForgetsHandle(r) ==
  [u \in Users |-> IF timers[r].state = TRIG /\ timers[r].callback = u
                   THEN TIMER_NONE ELSE handle[u]]

\* The second pass calls the callback of the next triggered row.
Call(r) ==
  /\ mutex = TimerThread /\ loop # FirstPass
  /\ running = NoCallback
  /\ NextTrig(loop, r)
  /\ Trigger(r)
  /\ running' = timers[r].callback
  /\ loop' = r + 1
  /\ handle' = CallForgetsHandle(r)
  /\ UNCHANGED <<readVars, notify, waiting, mutex, started, lag>>

CallbackReturns ==
  /\ mutex = TimerThread
  /\ running # NoCallback /\ caller = NoCallback
  /\ running' = NoCallback
  /\ UNCHANGED <<tableVars, readVars, notify, waiting, mutex, loop, started, lag, handle>>

\* The second pass is over: timer_notify leaves the mutex.
DispatchEnds ==
  /\ mutex = TimerThread /\ loop # FirstPass
  /\ running = NoCallback
  /\ \A r \in Rows : ~NextTrig(loop, r)
  /\ mutex' = Unlocked
  /\ loop' = 0
  /\ UNCHANGED <<tableVars, readVars, notify, waiting, running, started, lag, handle>>

-----------------------------------------------------------------------------
(***************************************************************************)
(* The other threads, and what the users do while they hold the mutex.     *)
(***************************************************************************)
\* EnterMutex of another thread than a notification's.
EnterMutex ==
  /\ mutex = Unlocked
  /\ Races \/ notify + waiting = 0

\* StartTimerLoop(init_callback), into the SetAlarm it consists of.
StartTimerLoop ==
  /\ ~started
  /\ EnterMutex
  /\ started' = TRUE
  /\ mutex' = MainThread
  /\ caller' = InitCallback
  /\ sample' = elapsed
  /\ UNCHANGED <<tableVars, elapsed, notify, waiting, loop, running, lag, handle>>

InitArmed ==
  /\ caller = InitCallback
  /\ caller' = NoCallback
  /\ mutex' = Unlocked
  /\ \E h \in Handles : SetAlarm(InitCallback, 0, 0, h)
  /\ sample' = 0
  /\ UNCHANGED <<elapsed, notify, waiting, loop, running, started, lag, handle>>

\* StopTimerLoop(exitfunction): exitfunction runs under the mutex.
StopTimerLoop ==
  /\ started
  /\ EnterMutex
  /\ remain # Deleted
  /\ mutex' = MainThread
  /\ remain' = Deleted
  /\ UNCHANGED <<timers, last_timer_raw, total_sleep_time, togo, across, readVars, notify,
                 waiting, loop, running, started, lag, handle>>

\* canReceiveLoop: EnterMutex around canDispatch.
ReceiveFrame ==
  /\ CanOpened
  /\ EnterMutex
  /\ mutex' = CanThread
  /\ UNCHANGED <<tableVars, readVars, notify, waiting, loop, running, started, lag, handle>>

LeaveMutex ==
  /\ mutex \in {CanThread, MainThread}
  /\ caller = NoCallback
  /\ mutex' = Unlocked
  /\ UNCHANGED <<tableVars, readVars, notify, waiting, loop, running, started, lag, handle>>

InUserCode ==
  /\ caller = NoCallback
  /\ \/ mutex \in {CanThread, MainThread}
     \/ mutex = TimerThread /\ running # NoCallback

\* A user calls SetAlarm, which takes the time (and needs it if a row is free).
CallSetAlarm(u) ==
  /\ InUserCode
  /\ handle[u] = TIMER_NONE
  /\ caller' = u
  /\ sample' = elapsed
  /\ UNCHANGED <<tableVars, elapsed, threadVars, started, lag, handle>>

\* SetAlarm(value, period), from the read of last_sig on.
Arm(u, value, period) ==
  /\ caller = u
  /\ caller' = NoCallback
  /\ \E h \in Handles : /\ SetAlarm(u, value, period, h)
                        /\ handle' = [handle EXCEPT ![u] = h]
  /\ sample' = 0
  /\ UNCHANGED <<elapsed, threadVars, started, lag>>

Cancel(u) ==
  /\ InUserCode
  /\ handle[u] # TIMER_NONE
  /\ DelAlarm(handle[u])
  /\ handle' = [handle EXCEPT ![u] = TIMER_NONE]
  /\ UNCHANGED <<readVars, threadVars, started, lag>>

Next ==
  \/ Tick
  \/ Stamp
  \/ EnterDispatch
  \/ Dispatch
  \/ \E r \in Rows : Call(r)
  \/ CallbackReturns
  \/ DispatchEnds
  \/ StartTimerLoop
  \/ InitArmed
  \/ StopTimerLoop
  \/ ReceiveFrame
  \/ LeaveMutex
  \/ \E u \in Users, v \in Values, p \in Periods : Arm(u, v, p)
  \/ \E u \in Users : CallSetAlarm(u) \/ Cancel(u)

Spec == Init /\ [][Next]_vars

(***************************************************************************)
(* Time passes whatever the threads do (SF: Tick's bounds hold it back     *)
(* while they work), started threads run, SetAlarm and callbacks return    *)
(* and the mutex is given back.  Between two frames the receive thread     *)
(* blocks in read() without the mutex, which is why a waiting notification *)
(* thread gets it in the end (SF).                                         *)
(***************************************************************************)
Fairness ==
  /\ SF_vars(Tick)
  /\ WF_vars(Stamp)
  /\ SF_vars(EnterDispatch)
  /\ WF_vars(Dispatch)
  /\ WF_vars(InitArmed \/ \E u \in Users, v \in Values, p \in Periods : Arm(u, v, p))
  /\ WF_vars(\E r \in Rows : Call(r))
  /\ SF_vars(CallbackReturns)
  /\ WF_vars(DispatchEnds)
  /\ SF_vars(LeaveMutex)

FairSpec == Spec /\ Fairness

-----------------------------------------------------------------------------
(***************************************************************************)
(* Properties.                                                             *)
(***************************************************************************)
\* Every variable has its type; what the bounds bound is bounded.
TypeOK ==
  /\ TableTypeOK
  /\ elapsed \in 0 .. MaxElapsed
  /\ notify \in Nat /\ waiting \in Nat /\ lag \in Nat
  /\ mutex \in {Unlocked, CanThread, MainThread, TimerThread}
  /\ loop \in {FirstPass} \cup (0 .. MAX_NB_TIMER)
  /\ caller \in Callbacks \cup {NoCallback}
  /\ sample \in Int /\ sample <= MaxSample
  /\ running \in Callbacks \cup {NoCallback}
  /\ started \in BOOLEAN
  /\ handle \in [Users -> Handles]

(***************************************************************************)
(* The loops stop at last_timer_raw, which SetAlarm raises and DelAlarm    *)
(* lowers by one: no row beyond it is in use, so no alarm is overlooked.   *)
(***************************************************************************)
AboveLastFree == \A r \in Rows : r > last_timer_raw => ~Used(r)

(***************************************************************************)
(* SetAlarm's scan, which stops at last_timer_raw + 1, refuses an alarm    *)
(* only when every row of the table is in use.                             *)
(***************************************************************************)
RefusedOnlyWhenFull ==
  (\E r \in Rows : ~Used(r)) => \E r \in Rows : FirstFree(r)

\* No row is lost to the table: the loops reach all that are in use, and
\* SetAlarm finds one that is free (timer.c:32 and timer.c:109).
NoRowIsLost == AboveLastFree /\ RefusedOnlyWhenFull

(***************************************************************************)
(* DelAlarm trusts the handle it is given.  Under the users' discipline a  *)
(* handle names a row that is in use by its owner, and a user's row is the *)
(* one its handle names: no user deletes another's alarm, however rows are *)
(* freed and reused by callbacks in the middle of the second pass.         *)
(***************************************************************************)
HandlesMatchRows ==
  /\ \A u \in Users : handle[u] # TIMER_NONE =>
       /\ Used(handle[u])
       /\ timers[handle[u]].callback = u
  /\ \A r \in Rows : Used(r) /\ timers[r].callback \in Users =>
       handle[timers[r].callback] = r

(***************************************************************************)
(* A row marked in the first pass is called in the second: none is left    *)
(* triggered behind the loop index or after the mutex was given back.      *)
(***************************************************************************)
NoTriggerLeftBehind ==
  \A r \in Rows : timers[r].state \in TrigBit => mutex = TimerThread /\ loop <= r

(***************************************************************************)
(* An armed row is out of reach if its val is more than half the range of  *)
(* TIMEVAL, 292271 years.                                                  *)
(***************************************************************************)
ArmedRows == {r \in Rows : timers[r].state \in ArmedBit}

InReach(r) == timers[r].val <= Farthest

OnItsWay == notify + waiting > 0 \/ loop = FirstPass

(***************************************************************************)
(* While an alarm within reach is armed, either the hardware timer runs or *)
(* a notification is on its way: SetAlarm's test on total_sleep_time never *)
(* leaves it without a wakeup, in spite of the stamp of last_sig and the   *)
(* belief total_sleep_time being updated at two times, and whatever stamps *)
(* fall between the two reads of getElapsedTime.                           *)
(***************************************************************************)
NoLostWakeup ==
  remain # Deleted /\ (\E r \in ArmedRows : InReach(r)) => HardwareRuns \/ OnItsWay

(***************************************************************************)
(* An alarm is out of reach, and so forgotten, only if a stamp fell into   *)
(* the read of the SetAlarm that set it: val + elapsed_time is then less   *)
(* than 0 if its delay was shorter than the time between (timer.c:86).     *)
(***************************************************************************)
OutOfReachOnlyAcross == \A r \in ArmedRows : r \notin across => InReach(r)

(***************************************************************************)
(* The unsigned sum total_sleep_time + overrun wraps only when no row is   *)
(* compared with it but one that was set across a stamp.                   *)
(***************************************************************************)
WrapIsHarmless == total_sleep_time + UNS32_MAX > TIMEVAL_MAX => ArmedRows \subseteq across

(***************************************************************************)
(* No alarm is forgotten but those set across a stamp, whatever callbacks  *)
(* and other threads do between the passes, between the stamp and the      *)
(* dispatch and while another alarm is set across a stamp: a triggered row *)
(* is still ahead of the second pass, an armed one is within reach, will   *)
(* be woken up for and is never compared with a sum that wraps.            *)
(***************************************************************************)
NoAlarmForgotten ==
  NoTriggerLeftBehind /\ NoLostWakeup /\ OutOfReachOnlyAcross /\ WrapIsHarmless

(***************************************************************************)
(* The driver implements AlarmService: a callback that runs was pending,   *)
(* none runs after its alarm was deleted, even if it was already triggered *)
(* in the first pass, and no alarm occupies two rows.                      *)
(***************************************************************************)
PendingOnce ==
  {timers[r].callback : r \in {q \in Rows : Used(q) /\ timers[q].interval = 0}}

PendingCyclic ==
  {timers[r].callback : r \in {q \in Rows : Used(q) /\ timers[q].interval # 0}}

Service == INSTANCE AlarmService
  WITH once <- PendingOnce, cyclic <- PendingCyclic, active <- running

ImplementsAlarmService == Service!ServiceSpec

(***************************************************************************)
(* With notifications handled at once, before any other thread gets the   *)
(* mutex, every callback, one-shot or periodic, is called on time, in      *)
(* spite of total_sleep_time being shared by all rows.  The one tick of    *)
(* delay is setTimer(0), which StartTimerLoop causes once.                 *)
(***************************************************************************)
OnTime == [][\A r \in Rows : Call(r) /\ remain # Deleted => togo[r] \in {-1, 0}]_vars

(***************************************************************************)
(* An alarm set is called in the end, unless it is deleted or the timer    *)
(* loop is stopped; a periodic one again and again.                        *)
(***************************************************************************)
EveryAlarmIsServed ==
  \A u \in Users : handle[u] # TIMER_NONE ~>
    (handle[u] = TIMER_NONE \/ running = u \/ remain = Deleted)

=============================================================================
