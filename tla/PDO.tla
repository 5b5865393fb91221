-------------------------------- MODULE PDO --------------------------------
(***************************************************************************)
(* Transmit PDOs and SYNC: src/src/pdo.c and src/src/sync.c.  The          *)
(* functions of the code are operators from a node's state d to its next   *)
(* one; d.out collects the frames canSend is given, in order.              *)
(*                                                                         *)
(* The objects mapped into a PDO, their sizes and bits, are one value.     *)
(***************************************************************************)
EXTENDS Alarms, Sequences, FiniteSets

CONSTANTS
  NbTPDO,     \* transmit PDOs: objects 0x1800 ...
  Buildable,  \* those whose mapping buildPDO accepts
  NoValue,    \* the content of a frame without data
  MaxUNS8     \* the greatest value of an UNS8, 255

ASSUME PDOAssumption ==
  NbTPDO \in 0 .. 127 /\ Buildable \subseteq 1 .. NbTPDO /\ MaxUNS8 \in Nat \ {0}

TPDOs == 1 .. NbTPDO

TRANS_SYNC_ACYCLIC == 0
TRANS_SYNC_MIN == 1
TRANS_SYNC_MAX == 240
TRANS_RTR_SYNC == 252
TRANS_RTR == 253
TRANS_EVENT_SPECIFIC == 254
TRANS_EVENT_PROFILE == 255

Cyclic(d, p) == d.type[p] \in TRANS_SYNC_MIN .. TRANS_SYNC_MAX
OnEvent(d, p) == d.type[p] \in {TRANS_EVENT_SPECIFIC, TRANS_EVENT_PROFILE}

Event(p) == <<"PDOEventTimerAlarm", p>>
Inhibit(p) == <<"PDOInhibitTimerAlarm", p>>
Sync == <<"SyncAlarm", 0>>
AlarmNames == {Event(p) : p \in TPDOs} \cup {Inhibit(p) : p \in TPDOs} \cup {Sync}

\* The users do not look at a handle TIMER_NONE: the table has a row for each.
ASSUME RowsAssumption ==
  /\ NoAlarm \notin AlarmNames
  /\ Cardinality(AlarmNames) <= MAX_NB_TIMER

\* A frame names its PDO; 0 is the COB-id of NMT, and of no PDO.
NoCobId == 0
SYNC == 128

buildPDO(d, p) == [cob_id |-> p, value |-> d.value[p]]

-----------------------------------------------------------------------------
(***************************************************************************)
(* transmit_type_parameter counts SYNCs of a cyclic PDO.  Of the others,   *)
(* its first bit is both PDO_INHIBITED and PDO_RTR_SYNC_READY.             *)
(***************************************************************************)
Flagged(d, p) == d.transmit_type_parameter[p] % 2 = 1

SetFlag(d, p) ==
  [d EXCEPT !.transmit_type_parameter[p] = IF Flagged(d, p) THEN @ ELSE @ + 1]

ClearFlag(d, p) ==
  [d EXCEPT !.transmit_type_parameter[p] = IF Flagged(d, p) THEN @ - 1 ELSE @]

sendPdo(d, p, pdo) == [d EXCEPT !.last_message[p] = pdo, !.out = Append(@, pdo)]

StartEventTimer(d, p) ==
  IF d.event[p] = 0 THEN d ELSE Set(Del(d, Event(p)), Event(p), d.event[p], 0)

StartInhibitTimer(d, p) ==
  IF d.inhibit[p] = 0 THEN d
  ELSE SetFlag(Set(Del(d, Inhibit(p)), Inhibit(p), d.inhibit[p], 0), p)

sendUninhibited(d, p) ==
  IF ~d.csPDO \/ p \notin Buildable \/ d.last_message[p] = buildPDO(d, p) THEN d
  ELSE sendPdo(StartInhibitTimer(StartEventTimer(d, p), p), p, buildPDO(d, p))

\* Transmits a PDO whose content changed, unless it is inhibited.
sendOnePDOevent(d, p) ==
  IF ~d.csPDO \/ Flagged(d, p) \/ p \notin Buildable \/ d.last_message[p] = buildPDO(d, p)
  THEN d
  ELSE sendPdo(StartInhibitTimer(StartEventTimer(d, p), p), p, buildPDO(d, p))

EventAlarmKeepsHandle(d, p) == sendOnePDOevent([d EXCEPT !.last_message[p].cob_id = NoCobId], p)

EventAlarmNotForced(d, p) == sendOnePDOevent([d EXCEPT !.handle[Event(p)] = TIMER_NONE], p)

\* The content is made to differ by its COB-id.
PDOEventTimerAlarm(d, p) ==
  sendOnePDOevent([d EXCEPT !.handle[Event(p)] = TIMER_NONE,
                            !.last_message[p].cob_id = NoCobId], p)

InhibitAlarmOnlyClears(d, p) == [ClearFlag(d, p) EXCEPT !.handle[Inhibit(p)] = TIMER_NONE]

PDOInhibitTimerAlarm(d, p) ==
  sendOnePDOevent([ClearFlag(d, p) EXCEPT !.handle[Inhibit(p)] = TIMER_NONE], p)

-----------------------------------------------------------------------------
(***************************************************************************)
(* _sendPDOevent: an event of the application, or a SYNC.                  *)
(***************************************************************************)
CyclicSync(d, p) ==
  LET count == (d.transmit_type_parameter[p] + 1) % (MaxUNS8 + 1)
  IN  IF count # d.type[p] THEN [d EXCEPT !.transmit_type_parameter[p] = count]
      ELSE LET reset == [d EXCEPT !.transmit_type_parameter[p] = 0]
           IN  IF p \in Buildable THEN sendPdo(reset, p, buildPDO(d, p)) ELSE reset

\* The data are sampled now and sent when they are requested.
Sample(d, p) ==
  IF p \in Buildable THEN SetFlag([d EXCEPT !.last_message[p] = buildPDO(d, p)], p)
  ELSE ClearFlag([d EXCEPT !.last_message[p].cob_id = p], p)

\* Only _sendPDOevent looks at bit 31 of the COB-id: timers and requests send a
\* PDO that is not valid.
OnePDOAtSync(d, p) ==
  IF ~d.valid[p] THEN d
  ELSE IF Cyclic(d, p) THEN CyclicSync(d, p)
  ELSE IF d.type[p] = TRANS_RTR_SYNC THEN Sample(d, p)
  ELSE IF d.type[p] = TRANS_SYNC_ACYCLIC THEN sendOnePDOevent(d, p)
  ELSE d

OnePDOAtEvent(d, p) == IF d.valid[p] /\ OnEvent(d, p) THEN sendOnePDOevent(d, p) ELSE d

OnePDO(d, p, isSyncEvent) ==
  IF isSyncEvent = 1 THEN OnePDOAtSync(d, p) ELSE OnePDOAtEvent(d, p)

\* _sendPDOevent: of all PDOs, in order, once they are switched on.
AllPDOs(d, isSyncEvent) ==
  LET upTo[p \in 0 .. NbTPDO] == IF p = 0 THEN d ELSE OnePDO(upTo[p - 1], p, isSyncEvent)
  IN  IF d.csPDO THEN upTo[NbTPDO] ELSE d

sendPDOevent(d) == AllPDOs(d, 0)

proceedSYNC(d) == AllPDOs(d, 1)

-----------------------------------------------------------------------------
(***************************************************************************)
(* Requests, writes of the communication parameters, start and stop.       *)
(***************************************************************************)
StopTimers(d, p) == Del(Del(d, Event(p)), Inhibit(p))

RequestKeepsFlag(d, p) ==
  IF OnEvent(d, p) THEN PDOEventTimerAlarm(StopTimers(d, p), p) ELSE d

\* proceedPDO of a request for PDO p.
proceedPDORequest(d, p) ==
  IF d.type[p] = TRANS_RTR_SYNC /\ Flagged(d, p)
  THEN [d EXCEPT !.out = Append(@, d.last_message[p])]
  ELSE IF d.type[p] \in {TRANS_RTR, TRANS_RTR_SYNC}
  THEN IF p \in Buildable THEN [d EXCEPT !.out = Append(@, buildPDO(d, p))] ELSE d
  ELSE IF OnEvent(d, p) THEN PDOEventTimerAlarm(ClearFlag(StopTimers(d, p), p), p)
  ELSE d

TPDO_Communication_Parameter_Callback(d, p) ==
  IF ~d.csPDO THEN d
  ELSE PDOEventTimerAlarm([StopTimers(d, p) EXCEPT !.transmit_type_parameter[p] = 0], p)

PDOInit(d) == sendPDOevent([d EXCEPT !.registered = TRUE])

StopOnePDO(d, p) ==
  [StopTimers(d, p) EXCEPT !.transmit_type_parameter[p] = 0,
                           !.last_message[p].cob_id = NoCobId]

PDOStop(d) ==
  LET upTo[p \in 0 .. NbTPDO] == IF p = 0 THEN d ELSE StopOnePDO(upTo[p - 1], p)
  IN  upTo[NbTPDO]

-----------------------------------------------------------------------------
(***************************************************************************)
(* SYNC.  d.generates is bit 30 of COB_ID_Sync.                            *)
(***************************************************************************)
stopSYNC(d) == Del([d EXCEPT !.syncRegistered = FALSE], Sync)

RestartUnregistered(d) ==
  LET started == IF d.handle[Sync] = TIMER_NONE THEN [d EXCEPT !.syncRegistered = TRUE]
                 ELSE stopSYNC(d)
  IN  IF d.generates /\ d.Sync_Cycle_Period # 0
      THEN Set(started, Sync, d.Sync_Cycle_Period, d.Sync_Cycle_Period)
      ELSE started

startSYNC(d) ==
  LET stopped == IF d.handle[Sync] = TIMER_NONE THEN d ELSE stopSYNC(d)
      started == [stopped EXCEPT !.syncRegistered = TRUE]
  IN  IF d.generates /\ d.Sync_Cycle_Period # 0
      THEN Set(started, Sync, d.Sync_Cycle_Period, d.Sync_Cycle_Period)
      ELSE started

OnCOB_ID_SyncUpdate(d) == startSYNC(d)

sendSYNCMessage(d) == [d EXCEPT !.out = Append(@, [cob_id |-> SYNC, value |-> NoValue])]

SyncAlarm(d) == proceedSYNC(sendSYNCMessage(d))

=============================================================================
