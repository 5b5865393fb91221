---------------------------- MODULE ProcessData ----------------------------
(***************************************************************************)
(* A producer of process data (PDO) and a consumer on a bus that may lose  *)
(* frames: the application changes values and signals it, masters write    *)
(* the communication parameters, SYNCs and requests arrive at any time.    *)
(* Each step is what one thread does while it holds the producer's mutex.  *)
(***************************************************************************)
EXTENDS PDO, SequencesExt

CONSTANTS
  Values,        \* contents of a PDO
  Types,         \* transmission types that are written
  InhibitTimes, EventTimes, SyncPeriods,
  Longest,       \* bound: since stops there
  MaxWrites,     \* bound: writes of the dictionary
  MaxLosses      \* bound: frames lost

ASSUME ProcessDataAssumption ==
  /\ NoValue \notin Values
  /\ Types \subseteq 0 .. 255
  /\ InhibitTimes \cup EventTimes \cup SyncPeriods \cup {Longest, MaxWrites, MaxLosses}
       \subseteq Nat
  /\ \A time \in InhibitTimes : time <= Longest

VARIABLES
  d,         \* the producer
  copy,      \* what the consumer received last of each PDO
  signalled, \* ghost: the application signalled its last change
  since,     \* ghost: ticks since each PDO was sent, or Never since PDOs are on
  writes, losses

vars == <<d, copy, signalled, since, writes, losses>>

-----------------------------------------------------------------------------
Unknown_state == "Unknown_state"
Pre_operational == "Pre_operational"
Operational == "Operational"
Stopped == "Stopped"

Never == Longest + 1

Init ==
  /\ \E v \in Values, type \in [TPDOs -> Types], inhibit \in [TPDOs -> InhibitTimes],
        event \in [TPDOs -> EventTimes], period \in SyncPeriods :
       /\ d = [nodeState |-> Unknown_state, csPDO |-> FALSE, csSYNC |-> FALSE,
               valid |-> [p \in TPDOs |-> TRUE], type |-> type, inhibit |-> inhibit, event |-> event,
               value |-> [p \in TPDOs |-> v],
               last_message |-> [p \in TPDOs |-> [cob_id |-> NoCobId, value |-> NoValue]],
               transmit_type_parameter |-> [p \in TPDOs |-> 0],
               alarms |-> EmptyTable, handle |-> [a \in AlarmNames |-> TIMER_NONE],
               generates |-> TRUE, Sync_Cycle_Period |-> period,
               registered |-> FALSE, syncRegistered |-> FALSE, out |-> <<>>]
       /\ copy = [p \in TPDOs |-> NoValue]
  /\ signalled = [p \in TPDOs |-> FALSE]
  /\ since = [p \in TPDOs |-> Never]
  /\ writes = 0 /\ losses = 0

-----------------------------------------------------------------------------
\* proceedPDO at the consumer, for the data of PDO p.
Receives(c, frame) ==
  IF frame.cob_id \in TPDOs THEN [c EXCEPT ![frame.cob_id] = frame.value] ELSE c

Sends(new, p) == \E i \in DOMAIN new.out : new.out[i].cob_id = p

\* The producer becomes new; what it sends is received, or is lost.
Becomes(new) ==
  /\ d' = [new EXCEPT !.out = <<>>]
  /\ since' = [p \in TPDOs |-> IF ~new.csPDO THEN Never
                               ELSE IF Sends(new, p) THEN 0 ELSE since[p]]
  /\ \/ copy' = FoldLeft(Receives, copy, new.out) /\ UNCHANGED losses
     \/ /\ new.out # <<>> /\ losses < MaxLosses
        /\ losses' = losses + 1
        /\ UNCHANGED copy

-----------------------------------------------------------------------------
(***************************************************************************)
(* Time and alarms, as in Network.                                         *)
(***************************************************************************)
Tick ==
  /\ \A r \in Rows : ~Due(d.alarms, r)
  /\ d' = [d EXCEPT !.alarms = OneTickLater(@)]
  /\ since' = [p \in TPDOs |-> IF since[p] < Longest THEN since[p] + 1 ELSE since[p]]
  /\ UNCHANGED <<copy, signalled, writes, losses>>

CallAlarm(r) ==
  /\ Due(d.alarms, r)
  /\ \A q \in Rows : q < r => ~Due(d.alarms, q)
  /\ LET alarm == d.alarms[r].alarm
         called == [d EXCEPT !.alarms = Called(@, r)]
     IN  Becomes(IF alarm = Sync THEN SyncAlarm(called)
                 ELSE IF alarm = Event(alarm[2]) THEN PDOEventTimerAlarm(called, alarm[2])
                 ELSE PDOInhibitTimerAlarm(called, alarm[2]))
  /\ UNCHANGED <<signalled, writes>>

-----------------------------------------------------------------------------
(***************************************************************************)
(* The application, the bus and the masters.                               *)
(***************************************************************************)
Change(p, v) ==
  /\ v # d.value[p]
  /\ d' = [d EXCEPT !.value[p] = v]
  /\ signalled' = [signalled EXCEPT ![p] = FALSE]
  /\ UNCHANGED <<copy, since, writes, losses>>

Signal ==
  /\ Becomes(sendPDOevent(d))
  /\ signalled' = d.valid
  /\ UNCHANGED writes

\* canDispatch of a SYNC, and of a request for PDO p.
ReceiveSYNC ==
  /\ d.csSYNC
  /\ Becomes(proceedSYNC(d))
  /\ UNCHANGED <<signalled, writes>>

Request(p) ==
  /\ d.csPDO
  /\ Becomes(proceedPDORequest(d, p))
  /\ UNCHANGED <<signalled, writes>>

\* setState: SYNC is started and stopped before PDO.
Switch(new, state) ==
  LET sync == state # Stopped
      pdo == state = Operational
      d1 == IF sync /\ ~new.csSYNC THEN startSYNC([new EXCEPT !.csSYNC = TRUE])
            ELSE IF ~sync /\ new.csSYNC THEN stopSYNC([new EXCEPT !.csSYNC = FALSE])
            ELSE new
  IN  IF pdo /\ ~d1.csPDO THEN PDOInit([d1 EXCEPT !.csPDO = TRUE])
      ELSE IF ~pdo /\ d1.csPDO THEN PDOStop([d1 EXCEPT !.csPDO = FALSE])
      ELSE d1

setState(state) ==
  /\ state # d.nodeState
  /\ d.nodeState = Unknown_state => state = Pre_operational
  /\ Becomes(Switch([d EXCEPT !.nodeState = state], state))
  /\ UNCHANGED <<signalled, writes>>

\* A write of an object; its callback is called once it is registered.
Writes(written, registered, callback) ==
  /\ writes < MaxWrites
  /\ writes' = writes + 1
  /\ Becomes(IF registered THEN callback ELSE written)

WritePDO(p, written) ==
  /\ Writes(written, d.registered, TPDO_Communication_Parameter_Callback(written, p))
  /\ UNCHANGED signalled

WriteType(p, type) == WritePDO(p, [d EXCEPT !.type[p] = type])
WriteInhibit(p, time) == WritePDO(p, [d EXCEPT !.inhibit[p] = time])
WriteEvent(p, time) == WritePDO(p, [d EXCEPT !.event[p] = time])

\* Bit 31 of the COB-id is inverted: no callback is registered for it.
WriteCOBID(p) ==
  LET written == [d EXCEPT !.valid[p] = ~@]
  IN  /\ Writes(written, FALSE, written)
      /\ signalled' = [signalled EXCEPT ![p] = FALSE]

WriteSYNC(generates, period) ==
  LET written == [d EXCEPT !.generates = generates, !.Sync_Cycle_Period = period]
  IN  /\ generates = d.generates \/ period = d.Sync_Cycle_Period
      /\ Writes(written, d.syncRegistered, OnCOB_ID_SyncUpdate(written))
      /\ UNCHANGED signalled

-----------------------------------------------------------------------------
Next ==
  \/ Tick
  \/ \E r \in Rows : CallAlarm(r)
  \/ \E p \in TPDOs, v \in Values : Change(p, v)
  \/ Signal
  \/ ReceiveSYNC
  \/ \E p \in TPDOs : Request(p)
  \/ \E state \in {Pre_operational, Operational, Stopped} : setState(state)
  \/ \E p \in TPDOs, type \in Types : WriteType(p, type)
  \/ \E p \in TPDOs, time \in InhibitTimes : WriteInhibit(p, time)
  \/ \E p \in TPDOs, time \in EventTimes : WriteEvent(p, time)
  \/ \E p \in TPDOs : WriteCOBID(p)
  \/ \E generates \in BOOLEAN, period \in SyncPeriods : WriteSYNC(generates, period)

Spec == Init /\ [][Next]_vars

\* Time passes and alarms are called (UnixTimer's EveryAlarmIsServed).
Fairness == WF_vars(Tick \/ \E r \in Rows : CallAlarm(r))

FairSpec == Spec /\ Fairness

-----------------------------------------------------------------------------
(***************************************************************************)
(* Properties.                                                             *)
(***************************************************************************)
(***************************************************************************)
(* Every handle is of a row that calls its owner, and every used row is    *)
(* held: whatever the order of writes, requests, SYNCs and expirations, no *)
(* timer of a PDO runs on without owner or is deleted by another's.        *)
(***************************************************************************)
TimersMatchHandles ==
  /\ \A a \in AlarmNames : d.handle[a] # TIMER_NONE => d.alarms[d.handle[a]].alarm = a
  /\ \A r \in UsedRows(d.alarms) : d.handle[d.alarms[r].alarm] = r

(***************************************************************************)
(* The byte transmit_type_parameter, an inhibit flag for some types and a  *)
(* count of SYNCs for others, silences no PDO for ever, whatever types it  *)
(* is used for in turn: an inhibited PDO has the timer that ends it, and a *)
(* PDO "transmited every n SYNC" counts up to n and no further when it has *)
(* no inhibit time.                                                        *)
(***************************************************************************)
NoPDOIsStuck ==
  \A p \in TPDOs :
    /\ OnEvent(d, p) /\ Flagged(d, p) => d.handle[Inhibit(p)] # TIMER_NONE
    /\ Cyclic(d, p) /\ d.inhibit[p] = 0 => d.transmit_type_parameter[p] < d.type[p]

(***************************************************************************)
(* A PDO with an event time that was sent since PDOs are switched on is    *)
(* either timed or will be sent as soon as its inhibition ends.            *)
(***************************************************************************)
EventTimerGoesOn ==
  \A p \in Buildable :
    OnEvent(d, p) /\ d.event[p] # 0 /\ since[p] # Never =>
      \/ d.handle[Event(p)] # TIMER_NONE
      \/ Flagged(d, p) /\ d.last_message[p].cob_id = NoCobId

(***************************************************************************)
(* Between two transmissions of a PDO lies its inhibit time, unless it is  *)
(* requested or its parameters are written: before that, neither a signal  *)
(* nor its event timer could send it, and its inhibition does not end.     *)
(***************************************************************************)
InhibitTimeIsKept ==
  \A p \in TPDOs : OnEvent(d, p) /\ since[p] < d.inhibit[p] =>
    /\ ~Sends(sendPDOevent(d), p)
    /\ ~Sends(PDOEventTimerAlarm(d, p), p)
    /\ \A r \in Rows : Due(d.alarms, r) => d.alarms[r].alarm # Inhibit(p)

(***************************************************************************)
(* SYNC is generated as the dictionary says, in every state that has it,   *)
(* and writes are heard of in exactly those states.                        *)
(***************************************************************************)
SyncFollowsDictionary ==
  /\ d.syncRegistered = d.csSYNC
  /\ (d.handle[Sync] # TIMER_NONE) = (d.csSYNC /\ d.generates /\ d.Sync_Cycle_Period # 0)
  /\ d.handle[Sync] # TIMER_NONE => d.alarms[d.handle[Sync]].interval = d.Sync_Cycle_Period

(***************************************************************************)
(* The consumer gets and keeps the value of a PDO on event once it does    *)
(* not change any more: if it has an event time and was sent, whatever was *)
(* lost, and otherwise if the change was signalled and nothing was lost.   *)
(***************************************************************************)
Published(p) ==
  /\ d.csPDO /\ d.valid[p] /\ OnEvent(d, p) /\ p \in Buildable
  /\ (d.event[p] # 0 /\ since[p] # Never) \/ (signalled[p] /\ losses = 0)

ConsumerFollows ==
  \A p \in TPDOs, v \in Values :
    <>[](Published(p) /\ d.value[p] = v) => <>[](copy[p] = v)

(***************************************************************************)
(* "RTR_SYNC means data prepared at SYNC, transmitted on RTR" (pdo.c): the *)
(* answer to a request is a frame of the PDO, with its COB-id.             *)
(***************************************************************************)
RequestIsAnsweredByPDO ==
  \A p \in TPDOs : d.csPDO /\ d.type[p] = TRANS_RTR_SYNC =>
    LET answer == proceedPDORequest(d, p).out
    IN  \A i \in DOMAIN answer : answer[i].cob_id = p

=============================================================================
