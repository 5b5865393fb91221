----------------------------- MODULE LifeGuard -----------------------------
(***************************************************************************)
(* Heartbeat and node guarding of a node: src/src/lifegrd.c, with the two  *)
(* functions of nmtMaster.c that send guard requests.  The functions of    *)
(* the code are operators from a node's state d to its next one; d.out     *)
(* collects the frames canSend is given, in order.                         *)
(*                                                                         *)
(* The toggle bit of guard responses is left out: nobody reads it.         *)
(***************************************************************************)
EXTENDS Alarms, Sequences, FiniteSets

CONSTANTS
  NMT_MAX_NODE_ID,          \* length of NMTable, 128
  Nodes,                    \* node ids
  ConsumerHeartbeatEntries, \* of each node: object 0x1016, node and time
  MaxUNS8                   \* the greatest value of an UNS8, 255

ASSUME LifeGuardAssumption ==
  /\ NMT_MAX_NODE_ID \in Nat
  /\ Nodes \subseteq 1 .. NMT_MAX_NODE_ID - 1
  /\ \A n \in Nodes : ConsumerHeartbeatEntries[n] \in Seq([node : Nodes, time : Nat])
  /\ MaxUNS8 \in Nat

Initialisation == "Initialisation"
Disconnected == "Disconnected"
Stopped == "Stopped"
Operational == "Operational"
Pre_operational == "Pre_operational"
Unknown_state == "Unknown_state"

ConsumerHeartbeatCount(n) == Len(ConsumerHeartbeatEntries[n])
Entries(n) == 1 .. ConsumerHeartbeatCount(n)

\* The alarms of a node; each has a variable for its handle.
Consumer(i) == <<"ConsumerHeartbeatAlarm", i>>
Producer == <<"ProducerHeartbeatAlarm", 0>>
Guard == <<"GuardTimeAlarm", 0>>
AlarmNames(n) == {Consumer(i) : i \in Entries(n)} \cup {Producer, Guard}

\* The users do not look at a handle TIMER_NONE: the table has a row for each.
ASSUME RowsAssumption ==
  \A n \in Nodes : NoAlarm \notin AlarmNames(n) /\ Cardinality(AlarmNames(n)) <= MAX_NB_TIMER

-----------------------------------------------------------------------------
Send(d, frame) == [d EXCEPT !.out = Append(@, frame)]

NodeGuardFrame(node, state) ==
  [proto |-> "NODE_GUARD", node |-> node, rtr |-> FALSE, arg |-> state]

NodeGuardRequest(node) ==
  [proto |-> "NODE_GUARD", node |-> node, rtr |-> TRUE, arg |-> Unknown_state]

-----------------------------------------------------------------------------
(***************************************************************************)
(* The alarms' callbacks.                                                  *)
(***************************************************************************)
ConsumerAlarmKeepsHandle(n, d, i) ==
  [d EXCEPT !.NMTable[ConsumerHeartbeatEntries[n][i].node] = Disconnected]

ConsumerHeartbeatAlarm(n, d, i) ==
  [d EXCEPT !.handle[Consumer(i)] = TIMER_NONE,
            !.NMTable[ConsumerHeartbeatEntries[n][i].node] = Disconnected]

ProducerHeartbeatAlarm(n, d) ==
  IF d.ProducerHeartBeatTime # 0 THEN Send(d, NodeGuardFrame(n, d.nodeState))
  ELSE Del(d, Producer)

masterSendNMTnodeguard(d, node) == Send(d, NodeGuardRequest(node))

\* Nodes whose state is known are polled.
Guarded(n, d) == {p \in Nodes : d.NMTable[p] # Unknown_state /\ p # n}

ExpiredBelowZero(n, d) == {p \in Guarded(n, d) : d.nodeGuardStatus[p] < 0}

GuardExpired(n, d) == {p \in Guarded(n, d) : d.nodeGuardStatus[p] <= 0}

OneLess(status) == (status - 1) % (MaxUNS8 + 1)

CountDown(n, d) ==
  [d EXCEPT
     !.NMTable = [p \in Nodes |-> IF p \in GuardExpired(n, d) THEN Disconnected ELSE @[p]],
     !.nodeGuardStatus =
       [p \in Nodes |-> IF p \in Guarded(n, d) THEN OneLess(@[p]) ELSE @[p]]]

SendIfGuarded(n, d, p, s) == IF p \in Guarded(n, d) THEN masterSendNMTnodeguard(s, p) ELSE s

GuardTimeAlarm(n, d) ==
  LET upTo[p \in 0 .. NMT_MAX_NODE_ID - 1] ==
        IF p = 0 THEN CountDown(n, d) ELSE SendIfGuarded(n, d, p, upTo[p - 1])
  IN  IF d.GuardTime = 0 THEN Del(d, Guard) ELSE upTo[NMT_MAX_NODE_ID - 1]

-----------------------------------------------------------------------------
(***************************************************************************)
(* Starting and stopping, and the writes of 0x1017, 0x100C and 0x100D.     *)
(***************************************************************************)
StartConsumer(n, d, i) ==
  LET time == ConsumerHeartbeatEntries[n][i].time
  IN  IF time # 0 THEN Set(d, Consumer(i), time, 0) ELSE d

StartProducer(d) ==
  LET time == d.ProducerHeartBeatTime
  IN  IF time # 0 THEN Set(d, Producer, time, time) ELSE d

heartbeatInit(n, d) ==
  LET upTo[i \in 0 .. ConsumerHeartbeatCount(n)] ==
        IF i = 0 THEN [d EXCEPT !.registered = TRUE] ELSE StartConsumer(n, upTo[i - 1], i)
  IN  StartProducer(upTo[ConsumerHeartbeatCount(n)])

nodeguardInit(n, d) ==
  LET time == d.GuardTime
  IN  IF time = 0 \/ d.LifeTimeFactor = 0 THEN d
      ELSE [Set(d, Guard, time, time) EXCEPT
              !.nodeGuardStatus = [p \in Nodes |-> IF p \in Guarded(n, d)
                                                   THEN d.LifeTimeFactor ELSE @[p]]]

heartbeatStop(n, d) ==
  LET upTo[i \in 0 .. ConsumerHeartbeatCount(n)] ==
        IF i = 0 THEN d ELSE Del(upTo[i - 1], Consumer(i))
  IN  Del(upTo[ConsumerHeartbeatCount(n)], Producer)

nodeguardStop(d) == Del(d, Guard)

lifeGuardInit(n, d) == nodeguardInit(n, heartbeatInit(n, d))

lifeGuardStop(n, d) == nodeguardStop(heartbeatStop(n, d))

OnHeartbeatProducerUpdate(d) ==
  LET stopped == Del(d, Producer)
  IN  IF d.ProducerHeartBeatTime # 0
      THEN Set(stopped, Producer, 0, d.ProducerHeartBeatTime)
      ELSE stopped

OnNodeGuardUpdate(n, d) == nodeguardInit(n, nodeguardStop(d))

-----------------------------------------------------------------------------
(***************************************************************************)
(* proceedNODE_GUARD: a guard request, or a boot-up, heartbeat or guard    *)
(* response of node m.node.                                                *)
(***************************************************************************)
RenewedIfRunning(n, d, i, node) ==
  LET entry == ConsumerHeartbeatEntries[n][i]
  IN  IF entry.node # node \/ d.handle[Consumer(i)] = TIMER_NONE THEN d
      ELSE Set(Del(d, Consumer(i)), Consumer(i), entry.time, 0)

Renewed(n, d, i, node) ==
  LET entry == ConsumerHeartbeatEntries[n][i]
  IN  IF entry.node # node THEN d
      ELSE Set(Del(d, Consumer(i)), Consumer(i), entry.time, 0)

HeardOnChange(d, m) ==
  IF d.NMTable[m.node] = m.arg THEN d
  ELSE [d EXCEPT !.nodeGuardStatus[m.node] = d.LifeTimeFactor, !.NMTable[m.node] = m.arg]

HeardUnlessLost(d, m) ==
  [d EXCEPT !.nodeGuardStatus[m.node] = d.LifeTimeFactor,
            !.NMTable[m.node] = IF @ = Disconnected THEN @ ELSE m.arg]

Heard(d, m) ==
  [d EXCEPT !.nodeGuardStatus[m.node] = d.LifeTimeFactor, !.NMTable[m.node] = m.arg]

RenewAll(n, d, node) ==
  LET upTo[i \in 0 .. ConsumerHeartbeatCount(n)] ==
        IF i = 0 THEN d ELSE Renewed(n, upTo[i - 1], i, node)
  IN  upTo[ConsumerHeartbeatCount(n)]

proceedNODE_GUARD(n, d, m) ==
  IF m.rtr
  THEN IF m.node = n THEN Send(d, NodeGuardFrame(n, d.nodeState)) ELSE d
  ELSE IF m.arg = Unknown_state THEN Heard(d, m)
  ELSE RenewAll(n, Heard(d, m), m.node)

\* masterRequestNodeState(node), and of node 0.
masterRequestNodeState(d, node) ==
  masterSendNMTnodeguard([d EXCEPT !.NMTable[node] = Unknown_state], node)

masterRequestAllStates(d) ==
  masterSendNMTnodeguard([d EXCEPT !.NMTable = [p \in Nodes |-> Unknown_state]], 0)

=============================================================================
