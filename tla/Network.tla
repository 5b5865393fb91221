------------------------------ MODULE Network ------------------------------
(***************************************************************************)
(* Nodes on a CAN bus that command, watch and guard one another: NodeState *)
(* under frames that take time and may be lost, alarms, users, writes of   *)
(* the objects that control life guarding, and nodes that crash and boot.  *)
(* Each step is what one thread does while it holds the mutex of its node. *)
(***************************************************************************)
EXTENDS NodeState, Functions

CONSTANTS
  Defaults,            \* of each node: ProducerHeartBeatTime, GuardTime, LifeTimeFactor
  HeartBeatTimes,      \* what is written to 0x1017
  GuardTimes,          \* what is written to 0x100C
  LifeTimeFactors,     \* what is written to 0x100D
  MaxDelay,            \* bound: ticks a frame is on its way
  Longest,             \* bound: undisturbed stops there (0: not counted)
  MaxCommands,         \* bound: calls of users
  MaxWrites,           \* bound: writes of the dictionaries
  MaxLosses,           \* bound: frames lost
  MaxCrashes           \* bound: crashes

ASSUME NetworkAssumption ==
  /\ HeartBeatTimes \subseteq Nat /\ GuardTimes \subseteq Nat
  /\ LifeTimeFactors \subseteq 0 .. MaxUNS8
  /\ \A n \in Nodes :
       Defaults[n] \in [ProducerHeartBeatTime : Nat, GuardTime : Nat, LifeTimeFactor : 0 .. MaxUNS8]
  /\ {MaxDelay, Longest, MaxCommands, MaxWrites, MaxLosses, MaxCrashes} \subseteq Nat

VARIABLES
  node,         \* the state of each node
  inbox,        \* the frames each node has not dispatched yet, with their age
  undisturbed,  \* ghost: ticks since a node booted or changed its heartbeat
  commands, writes, losses, crashes

vars == <<node, inbox, undisturbed, commands, writes, losses, crashes>>
counters == <<commands, writes, losses, crashes>>

-----------------------------------------------------------------------------
\* CO_Data before the first setState.
InitialNode(n) ==
  [nodeState |-> Unknown_state, communication |-> {},
   NMTable |-> [p \in Nodes |-> Unknown_state],
   nodeGuardStatus |-> [p \in Nodes |-> 0],
   alarms |-> EmptyTable, handle |-> [a \in AlarmNames(n) |-> TIMER_NONE],
   registered |-> FALSE, out |-> <<>>,
   ProducerHeartBeatTime |-> Defaults[n].ProducerHeartBeatTime,
   GuardTime |-> Defaults[n].GuardTime,
   LifeTimeFactor |-> Defaults[n].LifeTimeFactor]

Init ==
  /\ node = [n \in Nodes |-> InitialNode(n)]
  /\ inbox = [n \in Nodes |-> <<>>]
  /\ undisturbed = [n \in Nodes |-> 0]
  /\ commands = 0 /\ writes = 0 /\ losses = 0 /\ crashes = 0

Up(n) == node[n].nodeState # Unknown_state

WithAge(frames) == [i \in DOMAIN frames |-> [frame |-> frames[i], age |-> 0]]

\* Node n becomes d and what d sends is on the bus; own is n's own inbox.
Becomes(n, d, own) ==
  /\ node' = [node EXCEPT ![n] = [d EXCEPT !.out = <<>>]]
  /\ inbox' = [p \in Nodes |-> IF p = n THEN own
                               ELSE IF Up(p) THEN inbox[p] \o WithAge(d.out)
                               ELSE inbox[p]]
  /\ undisturbed' =
       IF \/ d.ProducerHeartBeatTime # node[n].ProducerHeartBeatTime
          \/ NodeGuardFrame(n, Initialisation) \in Range(d.out)
       THEN [undisturbed EXCEPT ![n] = 0] ELSE undisturbed

Acts(n, d) == Becomes(n, d, inbox[n])

-----------------------------------------------------------------------------
(***************************************************************************)
(* Time.  Frames are dispatched within MaxDelay ticks and due alarms are   *)
(* called before the next tick.                                            *)
(***************************************************************************)
Tick ==
  /\ \A n \in Nodes : /\ \A r \in Rows : ~Due(node[n].alarms, r)
                      /\ \A i \in DOMAIN inbox[n] : inbox[n][i].age < MaxDelay
  /\ node' = [n \in Nodes |-> [node[n] EXCEPT !.alarms = OneTickLater(@)]]
  /\ inbox' = [n \in Nodes |-> [i \in DOMAIN inbox[n] |->
                                  [inbox[n][i] EXCEPT !.age = @ + 1]]]
  /\ undisturbed' = [n \in Nodes |-> IF Up(n) /\ undisturbed[n] < Longest
                                     THEN undisturbed[n] + 1 ELSE undisturbed[n]]
  /\ UNCHANGED counters

Receive(n) ==
  /\ inbox[n] # <<>>
  /\ Becomes(n, canDispatch(n, node[n], Head(inbox[n]).frame), Tail(inbox[n]))
  /\ UNCHANGED counters

\* TimeDispatch calls the callback of row r, the first one due.
CallAlarm(n, r) ==
  /\ Due(node[n].alarms, r)
  /\ \A q \in Rows : q < r => ~Due(node[n].alarms, q)
  /\ LET alarm == node[n].alarms[r].alarm
         d == [node[n] EXCEPT !.alarms = Called(@, r)]
     IN  Acts(n, IF alarm = Producer THEN ProducerHeartbeatAlarm(n, d)
                 ELSE IF alarm = Guard THEN GuardTimeAlarm(n, d)
                 ELSE ConsumerHeartbeatAlarm(n, d, alarm[2]))
  /\ UNCHANGED counters

-----------------------------------------------------------------------------
(***************************************************************************)
(* Users, dictionaries, faults.                                            *)
(***************************************************************************)
Boot(n) ==
  /\ ~Up(n)
  /\ Acts(n, setState(n, node[n], Initialisation))
  /\ UNCHANGED counters

\* A call of the user of node n that makes it d.
Calls(n, d) ==
  /\ Up(n)
  /\ commands < MaxCommands
  /\ commands' = commands + 1
  /\ Acts(n, d)
  /\ UNCHANGED <<writes, losses, crashes>>

UserSetsState(n, state) == Calls(n, setState(n, node[n], state))

UserCommands(n, p, cs) ==
  n \notin Slaves /\ Calls(n, masterSendNMTstateChange(node[n], p, cs))

UserAsks(n, p) == n # p /\ Calls(n, masterRequestNodeState(node[n], p))

UserAsksAll(n) == Calls(n, masterRequestAllStates(node[n]))

\* A write of an object: its callback is called once it is registered.
Writes(n, written, callback) ==
  /\ Up(n)
  /\ writes < MaxWrites
  /\ writes' = writes + 1
  /\ Acts(n, IF node[n].registered THEN callback ELSE written)
  /\ UNCHANGED <<commands, losses, crashes>>

WriteHeartBeatTime(n, time) ==
  LET d == [node[n] EXCEPT !.ProducerHeartBeatTime = time]
  IN  Writes(n, d, OnHeartbeatProducerUpdate(d))

WriteGuardTime(n, time) ==
  LET d == [node[n] EXCEPT !.GuardTime = time]
  IN  Writes(n, d, OnNodeGuardUpdate(n, d))

WriteLifeTimeFactor(n, factor) ==
  LET d == [node[n] EXCEPT !.LifeTimeFactor = factor]
  IN  Writes(n, d, OnNodeGuardUpdate(n, d))

Lose(n) ==
  /\ inbox[n] # <<>>
  /\ losses < MaxLosses
  /\ losses' = losses + 1
  /\ inbox' = [inbox EXCEPT ![n] = Tail(@)]
  /\ UNCHANGED <<node, undisturbed, commands, writes, crashes>>

Crash(n) ==
  /\ Up(n)
  /\ crashes < MaxCrashes
  /\ crashes' = crashes + 1
  /\ node' = [node EXCEPT ![n] = InitialNode(n)]
  /\ inbox' = [inbox EXCEPT ![n] = <<>>]
  /\ undisturbed' = [undisturbed EXCEPT ![n] = 0]
  /\ UNCHANGED <<commands, writes, losses>>

-----------------------------------------------------------------------------
Next ==
  \/ Tick
  \/ \E n \in Nodes : Receive(n) \/ Boot(n) \/ Lose(n) \/ Crash(n) \/ UserAsksAll(n)
  \/ \E n \in Nodes, r \in Rows : CallAlarm(n, r)
  \/ \E n \in Nodes, s \in {Initialisation, Pre_operational, Operational, Stopped} :
       UserSetsState(n, s)
  \/ \E n \in Nodes, p \in Nodes \cup {Everybody}, cs \in Commands : UserCommands(n, p, cs)
  \/ \E n, p \in Nodes : UserAsks(n, p)
  \/ \E n \in Nodes, t \in HeartBeatTimes : WriteHeartBeatTime(n, t)
  \/ \E n \in Nodes, t \in GuardTimes : WriteGuardTime(n, t)
  \/ \E n \in Nodes, f \in LifeTimeFactors : WriteLifeTimeFactor(n, f)

Spec == Init /\ [][Next]_vars

(***************************************************************************)
(* Time passes, receive threads dispatch every frame, and alarms are       *)
(* called (UnixTimer's EveryAlarmIsServed).                                *)
(***************************************************************************)
Fairness ==
  WF_vars(Tick \/ \E n \in Nodes : Receive(n) \/ \E r \in Rows : CallAlarm(n, r))

FairSpec == Spec /\ Fairness

-----------------------------------------------------------------------------
(***************************************************************************)
(* Properties.                                                             *)
(***************************************************************************)
(***************************************************************************)
(* Of each alarm a node knows the handle, and each handle is of the alarm  *)
(* it is kept for: whatever the order of state changes, writes, frames and *)
(* expirations, no alarm runs on without owner and none is deleted by      *)
(* another's owner.  UnixTimer assumes this of its users.                  *)
(***************************************************************************)
AlarmsMatchHandles ==
  \A n \in Nodes :
    LET d == node[n] IN
    /\ \A a \in AlarmNames(n) : d.handle[a] # TIMER_NONE => d.alarms[d.handle[a]].alarm = a
    /\ \A r \in UsedRows(d.alarms) : d.handle[d.alarms[r].alarm] = r

(***************************************************************************)
(* A node on the consumer's list is watched, or was reported, or nothing   *)
(* is known of it: no order of events lets a consumer believe in a node    *)
(* that nothing watches.                                                   *)
(***************************************************************************)
Believed(n, p) == node[n].NMTable[p] \notin {Unknown_state, Disconnected}

WatchedOrReported ==
  \A n \in Nodes : Up(n) =>
    \A i \in Entries(n) :
      LET entry == ConsumerHeartbeatEntries[n][i]
      IN  entry.time # 0 /\ Believed(n, entry.node) => node[n].handle[Consumer(i)] # TIMER_NONE

(***************************************************************************)
(* No living node is reported dead.  The consumer's alarm for a node that  *)
(* has been up and producing for as long as the consumer waits never runs, *)
(* if the producer's period leaves room for the bus; nodeguardError is     *)
(* called for no node that has been up for a life time, if a request and   *)
(* its answer take less than that; unless a frame was lost.                *)
(***************************************************************************)
FalseHeartbeatError(n, r) ==
  \E i \in Entries(n) :
    /\ node[n].alarms[r].alarm = Consumer(i)
    /\ LET entry == ConsumerHeartbeatEntries[n][i]
           p == entry.node
       IN  /\ node[p].ProducerHeartBeatTime # 0
           /\ node[p].ProducerHeartBeatTime + MaxDelay < entry.time
           /\ undisturbed[p] >= entry.time

FalseGuardError(n, r) ==
  LET d == node[n]
      lifetime == d.GuardTime * d.LifeTimeFactor
  IN  /\ d.alarms[r].alarm = Guard
      /\ \E p \in GuardExpired(n, d) : 2 * MaxDelay < lifetime /\ undisturbed[p] >= lifetime

NoFalseError ==
  [][\A n \in Nodes, r \in Rows :
       CallAlarm(n, r) /\ losses = 0 => ~FalseHeartbeatError(n, r) /\ ~FalseGuardError(n, r)]_vars

(***************************************************************************)
(* A node that watches or guards another notices in the end that it is     *)
(* down, with whatever delays, lost frames and restarts.                   *)
(***************************************************************************)
Watches(n, p) ==
  \/ \E i \in Entries(n) : /\ ConsumerHeartbeatEntries[n][i].node = p
                           /\ ConsumerHeartbeatEntries[n][i].time # 0
  \/ node[n].GuardTime # 0 /\ node[n].LifeTimeFactor # 0

SilenceIsNoticed ==
  \A n, p \in Nodes :
    []<>~(n # p /\ ~Up(p) /\ Watches(n, p) /\ Believed(n, p))

(***************************************************************************)
(* A node's table gets and stays right about a node that produces          *)
(* heartbeats often enough.                                                *)
(***************************************************************************)
Hears(n, p) ==
  /\ n # p /\ Up(n) /\ Up(p)
  /\ node[p].ProducerHeartBeatTime # 0
  /\ \A i \in Entries(n) : ConsumerHeartbeatEntries[n][i].node = p =>
       node[p].ProducerHeartBeatTime + MaxDelay < ConsumerHeartbeatEntries[n][i].time

TableGetsRight ==
  \A n, p \in Nodes :
    <>[]Hears(n, p) => <>[](node[n].NMTable[p] = node[p].nodeState)

=============================================================================
