----------------------------- MODULE NodeState -----------------------------
(***************************************************************************)
(* The communication states of a node: src/src/states.c, and the NMT       *)
(* commands of nmtSlave.c and nmtMaster.c.  Of the protocols that are      *)
(* switched on and off, life guarding is in LifeGuard, and SDO has its own *)
(* modules (SDO); SYNC, EMCY, PDO and LSS are only switched here.          *)
(***************************************************************************)
EXTENDS LifeGuard

CONSTANT Slaves  \* nodes with iam_a_slave set

ASSUME NodeStateAssumption == Slaves \subseteq Nodes

Everybody == 0   \* the node id of a broadcast

NMT_Start_Node == "start"
NMT_Stop_Node == "stop"
NMT_Enter_PreOperational == "enter pre-operational"
NMT_Reset_Node == "reset node"
NMT_Reset_Comunication == "reset communication"
Commands ==
  {NMT_Start_Node, NMT_Stop_Node, NMT_Enter_PreOperational, NMT_Reset_Node,
   NMT_Reset_Comunication}

NMTFrame(node, cs) == [proto |-> "NMT", node |-> node, rtr |-> FALSE, arg |-> cs]

masterSendNMTstateChange(d, node, cs) == Send(d, NMTFrame(node, cs))

\* The protocols switched on in each state: csBoot_Up, csSDO ...
CommunicationState(state) ==
  IF state = Initialisation THEN {"Boot_Up"}
  ELSE IF state = Pre_operational THEN {"SDO", "Emergency", "SYNC", "LifeGuard", "LSS"}
  ELSE IF state = Operational THEN {"SDO", "Emergency", "SYNC", "LifeGuard", "PDO"}
  ELSE {"LifeGuard", "LSS"}

slaveSendBootUp(n, d) == Send(d, NodeGuardFrame(n, Initialisation))

\* StartOrStop(csLifeGuard, ...), then StartOrStop(csBoot_Up, ...).
switchCommunicationState(n, d, new) ==
  LET guarding == IF "LifeGuard" \in new \ d.communication THEN lifeGuardInit(n, d)
                  ELSE IF "LifeGuard" \in d.communication \ new THEN lifeGuardStop(n, d)
                  ELSE d
      booted == IF "Boot_Up" \in d.communication \ new THEN slaveSendBootUp(n, guarding)
                ELSE guarding
  IN  [booted EXCEPT !.communication = new]

\* Up to the user's callback, which does nothing by default ...
Enters(n, d, state) ==
  switchCommunicationState(n, [d EXCEPT !.nodeState = state], CommunicationState(state))

\* ... but for _preOperational: a master resets every node.
EntersPreOperational(n, d) ==
  LET entered == Enters(n, d, Pre_operational)
  IN  IF n \in Slaves THEN entered
      ELSE masterSendNMTstateChange(entered, Everybody, NMT_Reset_Node)

(***************************************************************************)
(* Initialisation goes on to Pre_operational by itself.  It is left within *)
(* setState, so that the refusal to leave it otherwise is never taken.     *)
(***************************************************************************)
setState(n, d, state) ==
  IF state = d.nodeState THEN d
  ELSE IF state = Initialisation THEN EntersPreOperational(n, Enters(n, d, Initialisation))
  ELSE IF state = Pre_operational THEN EntersPreOperational(n, d)
  ELSE Enters(n, d, state)

(***************************************************************************)
(* proceedNMTstateChange.  NMT_Reset_Comunication also sets the COB-ids    *)
(* back to their defaults (setNodeId).                                     *)
(***************************************************************************)
Commanded(n, d, cs) ==
  IF cs = NMT_Start_Node /\ d.nodeState \in {Pre_operational, Stopped}
  THEN setState(n, d, Operational)
  ELSE IF cs = NMT_Stop_Node /\ d.nodeState \in {Pre_operational, Operational}
  THEN setState(n, d, Stopped)
  ELSE IF cs = NMT_Enter_PreOperational /\ d.nodeState \in {Operational, Stopped}
  THEN setState(n, d, Pre_operational)
  ELSE IF cs \in {NMT_Reset_Node, NMT_Reset_Comunication}
  THEN setState(n, d, Initialisation)
  ELSE d

proceedNMTstateChange(n, d, m) ==
  IF d.nodeState \in {Pre_operational, Operational, Stopped} /\ m.node \in {Everybody, n}
  THEN Commanded(n, d, m.arg) ELSE d

canDispatch(n, d, m) ==
  IF m.proto = "NMT"
  THEN IF n \in Slaves THEN proceedNMTstateChange(n, d, m) ELSE d
  ELSE IF "LifeGuard" \in d.communication THEN proceedNODE_GUARD(n, d, m) ELSE d

=============================================================================
