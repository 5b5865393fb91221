-------------------------------- MODULE LSS --------------------------------
(***************************************************************************)
(* Layer setting services (src/src/lss.c, with CO_ENABLE_LSS and _FS): a   *)
(* master that finds slaves by their identity, gives them node ids and     *)
(* sets the bit rate, on a bus that may lose a frame at one receiver.      *)
(* Every action is one call under the mutex of a node.                     *)
(*                                                                         *)
(* An identity has Fields numbers of Bits bits (4 of 32 in the code); the  *)
(* services of one kind for each field are one service with a field sub.   *)
(* Slaves stay in a state with LSS (canDispatch drops frames otherwise).   *)
(***************************************************************************)
EXTENDS Integers, SequencesExt

CONSTANTS
  Slaves,
  Fields, Bits,
  Ranged,              \* fields that are identified by a range
  Identity,            \* object 0x1018 of each slave
  FS_LSS_ID,           \* what the user knows of an identity ...
  FS_BitChecked,       \* ... but for so many bits of each field
  InitialId,           \* node ids before any service
  InitialCob,          \* the node ids their COB-ids follow from, or Custom
  NodeIds,             \* ids the user gives away, in this order
  InitialRate, Rates,  \* bit rates of the table of the code
  OtherRates,          \* names that are not in it
  Delays,              \* switch delays
  Extras,              \* what the user does besides scanning: sequences of commands
  MaxExtras,           \* bound: times it does so
  MaxResets,           \* bound: communication resets by NMT
  MaxLosses            \* bound: frames lost, or not sent by the master

None == 255    \* the node id of a slave that has none
Custom == 0    \* COB-ids a client has written
NoRate == "none"
Subs == 0 .. Fields - 1
LastSub == Fields - 1
IdNumbers == 0 .. 2^Bits - 1

ASSUME LSSAssumption ==
  /\ Fields \in 1 .. 255 /\ Bits \in 1 .. 128 /\ Ranged \subseteq Subs
  /\ Identity \in [Slaves -> [Subs -> IdNumbers]]
  /\ \A s, r \in Slaves : s # r => Identity[s] # Identity[r]
  /\ FS_LSS_ID \in [Subs -> IdNumbers] /\ FS_BitChecked \in [Subs -> 0 .. Bits]
  /\ NodeIds \in Seq(1 .. 127)
  /\ InitialId \in [Slaves -> 1 .. 127 \cup {None}]
  /\ \A s \in Slaves : InitialCob[s] \in {InitialId[s], Custom}
  /\ InitialRate \in Rates /\ NoRate \notin Rates \cup OtherRates
  /\ Delays \subseteq Nat /\ {MaxExtras, MaxResets, MaxLosses} \subseteq Nat

VARIABLES
  master,    \* lss_transfer of the master, with its bit rate
  slave,     \* lss_transfer of each slave, with its node id, COB-ids and bit rate
  toSlave,   \* frames on their way to each slave
  toMaster,
  plan,      \* the commands the user is about to give
  asked,     \* those of the plan it has given
  done,      \* the user's last scan found nobody
  given,     \* node ids the user has given away
  extras, resets, losses

bounds == <<extras, resets, losses>>
userVars == <<plan, asked, done, given>>
vars == <<master, slave, toSlave, toMaster, userVars, bounds>>

-----------------------------------------------------------------------------
LSS_RESET == "reset"
LSS_FINISHED == "finished"
LSS_ABORTED_INTERNAL == "aborted"
LSS_TRANS_IN_PROGRESS == "in progress"

LSS_WAITING_MODE == 0
LSS_CONFIGURATION_MODE == 1

SDELAY_OFF == "off"
SDELAY_FIRST == "first"
SDELAY_SECOND == "second"

LSS_FS_RESET == "reset"
LSS_FS_PROCESSING == "processing"
LSS_FS_CONFIRMATION == "confirmation"

Command(cs, sub, value) == [cs |-> cs, sub |-> sub, value |-> value]

SMGlobal(mode) == Command("SM_GLOBAL", 0, mode)
Selective(sub, value) == Command("SM_SELECTIVE", sub, value)
ConfNodeId == Command("CONF_NODE_ID", 0, 0)
ConfBitTiming(rate) == Command("CONF_BIT_TIMING", 0, rate)
ActBitTiming(delay) == Command("CONF_ACT_BIT_TIMING", 0, delay)
Store == Command("CONF_STORE", 0, 0)
Inquire(sub) == Command("INQ_IDENTITY", sub, 0)
InquireNodeId == Command("INQ_NODE_ID", 0, 0)
Identify(test, sub, value) == Command(test, sub, value)
IdentifyNonConf == Command("IDENT_REMOTE_NON_CONF", 0, 0)
FastScan == Command("IDENT_FASTSCAN", 0, 0)

\* The tests of an identification: equal, or from low to high.
IdentTests == {"IDENT_EQUAL", "IDENT_LOW", "IDENT_HIGH"}

AllTests ==
  {<<"IDENT_EQUAL", f>> : f \in Subs \ Ranged}
    \cup {<<t, f>> : t \in {"IDENT_LOW", "IDENT_HIGH"}, f \in Ranged}

\* The last frame of a service that takes several.
LastIdentTest(c) == c.cs = "IDENT_HIGH" /\ c.sub = LastSub

HasResponse(c) ==
  \/ c.cs \in {"CONF_NODE_ID", "CONF_BIT_TIMING", "CONF_STORE", "INQ_IDENTITY", "INQ_NODE_ID",
               "IDENT_REMOTE_NON_CONF", "IDENT_FASTSCAN"}
  \/ c.cs = "SM_SELECTIVE" /\ c.sub = LastSub
  \/ LastIdentTest(c)

\* A change of the bit rate, in the order that LSS asks for.
BitRatePlan(rate, delay) ==
  <<SMGlobal(LSS_CONFIGURATION_MODE), ConfBitTiming(rate), ActBitTiming(delay),
    SMGlobal(LSS_WAITING_MODE)>>

RateFree(p) == \A i \in DOMAIN p : p[i].cs \notin {"CONF_BIT_TIMING", "CONF_ACT_BIT_TIMING"}

\* What changes the mode of slaves.
ModeServices == {"SM_GLOBAL", "SM_SELECTIVE", "IDENT_FASTSCAN"}

IsEnd(q, i) == i \in DOMAIN q /\ \A j \in DOMAIN q : j <= i
Releases(c) == c.cs = "SM_GLOBAL" /\ c.value = LSS_WAITING_MODE

(***************************************************************************)
(* A user goes by the services: slaves that may be in configuration mode   *)
(* leave it in the end, a scan comes first, and one slave is selected, or  *)
(* one identity asked for, with each field once.                           *)
(***************************************************************************)
IsSession(q) ==
  \A i \in DOMAIN q :
    /\ q[i].cs = "IDENT_FASTSCAN" => i = 1
    /\ q[i].cs \in ModeServices => \E j \in DOMAIN q : IsEnd(q, j) /\ Releases(q[j])
    /\ q[i].cs = "SM_SELECTIVE" =>
         q[i].sub \in Subs /\ \A j \in DOMAIN q : q[j].cs = "SM_GLOBAL" => IsEnd(q, j)
    /\ q[i].cs \in IdentTests => <<q[i].cs, q[i].sub>> \in AllTests /\ q[i].value \in IdNumbers
    /\ q[i].cs \in IdentTests \cup {"SM_SELECTIVE"} =>
         \A j \in DOMAIN q : q[j].cs = q[i].cs /\ q[j].sub = q[i].sub => j = i

\* What else the user does: sequences of commands, that change the bit rate or do not.
ASSUME ExtrasAssumption ==
  \A e \in Extras :
    /\ e \in Seq({e[i] : i \in DOMAIN e})
    /\ \A i \in DOMAIN e : DOMAIN e[i] = {"cs", "sub", "value"}
    /\ IsSession(e)
    /\ RateFree(e) \/ \E rate \in Rates \cup OtherRates, delay \in Delays :
                        e = BitRatePlan(rate, delay)

\* What a node id is given after: a scan, or a selection by all fields.
AfterScan(q, i) == i = 2 /\ q[1].cs = "IDENT_FASTSCAN"

AfterSelection(q, i) ==
  /\ \A j \in DOMAIN q : q[j].cs # "IDENT_FASTSCAN"
  /\ \A f \in Subs : \E j \in 1 .. i - 1 : q[j].cs = "SM_SELECTIVE" /\ q[j].sub = f

(***************************************************************************)
(* Node ids are distinct at first, and those the user gives are distinct   *)
(* and new.  It gives one after a scan, or after the only selection there  *)
(* is: the masks of an earlier one make the next select too much.          *)
(***************************************************************************)
IdsAreGivenOnce ==
  /\ \A s, r \in Slaves : s # r /\ InitialId[s] # None => InitialId[s] # InitialId[r]
  /\ \A i \in DOMAIN NodeIds :
       /\ \A s \in Slaves : NodeIds[i] # InitialId[s]
       /\ \A j \in DOMAIN NodeIds : NodeIds[i] = NodeIds[j] => i = j
  /\ \A e \in Extras : \A i \in DOMAIN e : e[i].cs = "CONF_NODE_ID" =>
       AfterScan(e, i) \/ (MaxExtras <= 1 /\ AfterSelection(e, i))

InitialMaster ==
  [state |-> LSS_RESET, command |-> "none", dat1 |-> 0, timerMSG |-> FALSE, timerFS |-> FALSE,
   FastScan_SM |-> LSS_FS_RESET, LSSanswer |-> 0, IDNumber |-> 0, BitChecked |-> 128,
   LSSSub |-> 0, LSSNext |-> 0,
   baudRate |-> NoRate, rate |-> InitialRate, switchDelay |-> 0, switchDelayState |-> SDELAY_OFF]

\* canHandle and canHandle_t: whether they name a port.
InitialSlave(id, cob) ==
  [id |-> id, cob |-> cob, nodeID |-> IF id = None THEN 0 ELSE id, mode |-> LSS_WAITING_MODE,
   addr_sel_match |-> {}, addr_ident_match |-> {}, FastScan_SM |-> LSS_FS_RESET, LSSPos |-> 0,
   baudRate |-> NoRate, rate |-> InitialRate, switchDelay |-> 0, switchDelayState |-> SDELAY_OFF,
   canHandle |-> TRUE, canHandle_t |-> FALSE]

Init ==
  /\ master = InitialMaster
  /\ slave = [s \in Slaves |-> InitialSlave(InitialId[s], InitialCob[s])]
  /\ toSlave = [s \in Slaves |-> <<>>] /\ toMaster = <<>>
  /\ plan = <<>> /\ asked = <<>> /\ done = FALSE /\ given = 0
  /\ extras = 0 /\ resets = 0 /\ losses = 0

-----------------------------------------------------------------------------
(***************************************************************************)
(* Frames.  Answers are in time: alarms and the user wait until no frame   *)
(* of an earlier command is on its way.                                    *)
(***************************************************************************)
Frame(c) == [cs |-> c.cs, sub |-> c.sub, value |-> c.value, bit |-> 0, next |-> 0]

FastScanFrame(m) ==
  [cs |-> "IDENT_FASTSCAN", sub |-> m.LSSSub, value |-> m.IDNumber, bit |-> m.BitChecked,
   next |-> m.LSSNext]

Answer(cs, dat1) == [cs |-> cs, dat1 |-> dat1]

Broadcast(frame) == toSlave' = [s \in Slaves |-> Append(toSlave[s], frame)]

Quiet == toMaster = <<>> /\ \A s \in Slaves : toSlave[s] = <<>>

-----------------------------------------------------------------------------
(***************************************************************************)
(* Commands of the user: configNetworkNode.                                *)
(***************************************************************************)
Started(c) == [master EXCEPT !.command = c.cs, !.timerMSG = FALSE]

\* The bits of a field that are known: those above the one checked first.
FirstBit(sub) == IF FS_BitChecked[sub] > 0 THEN FS_BitChecked[sub] - 1 ELSE 0
KnownPart(sub) == (FS_LSS_ID[sub] \div 2^(FirstBit(sub) + 1)) * 2^(FirstBit(sub) + 1)

sendMasterLSSMessage(c) ==
  LET m == Started(c) IN
  CASE c.cs = "CONF_BIT_TIMING" /\ c.value \notin Rates ->
         master' = [m EXCEPT !.baudRate = c.value, !.dat1 = 255] /\ UNCHANGED toSlave
    [] c.cs = "CONF_ACT_BIT_TIMING" /\ m.baudRate = NoRate ->
         master' = [m EXCEPT !.dat1 = 1] /\ UNCHANGED toSlave
    [] c.cs = "CONF_ACT_BIT_TIMING" /\ m.baudRate # NoRate ->
         /\ master' = [m EXCEPT !.state = LSS_TRANS_IN_PROGRESS, !.switchDelay = c.value,
                                !.switchDelayState = SDELAY_FIRST]
         /\ Broadcast(Frame(c))
    [] c.cs = "IDENT_FASTSCAN" ->
         LET reset == [m EXCEPT !.IDNumber = 0, !.BitChecked = 128, !.LSSSub = 0,
                                !.LSSNext = 0, !.timerMSG = TRUE,
                                !.state = LSS_TRANS_IN_PROGRESS]
         IN  /\ master' = IF m.FastScan_SM = LSS_FS_RESET THEN reset ELSE m
             /\ Broadcast(FastScanFrame(master'))
    [] OTHER ->
         /\ master' = [m EXCEPT
              !.baudRate = IF c.cs = "CONF_BIT_TIMING" THEN c.value ELSE @,
              !.timerMSG = HasResponse(c),
              !.state = IF HasResponse(c) THEN LSS_TRANS_IN_PROGRESS ELSE @]
         /\ Broadcast(Frame(c))

-----------------------------------------------------------------------------
(***************************************************************************)
(* The user: it scans until nobody is found, gives every slave it finds    *)
(* the next node id, ends what it does with SM_GLOBAL, and breaks off when *)
(* a command fails.  Now and then it does something else.                  *)
(***************************************************************************)
ScanAndConfigure == <<FastScan, ConfNodeId, Store, SMGlobal(LSS_WAITING_MODE)>>

Begin ==
  /\ plan = <<>> /\ master.state # LSS_TRANS_IN_PROGRESS
  /\ \/ ~done /\ given < Len(NodeIds) /\ plan' = ScanAndConfigure /\ UNCHANGED extras
     \/ /\ extras < MaxExtras /\ extras' = extras + 1
        /\ plan' \in Extras
  /\ asked' = <<>>
  /\ UNCHANGED <<master, slave, toSlave, toMaster, done, given, resets, losses>>

\* A command that failed, or a scan that found nobody.
Failed ==
  /\ asked # <<>>
  /\ HasResponse(Last(asked)) \/ Last(asked).cs = "CONF_ACT_BIT_TIMING"
  /\ \/ master.state = LSS_ABORTED_INTERNAL
     \/ Last(asked).cs \notin {"INQ_IDENTITY", "INQ_NODE_ID"} /\ master.dat1 # 0

\* CONF_NODE_ID carries the next node id.
Filled(c) == IF c.cs = "CONF_NODE_ID" THEN [c EXCEPT !.value = NodeIds[given + 1]] ELSE c

Silent(s) == ~slave[s].canHandle

configNetworkNode ==
  /\ plan # <<>> /\ master.state # LSS_TRANS_IN_PROGRESS
  /\ Failed => Len(plan) = 1
  /\ Quiet /\ \A s \in Slaves : ~Silent(s)
  /\ Head(plan).cs = "CONF_NODE_ID" => given < Len(NodeIds)
  /\ given' = given + (IF Head(plan).cs = "CONF_NODE_ID" THEN 1 ELSE 0)
  /\ asked' = Append(asked, Filled(Head(plan)))
  /\ sendMasterLSSMessage(Filled(Head(plan)))
  /\ plan' = Tail(plan)
  /\ UNCHANGED <<slave, toMaster, done, bounds>>

\* What a command changes before it is sent; the timer of a switch delay does not run yet.
Unsent(c) ==
  LET m == Started(c) IN
  CASE c.cs = "CONF_BIT_TIMING" -> [m EXCEPT !.baudRate = c.value]
    [] c.cs = "CONF_ACT_BIT_TIMING" -> [m EXCEPT !.switchDelay = c.value]
    [] c.cs = "IDENT_FASTSCAN" /\ m.FastScan_SM = LSS_FS_RESET ->
         [m EXCEPT !.IDNumber = 0, !.BitChecked = 128, !.LSSSub = 0, !.LSSNext = 0]
    [] OTHER -> m

(***************************************************************************)
(* canSend fails: no timer starts and the state is that of an earlier      *)
(* command.  The user, who is told so, tries again or breaks off.          *)
(***************************************************************************)
SendFails ==
  /\ losses < MaxLosses
  /\ losses' = losses + 1
  /\ plan # <<>> /\ master.state # LSS_TRANS_IN_PROGRESS
  /\ Failed => Len(plan) = 1
  /\ Quiet /\ \A s \in Slaves : ~Silent(s)
  /\ Head(plan).cs = "CONF_BIT_TIMING" => Head(plan).value \in Rates
  /\ Head(plan).cs = "CONF_ACT_BIT_TIMING" => master.baudRate # NoRate
  /\ master' = Unsent(Head(plan))
  /\ plan' \in {plan, IF Len(plan) > 1 THEN <<SMGlobal(LSS_WAITING_MODE)>> ELSE <<>>}
  /\ UNCHANGED <<slave, toSlave, toMaster, asked, done, given, extras, resets>>

BreakOff ==
  /\ Len(plan) > 1 /\ master.state # LSS_TRANS_IN_PROGRESS /\ Failed
  /\ plan' = <<SMGlobal(LSS_WAITING_MODE)>>
  /\ done' = (done \/ (Last(asked).cs = "IDENT_FASTSCAN" /\ master.state = LSS_FINISHED))
  /\ UNCHANGED <<master, slave, toSlave, toMaster, asked, given, bounds>>

-----------------------------------------------------------------------------
(***************************************************************************)
(* The master: proceedLSS_Master and its alarms.                           *)
(***************************************************************************)
\* The commands each answer may be for.
Expected(answer) ==
  CASE answer = "IDENT_SLAVE" -> IdentTests
    [] answer = "SM_SELECTIVE_RESP" -> {"SM_SELECTIVE"}
    [] answer = "IDENT_NON_CONF_SLAVE" -> {"IDENT_REMOTE_NON_CONF"}
    [] OTHER -> {answer}

Finishes(m, dat1) == [m EXCEPT !.state = LSS_FINISHED, !.dat1 = dat1]
Aborts(m) == [m EXCEPT !.state = LSS_ABORTED_INTERNAL, !.FastScan_SM = LSS_FS_RESET]

proceedLSS_Master ==
  /\ toMaster # <<>>
  /\ toMaster' = Tail(toMaster)
  /\ LET f == Head(toMaster) IN
     master' =
       IF master.state # LSS_TRANS_IN_PROGRESS THEN master
       ELSE IF f.cs = "IDENT_SLAVE" /\ master.command = "IDENT_FASTSCAN"
       THEN [master EXCEPT !.LSSanswer = 1]
       ELSE IF master.command \notin Expected(f.cs) THEN master
       ELSE [Finishes(master, f.dat1) EXCEPT !.timerMSG = FALSE]
  /\ UNCHANGED <<slave, toSlave, userVars, bounds>>

MasterSends(m, frame) == master' = m /\ Broadcast(frame)

\* The scan goes on with the first bit of a field that is not known.
Field(m, sub) ==
  [m EXCEPT !.LSSSub = sub, !.BitChecked = FirstBit(sub), !.IDNumber = KnownPart(sub),
            !.FastScan_SM = LSS_FS_PROCESSING, !.LSSanswer = 0, !.timerFS = TRUE]

LssAlarmMSG ==
  /\ master.timerMSG /\ Quiet
  /\ LET m == [master EXCEPT !.timerMSG = FALSE] IN
     IF m.command = "IDENT_FASTSCAN" /\ m.FastScan_SM = LSS_FS_RESET /\ m.LSSanswer # 0
     THEN MasterSends(Field(m, 0), FastScanFrame(Field(m, 0)))
     ELSE /\ master' = IF \/ m.command = "IDENT_FASTSCAN" /\ m.FastScan_SM = LSS_FS_RESET
                          \/ m.command = "IDENT_REMOTE_NON_CONF"
                       THEN Finishes(m, 1) ELSE Aborts(m)
          /\ UNCHANGED toSlave
  /\ UNCHANGED <<slave, toMaster, userVars, bounds>>

\* Nobody answered that has a 0 at this bit.
BitFound(m) == IF m.LSSanswer = 0 THEN [m EXCEPT !.IDNumber = @ + 2^m.BitChecked] ELSE m

NextBitButLast(m) ==
  IF m.BitChecked <= 1
  THEN [m EXCEPT !.FastScan_SM = LSS_FS_CONFIRMATION, !.BitChecked = 0,
                 !.LSSNext = IF @ < LastSub THEN @ + 1 ELSE @]
  ELSE [m EXCEPT !.BitChecked = @ - 1]

\* From bit to bit; the last one of a field is followed by its confirmation.
NextBit(m) ==
  IF m.BitChecked = 0
  THEN [m EXCEPT !.FastScan_SM = LSS_FS_CONFIRMATION,
                 !.LSSNext = IF @ < LastSub THEN @ + 1 ELSE @]
  ELSE [m EXCEPT !.BitChecked = @ - 1]

LssAlarmFS ==
  /\ master.timerFS /\ Quiet
  /\ LET m == [master EXCEPT !.timerFS = FALSE]
         next == [NextBit(BitFound(m)) EXCEPT !.LSSanswer = 0, !.timerFS = TRUE]
     IN  CASE m.FastScan_SM = LSS_FS_RESET -> master' = m /\ UNCHANGED toSlave
           [] m.FastScan_SM = LSS_FS_PROCESSING -> MasterSends(next, FastScanFrame(next))
           [] m.FastScan_SM = LSS_FS_CONFIRMATION ->
                IF m.LSSanswer = 0 THEN master' = Aborts(m) /\ UNCHANGED toSlave
                ELSE IF m.LSSSub = LastSub
                THEN /\ master' = Finishes([m EXCEPT !.FastScan_SM = LSS_FS_RESET, !.IDNumber = 0,
                                                     !.BitChecked = 128, !.LSSSub = 0,
                                                     !.LSSNext = 0, !.LSSanswer = 0], 0)
                     /\ UNCHANGED toSlave
                ELSE MasterSends(Field(m, m.LSSSub + 1), FastScanFrame(Field(m, m.LSSSub + 1)))
  /\ UNCHANGED <<slave, toMaster, userVars, bounds>>

\* The alarm of the switch delay is periodic, but with a delay of 0 runs once.
DelayRuns(d) ==
  d.switchDelayState = SDELAY_FIRST \/ (d.switchDelayState = SDELAY_SECOND /\ d.switchDelay > 0)

LssAlarmSDELAY_Master ==
  /\ DelayRuns(master) /\ Quiet
  /\ master' = IF master.switchDelayState = SDELAY_FIRST
               THEN [master EXCEPT !.switchDelayState = SDELAY_SECOND, !.rate = master.baudRate]
               ELSE Finishes([master EXCEPT !.switchDelayState = SDELAY_OFF], 0)
  /\ UNCHANGED <<slave, toSlave, toMaster, userVars, bounds>>

-----------------------------------------------------------------------------
(***************************************************************************)
(* A slave: proceedLSS_Slave, service by service.                          *)
(***************************************************************************)
SlaveGets(s, services) == toSlave[s] # <<>> /\ Head(toSlave[s]).cs \in services

\* A slave whose canHandle is NULL cannot send.
SlaveDoes(s, d, answers) ==
  /\ slave' = [slave EXCEPT ![s] = d]
  /\ toSlave' = [toSlave EXCEPT ![s] = Tail(@)]
  /\ toMaster' = IF slave[s].canHandle THEN toMaster \o answers ELSE toMaster
  /\ UNCHANGED <<master, userVars, bounds>>

\* A COB-id follows the node id if it did so far, or if there was none.
Follows(d, n) == IF d.cob = d.id \/ d.id = None THEN n ELSE d.cob

setNodeId(d, n) ==
  IF n \in 1 .. 127 THEN [d EXCEPT !.id = n, !.nodeID = n, !.cob = Follows(d, n)] ELSE d

\* Only a slave without a node id takes the new one when it leaves the mode.
NewIdOnWaiting(d) == IF d.id = None THEN setNodeId(d, d.nodeID) ELSE d

StaysInMode(d, mode) ==
  IF d.id = None THEN NewIdOnWaiting(d) ELSE [d EXCEPT !.mode = mode]

LeavesForMode(d, mode) == [NewIdOnWaiting(d) EXCEPT !.mode = mode]

SwitchMode(s) ==
  /\ SlaveGets(s, {"SM_GLOBAL"})
  /\ LET d == slave[s]
         mode == Head(toSlave[s]).value
     IN  SlaveDoes(s, IF mode = d.mode THEN d
                      ELSE IF mode = LSS_CONFIGURATION_MODE THEN [d EXCEPT !.mode = mode]
                      ELSE LeavesForMode(d, mode), <<>>)

BitTimingForgotten(d, rate) == d

BitTimingChosen(d, rate) == [d EXCEPT !.baudRate = rate]

\* What a slave does in configuration mode only.
Configure(s) ==
  /\ SlaveGets(s, {"CONF_NODE_ID", "CONF_BIT_TIMING", "CONF_STORE"})
  /\ LET d == slave[s]
         f == Head(toSlave[s])
         inRange == f.value \in 0 .. 127 \cup {None}
     IN  IF d.mode # LSS_CONFIGURATION_MODE THEN SlaveDoes(s, d, <<>>)
         ELSE CASE f.cs = "CONF_NODE_ID" ->
                     SlaveDoes(s, IF inRange THEN [d EXCEPT !.nodeID = f.value] ELSE d,
                               <<Answer(f.cs, IF inRange THEN 0 ELSE 1)>>)
                [] f.cs = "CONF_BIT_TIMING" ->
                     SlaveDoes(s, BitTimingChosen(d, f.value), <<Answer(f.cs, 0)>>)
                [] f.cs = "CONF_STORE" ->
                     \E error \in {0, 1} : SlaveDoes(s, d, <<Answer(f.cs, error)>>)

AnswerInquiry(s) ==
  /\ SlaveGets(s, {"INQ_IDENTITY", "INQ_NODE_ID"})
  /\ LET d == slave[s]
         f == Head(toSlave[s])
         value == IF f.cs = "INQ_NODE_ID" THEN d.id ELSE Identity[s][f.sub]
     IN  SlaveDoes(s, d, IF d.mode = LSS_CONFIGURATION_MODE THEN <<Answer(f.cs, value)>> ELSE <<>>)

HandleLost(d) == [d EXCEPT !.canHandle = FALSE, !.canHandle_t = FALSE]

\* The port is put aside until the bit rate is switched.
PutAside(d) == [d EXCEPT !.canHandle_t = d.canHandle, !.canHandle = FALSE]

ActivateBitTiming(s) ==
  /\ SlaveGets(s, {"CONF_ACT_BIT_TIMING"})
  /\ LET d == slave[s] IN
     SlaveDoes(s, IF d.mode # LSS_CONFIGURATION_MODE \/ d.baudRate = NoRate THEN d
                  ELSE [PutAside(d) EXCEPT !.switchDelay = Head(toSlave[s]).value,
                                           !.switchDelayState = SDELAY_FIRST], <<>>)

LssAlarmSDELAY_Slave(s) ==
  /\ DelayRuns(slave[s]) /\ Quiet
  /\ LET d == slave[s] IN
     slave' = [slave EXCEPT ![s] =
                 IF d.switchDelayState = SDELAY_FIRST
                 THEN [d EXCEPT !.switchDelayState = SDELAY_SECOND, !.rate = d.baudRate]
                 ELSE [d EXCEPT !.switchDelayState = SDELAY_OFF, !.canHandle = d.canHandle_t]]
  /\ UNCHANGED <<master, toSlave, toMaster, userVars, bounds>>

\* The fields that matched one after the other; one that does not starts anew.
Match(match, hit, test) == IF hit THEN match \cup {test} ELSE {}

SelectMode(s) ==
  /\ SlaveGets(s, {"SM_SELECTIVE"})
  /\ LET d == slave[s]
         f == Head(toSlave[s])
         match == Match(d.addr_sel_match, f.value = Identity[s][f.sub], f.sub)
     IN  IF d.mode = LSS_CONFIGURATION_MODE THEN SlaveDoes(s, d, <<>>)
         ELSE IF match # Subs THEN SlaveDoes(s, [d EXCEPT !.addr_sel_match = match], <<>>)
         ELSE SlaveDoes(s, [d EXCEPT !.addr_sel_match = {}, !.nodeID = d.id,
                                     !.mode = LSS_CONFIGURATION_MODE],
                        <<Answer("SM_SELECTIVE_RESP", 0)>>)

Passes(test, value, id) ==
  CASE test = "IDENT_EQUAL" -> value = id
    [] test = "IDENT_LOW" -> value <= id
    [] test = "IDENT_HIGH" -> value >= id

IdentifyRemote(s) ==
  /\ SlaveGets(s, IdentTests)
  /\ LET d == slave[s]
         f == Head(toSlave[s])
         match == Match(d.addr_ident_match, Passes(f.cs, f.value, Identity[s][f.sub]),
                        <<f.cs, f.sub>>)
     IN  IF match # AllTests THEN SlaveDoes(s, [d EXCEPT !.addr_ident_match = match], <<>>)
         ELSE SlaveDoes(s, [d EXCEPT !.addr_ident_match = {}], <<Answer("IDENT_SLAVE", 0)>>)

IdentifyNonConfigured(s) ==
  /\ SlaveGets(s, {"IDENT_REMOTE_NON_CONF"})
  /\ SlaveDoes(s, slave[s], IF slave[s].id = None THEN <<Answer("IDENT_NON_CONF_SLAVE", 0)>>
                            ELSE <<>>)

-----------------------------------------------------------------------------
(***************************************************************************)
(* The fast scan, of which only a slave without a node id takes part.      *)
(***************************************************************************)
TakesPart(d) == d.id = None

AgreeAbove(bit, x, y) == x \div 2^bit = y \div 2^bit

ConfirmsAnything(d, f, id) == d.LSSPos = f.sub

Confirms(d, f, id) == d.LSSPos = f.sub /\ f.value = id

FastScanAnswer(s) ==
  /\ SlaveGets(s, {"IDENT_FASTSCAN"})
  /\ LET d == slave[s]
         f == Head(toSlave[s])
         here == <<Answer("IDENT_SLAVE", 0)>>
         state == IF f.bit = 128 THEN LSS_FS_RESET ELSE d.FastScan_SM
     IN  IF ~TakesPart(d) THEN SlaveDoes(s, d, <<>>)
         ELSE CASE state = LSS_FS_RESET ->
                     SlaveDoes(s, [d EXCEPT !.LSSPos = 0, !.FastScan_SM = LSS_FS_PROCESSING], here)
                [] state = LSS_FS_PROCESSING ->
                     IF d.LSSPos # f.sub THEN SlaveDoes(s, d, <<>>)
                     ELSE SlaveDoes(s, [d EXCEPT !.FastScan_SM = IF f.bit = 0 THEN LSS_FS_CONFIRMATION
                                                                 ELSE @],
                                    IF AgreeAbove(f.bit, f.value, Identity[s][d.LSSPos]) THEN here
                                    ELSE <<>>)
                [] state = LSS_FS_CONFIRMATION ->
                     IF d.LSSPos \notin Subs THEN SlaveDoes(s, d, <<>>)
                     ELSE IF ~Confirms(d, f, Identity[s][d.LSSPos]) THEN SlaveDoes(s, d, <<>>)
                     ELSE IF d.LSSPos = LastSub
                     THEN SlaveDoes(s, [d EXCEPT !.nodeID = d.id, !.mode = LSS_CONFIGURATION_MODE,
                                                 !.FastScan_SM = LSS_FS_RESET, !.LSSPos = 255], here)
                     ELSE SlaveDoes(s, [d EXCEPT !.LSSPos = f.next,
                                                 !.FastScan_SM = LSS_FS_PROCESSING], here)

-----------------------------------------------------------------------------
(***************************************************************************)
(* NMT_Reset_Comunication (nmtSlave.c) makes a node id given earlier that  *)
(* of a slave that has one.                                                *)
(***************************************************************************)
ResetCommunication(s) ==
  /\ resets < MaxResets /\ Quiet
  /\ resets' = resets + 1
  /\ slave' = [slave EXCEPT ![s] = setNodeId([slave[s] EXCEPT !.id = None], slave[s].nodeID)]
  /\ UNCHANGED <<master, toSlave, toMaster, userVars, extras, losses>>

Lose ==
  /\ losses < MaxLosses
  /\ losses' = losses + 1
  /\ \/ /\ \E s \in Slaves : toSlave[s] # <<>> /\ toSlave' = [toSlave EXCEPT ![s] = Tail(@)]
        /\ UNCHANGED toMaster
     \/ toMaster # <<>> /\ toMaster' = Tail(toMaster) /\ UNCHANGED toSlave
  /\ UNCHANGED <<master, slave, userVars, extras, resets>>

-----------------------------------------------------------------------------
proceedLSS_Slave(s) ==
  \/ SwitchMode(s) \/ Configure(s) \/ AnswerInquiry(s) \/ ActivateBitTiming(s)
  \/ SelectMode(s) \/ IdentifyRemote(s) \/ IdentifyNonConfigured(s) \/ FastScanAnswer(s)

MasterAlarms == LssAlarmMSG \/ LssAlarmFS \/ LssAlarmSDELAY_Master

Next ==
  \/ Begin \/ configNetworkNode \/ SendFails \/ BreakOff
  \/ proceedLSS_Master \/ MasterAlarms
  \/ \E s \in Slaves : proceedLSS_Slave(s) \/ LssAlarmSDELAY_Slave(s) \/ ResetCommunication(s)
  \/ Lose

Spec == Init /\ [][Next]_vars

(***************************************************************************)
(* Frames are dispatched and alarms run; the user goes on with its plan.   *)
(***************************************************************************)
Fairness ==
  /\ WF_vars(Begin) /\ WF_vars(configNetworkNode) /\ WF_vars(BreakOff)
  /\ WF_vars(proceedLSS_Master) /\ WF_vars(MasterAlarms)
  /\ \A s \in Slaves : WF_vars(proceedLSS_Slave(s)) /\ WF_vars(LssAlarmSDELAY_Slave(s))

FairSpec == Spec /\ Fairness

-----------------------------------------------------------------------------
(***************************************************************************)
(* Properties.                                                             *)
(***************************************************************************)
\* The last command given has just been answered, and well.
Answered(cs) ==
  /\ asked # <<>> /\ Last(asked).cs = cs /\ HasResponse(Last(asked))
  /\ master.state = LSS_FINISHED /\ master.dat1 = 0

Configuring == {s \in Slaves : slave[s].mode = LSS_CONFIGURATION_MODE}

\* What the user knew of an identity is right for the slave.
Known(s) == \A f \in Subs : AgreeAbove(FirstBit(f) + 1, Identity[s][f], FS_LSS_ID[f])

(***************************************************************************)
(* A fast scan that finishes well has brought one slave into configuration *)
(* mode, one without a node id that the user looks for, and no other slave *)
(* is in that mode: what is configured next is configured once.            *)
(***************************************************************************)
ScanFindsOneSlave ==
  Answered("IDENT_FASTSCAN") =>
    \E s \in Slaves : Configuring = {s} /\ slave[s].id = None /\ Known(s)

(***************************************************************************)
(* An answered selection has selected the slave of that identity, and an   *)
(* answered identification means a slave all of whose fields pass, though  *)
(* slaves share fields and their masks outlive what was broken off.        *)
(***************************************************************************)
IsSelected(s) ==
  \A i \in DOMAIN asked :
    asked[i].cs = "SM_SELECTIVE" => Identity[s][asked[i].sub] = asked[i].value

IsIdentified(s) ==
  \A i \in DOMAIN asked :
    LET c == asked[i]
        id == Identity[s][c.sub]
    IN  /\ c.cs = "IDENT_EQUAL" => id = c.value
        /\ c.cs = "IDENT_LOW" => id >= c.value
        /\ c.cs = "IDENT_HIGH" => id <= c.value

AnswerNamesASlave ==
  /\ Answered("SM_SELECTIVE") => \E s \in Configuring : IsSelected(s)
  /\ Answered("IDENT_HIGH") => \E s \in Slaves : IsIdentified(s)

\* Unless frames are lost, what the master takes for an answer is true.
AnswersAreTrue == losses = 0 => ScanFindsOneSlave /\ AnswerNamesASlave

(***************************************************************************)
(* No two slaves ever have the same node id, unless frames are lost, and   *)
(* none has COB-ids of another node id than its own.                       *)
(***************************************************************************)
NodeIdsDistinct ==
  /\ losses = 0 =>
       \A s, r \in Slaves : s # r /\ slave[s].id # None => slave[s].id # slave[r].id
  /\ \A s \in Slaves : slave[s].id # None => slave[s].cob \in {slave[s].id, Custom}

(***************************************************************************)
(* Whatever the order in which the two periods of the switch delay end at  *)
(* master and slaves: when the user has gone through with a change of the  *)
(* bit rate, all nodes have the same, unless frames are lost.              *)
(***************************************************************************)
OneBitRate ==
  plan = <<>> /\ losses = 0 /\ master.state # LSS_TRANS_IN_PROGRESS
    /\ (\A s \in Slaves : slave[s].switchDelayState = SDELAY_OFF) =>
  \A s \in Slaves : slave[s].rate = master.rate

(***************************************************************************)
(* A slave that puts its port aside until the bit rate is switched gets    *)
(* it back and answers again.  With a delay of 0 it does not.              *)
(***************************************************************************)
PortComesBack == \A s \in Slaves : Silent(s) ~> ~Silent(s)

(***************************************************************************)
(* Without losses the user's scans end with a node id for every slave that *)
(* the scan is for, as the manual says of nodes without a valid node id.   *)
(***************************************************************************)
EverySlaveGetsANodeId ==
  <>(losses > 0) \/ <>(\A s \in Slaves : Known(s) => slave[s].id # None)

=============================================================================
