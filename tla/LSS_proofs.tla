---------------------------- MODULE LSS_proofs ----------------------------
(***************************************************************************)
(* Proofs about LSS.                                                       *)
(***************************************************************************)
EXTENDS LSS, FiniteSetTheorems, TLAPS

-----------------------------------------------------------------------------
(***************************************************************************)
(* One command at a time.                                                  *)
(***************************************************************************)
MasterFields ==
  {"state", "command", "dat1", "timerMSG", "timerFS", "FastScan_SM", "LSSanswer", "IDNumber",
   "BitChecked", "LSSSub", "LSSNext", "baudRate", "rate", "switchDelay", "switchDelayState"}

SlaveFields ==
  {"id", "cob", "nodeID", "mode", "addr_sel_match", "addr_ident_match", "FastScan_SM", "LSSPos",
   "baudRate", "rate", "switchDelay", "switchDelayState", "canHandle", "canHandle_t"}

IsSequence(q) == \E X : q \in Seq(X)

IsCommand(c) == DOMAIN c = {"cs", "sub", "value"}

Commands(q) == IsSequence(q) /\ \A i \in 1 .. Len(q) : IsCommand(q[i])

Busy == master.state = LSS_TRANS_IN_PROGRESS

\* The frame of the last command, that of a scan from what the master keeps.
Current == IF Last(asked).cs = "IDENT_FASTSCAN" THEN FastScanFrame(master) ELSE Frame(Last(asked))

\* What slaves answer to a command.
Answers(cs, answer) ==
  \/ answer = "SM_SELECTIVE_RESP" /\ cs = "SM_SELECTIVE"
  \/ answer = "IDENT_SLAVE" /\ cs \in IdentTests \cup {"IDENT_FASTSCAN"}
  \/ answer = "IDENT_NON_CONF_SLAVE" /\ cs = "IDENT_REMOTE_NON_CONF"
  \/ answer = cs /\ cs \in {"CONF_NODE_ID", "CONF_BIT_TIMING", "CONF_STORE", "INQ_IDENTITY",
                            "INQ_NODE_ID"}

\* All frames on their way are of the last command of the plan, or answer it.
Bus ==
  /\ DOMAIN toSlave = Slaves /\ IsSequence(toMaster)
  /\ \E f : /\ \A s \in Slaves : toSlave[s] = <<>> \/ toSlave[s] = <<f>>
            /\ asked # <<>> => f = Current
  /\ asked # <<>> => \A i \in 1 .. Len(toMaster) : Answers(Last(asked).cs, toMaster[i].cs)

\* The master waits for an answer, scans, or waits for the switch delay.
MasterWaits ==
  /\ DOMAIN master = MasterFields
  /\ Busy => asked # <<>> /\ master.command = Last(asked).cs
  /\ master.timerMSG => Busy /\ HasResponse(Last(asked)) /\ ~master.timerFS
                        /\ master.switchDelayState = SDELAY_OFF
  /\ master.timerFS <=> master.FastScan_SM # LSS_FS_RESET
  /\ master.FastScan_SM \in {LSS_FS_RESET, LSS_FS_PROCESSING, LSS_FS_CONFIRMATION}
  /\ master.timerFS => Busy /\ master.command = "IDENT_FASTSCAN"
  /\ master.switchDelayState # SDELAY_OFF => Busy /\ master.command = "CONF_ACT_BIT_TIMING"

Plans ==
  /\ Commands(plan) /\ Commands(asked)
  /\ losses \in Nat /\ given \in Nat

IsSlave(d) ==
  /\ DOMAIN d = SlaveFields
  /\ d.FastScan_SM \in {LSS_FS_RESET, LSS_FS_PROCESSING, LSS_FS_CONFIRMATION}

SlavesKept == DOMAIN slave = Slaves /\ \A s \in Slaves : IsSlave(slave[s])

CommandInvariant == Bus /\ MasterWaits /\ Plans /\ SlavesKept

-----------------------------------------------------------------------------
LEMMA StatesDiffer ==
  /\ LSS_TRANS_IN_PROGRESS \notin {LSS_RESET, LSS_FINISHED, LSS_ABORTED_INTERNAL}
  /\ LSS_FINISHED # LSS_ABORTED_INTERNAL /\ LSS_FINISHED # LSS_RESET
  /\ LSS_WAITING_MODE # LSS_CONFIGURATION_MODE
  /\ SDELAY_OFF # SDELAY_FIRST /\ SDELAY_OFF # SDELAY_SECOND /\ SDELAY_FIRST # SDELAY_SECOND
  /\ LSS_FS_RESET # LSS_FS_PROCESSING /\ LSS_FS_RESET # LSS_FS_CONFIRMATION
  /\ LSS_FS_PROCESSING # LSS_FS_CONFIRMATION
BY DEF LSS_TRANS_IN_PROGRESS, LSS_RESET, LSS_FINISHED, LSS_ABORTED_INTERNAL, LSS_WAITING_MODE,
       LSS_CONFIGURATION_MODE, SDELAY_OFF, SDELAY_FIRST, SDELAY_SECOND, LSS_FS_RESET,
       LSS_FS_PROCESSING, LSS_FS_CONFIRMATION

LEMMA CommandsTail ==
  ASSUME NEW q, Commands(q), q # <<>>
  PROVE  /\ Commands(Tail(q)) /\ IsCommand(Head(q)) /\ Head(q) = q[1]
         /\ Len(q) \in Nat /\ Len(q) > 0 /\ Len(Tail(q)) = Len(q) - 1
         /\ \A i \in 1 .. Len(Tail(q)) : i + 1 \in 1 .. Len(q) /\ Tail(q)[i] = q[i + 1]
<1>1. PICK X : q \in Seq(X)
  BY DEF Commands, IsSequence
<1>2. /\ Len(q) \in Nat /\ Len(q) > 0 /\ Len(Tail(q)) = Len(q) - 1 /\ Tail(q) \in Seq(X)
      /\ Head(q) = q[1]
  BY <1>1
<1>3. ASSUME NEW i \in 1 .. Len(Tail(q))
      PROVE  i + 1 \in 1 .. Len(q) /\ Tail(q)[i] = q[i + 1]
  BY <1>1, <1>2
<1>4. Commands(Tail(q))
  BY <1>2, <1>3 DEF Commands, IsSequence
<1> QED BY <1>2, <1>3, <1>4 DEF Commands

LEMMA CommandsAppend ==
  ASSUME NEW q, Commands(q), NEW c, IsCommand(c)
  PROVE  /\ Commands(Append(q, c)) /\ Append(q, c) # <<>> /\ Last(Append(q, c)) = c
         /\ Len(q) \in Nat /\ Len(Append(q, c)) = Len(q) + 1
         /\ Append(q, c)[Len(q) + 1] = c
         /\ \A i \in 1 .. Len(q) : Append(q, c)[i] = q[i]
<1>1. PICK Y : q \in Seq(Y)
  BY DEF Commands, IsSequence
<1> DEFINE X == Y \cup {c}
<1>2. q \in Seq(X) /\ c \in X
  BY <1>1
<1> HIDE DEF X
<1> DEFINE z == Append(q, c)
<1>3. Len(q) \in Nat
  BY <1>2
<1>4. z \in Seq(X)
  BY <1>2
<1>5. Len(z) = Len(q) + 1
  BY <1>2
<1>6. z[Len(q) + 1] = c
  BY <1>2
<1>7. \A i \in 1 .. Len(q) : z[i] = q[i]
  BY <1>2
<1> HIDE DEF z
<1>8. z # <<>>
  BY <1>3, <1>5
<1>9. Last(z) = c
  BY <1>5, <1>6 DEF Last
<1>10. Commands(z)
  BY <1>3, <1>4, <1>5, <1>6, <1>7 DEF Commands, IsSequence
<1> QED BY <1>3, <1>5, <1>6, <1>7, <1>8, <1>9, <1>10 DEF z

LEMMA NoCommands == Commands(<<>>)
<1>1. <<>> \in Seq(Nat)
  OBVIOUS
<1> QED BY <1>1 DEF Commands, IsSequence

\* Services carry the commands they are named after.
LEMMA TheCommands ==
  /\ IsCommand(FastScan) /\ FastScan.cs = "IDENT_FASTSCAN"
  /\ IsCommand(ConfNodeId) /\ ConfNodeId.cs = "CONF_NODE_ID"
  /\ IsCommand(Store) /\ Store.cs = "CONF_STORE"
  /\ \A v : IsCommand(SMGlobal(v)) /\ SMGlobal(v).cs = "SM_GLOBAL" /\ SMGlobal(v).value = v
  /\ \A v : /\ IsCommand(ConfBitTiming(v)) /\ ConfBitTiming(v).cs = "CONF_BIT_TIMING"
            /\ ConfBitTiming(v).value = v
  /\ \A v : /\ IsCommand(ActBitTiming(v)) /\ ActBitTiming(v).cs = "CONF_ACT_BIT_TIMING"
            /\ ActBitTiming(v).value = v
BY DEF IsCommand, FastScan, ConfNodeId, Store, SMGlobal, ConfBitTiming, ActBitTiming, Command

LEMMA FilledIsCommand ==
  ASSUME NEW c, IsCommand(c)
  PROVE  /\ IsCommand(Filled(c)) /\ Filled(c).cs = c.cs /\ Filled(c).sub = c.sub
         /\ c.cs # "CONF_NODE_ID" => Filled(c) = c
         /\ c.cs = "CONF_NODE_ID" => Filled(c).value = NodeIds[given + 1]
BY DEF Filled, IsCommand

-----------------------------------------------------------------------------
(***************************************************************************)
(* The user's steps.                                                       *)
(***************************************************************************)
LEMMA InitCommands == Init => CommandInvariant
<1> SUFFICES ASSUME Init PROVE CommandInvariant
  OBVIOUS
<1>1. <<>> \in Seq(Nat)
  OBVIOUS
<1>2. Bus
  BY <1>1 DEF Init, Bus, IsSequence
<1>3. MasterWaits
  BY StatesDiffer DEF Init, MasterWaits, InitialMaster, MasterFields, Busy
<1>4. Plans
  BY NoCommands DEF Init, Plans
<1>5. SlavesKept
  BY DEF Init, SlavesKept, InitialSlave, SlaveFields, IsSlave
<1> QED BY <1>2, <1>3, <1>4, <1>5 DEF CommandInvariant

\* What a plan is made of.
LEMMA ExtrasAreCommands ==
  ASSUME NEW e \in Extras
  PROVE  Commands(e)
<1>1. e \in Seq({e[i] : i \in DOMAIN e})
  BY ExtrasAssumption
<1>2. DOMAIN e = 1 .. Len(e)
  BY <1>1
<1>3. \A i \in DOMAIN e : IsCommand(e[i])
  BY ExtrasAssumption DEF IsCommand
<1> QED BY <1>1, <1>2, <1>3 DEF Commands, IsSequence

LEMMA ScanIsCommands ==
  /\ Commands(ScanAndConfigure) /\ Len(ScanAndConfigure) = 4
  /\ ScanAndConfigure[1] = FastScan /\ ScanAndConfigure[2] = ConfNodeId
  /\ ScanAndConfigure[3] = Store /\ ScanAndConfigure[4] = SMGlobal(LSS_WAITING_MODE)
<1>1. /\ ScanAndConfigure \in Seq({FastScan, ConfNodeId, Store, SMGlobal(LSS_WAITING_MODE)})
      /\ Len(ScanAndConfigure) = 4
      /\ ScanAndConfigure[1] = FastScan /\ ScanAndConfigure[2] = ConfNodeId
      /\ ScanAndConfigure[3] = Store /\ ScanAndConfigure[4] = SMGlobal(LSS_WAITING_MODE)
  BY DEF ScanAndConfigure
<1>2. \A i \in 1 .. 4 : IsCommand(ScanAndConfigure[i])
  BY <1>1, TheCommands
<1> QED BY <1>1, <1>2 DEF Commands, IsSequence

LEMMA OneCommand ==
  ASSUME NEW c, IsCommand(c)
  PROVE  Commands(<<c>>) /\ Len(<<c>>) = 1 /\ <<c>>[1] = c
<1>1. <<c>> \in Seq({c}) /\ Len(<<c>>) = 1 /\ <<c>>[1] = c
  OBVIOUS
<1>2. \A i \in 1 .. 1 : IsCommand(<<c>>[i])
  BY <1>1
<1> QED BY <1>1, <1>2 DEF Commands, IsSequence

\* A step that leaves master, slaves, bus and the commands given alone.
LEMMA PlanChanges ==
  ASSUME CommandInvariant, UNCHANGED <<master, slave, toSlave, toMaster, losses>>,
         given' \in Nat, Commands(plan)', asked' = asked \/ (asked' = <<>> /\ ~Busy)
  PROVE  CommandInvariant'
<1>1. Commands(asked)'
  BY NoCommands DEF CommandInvariant, Plans
<1>2. Plans' /\ SlavesKept'
  BY <1>1 DEF CommandInvariant, Plans, SlavesKept
<1>3. Bus'
  BY DEF CommandInvariant, Bus, Current, FastScanFrame
<1>4. MasterWaits'
  BY DEF CommandInvariant, MasterWaits, Busy
<1> QED BY <1>2, <1>3, <1>4 DEF CommandInvariant

LEMMA BeginKeeps ==
  ASSUME CommandInvariant, Begin
  PROVE  CommandInvariant'
<1>1. Commands(plan)'
  BY ScanIsCommands, ExtrasAreCommands DEF Begin
<1> QED BY <1>1, PlanChanges DEF Begin, CommandInvariant, Plans, Busy

LEMMA BreakOffKeeps ==
  ASSUME CommandInvariant, BreakOff
  PROVE  CommandInvariant'
<1>2. Commands(<<SMGlobal(LSS_WAITING_MODE)>>)
  BY TheCommands, OneCommand
<1>3. Commands(plan)'
  BY <1>2 DEF BreakOff
<1> QED BY <1>3, PlanChanges DEF BreakOff, CommandInvariant, Plans, bounds

\* What a command does to the master, and that it is alone on the bus.
LEMMA CommandIsGiven ==
  ASSUME CommandInvariant, configNetworkNode
  PROVE  LET c == Filled(Head(plan)) IN
         /\ ~Busy /\ Quiet /\ plan # <<>> /\ IsCommand(Head(plan)) /\ Head(plan) = plan[1]
         /\ IsCommand(c) /\ c.cs = Head(plan).cs /\ c.sub = Head(plan).sub
         /\ asked' = Append(asked, c) /\ asked' # <<>> /\ Last(asked') = c
         /\ plan' = Tail(plan) /\ slave' = slave /\ losses' = losses /\ toMaster' = toMaster
         /\ master.FastScan_SM = LSS_FS_RESET /\ ~master.timerFS /\ ~master.timerMSG
         /\ master.switchDelayState = SDELAY_OFF
         /\ DOMAIN master' = MasterFields /\ master'.command = c.cs
         /\ sendMasterLSSMessage(c)
         /\ \A s \in Slaves : toSlave[s] = <<>> /\ ~Silent(s)
<1> DEFINE c == Filled(Head(plan))
<1>1. /\ plan # <<>> /\ ~Busy /\ Quiet /\ asked' = Append(asked, c) /\ plan' = Tail(plan)
      /\ slave' = slave /\ losses' = losses /\ toMaster' = toMaster
      /\ sendMasterLSSMessage(c) /\ \A s \in Slaves : ~Silent(s)
  BY DEF configNetworkNode, Busy, bounds
<1>2. IsCommand(Head(plan)) /\ Head(plan) = plan[1]
  BY <1>1, CommandsTail DEF CommandInvariant, Plans
<1>3. IsCommand(c) /\ c.cs = Head(plan).cs /\ c.sub = Head(plan).sub
  BY <1>2, FilledIsCommand
<1> HIDE DEF c
<1>4. asked' # <<>> /\ Last(asked') = c
  BY <1>1, <1>3, CommandsAppend DEF CommandInvariant, Plans
<1>5. /\ master.FastScan_SM = LSS_FS_RESET /\ ~master.timerFS /\ ~master.timerMSG
      /\ master.switchDelayState = SDELAY_OFF /\ DOMAIN master = MasterFields
  BY <1>1 DEF CommandInvariant, MasterWaits
<1>6. DOMAIN master' = MasterFields /\ master'.command = c.cs
  BY <1>1, <1>5 DEF sendMasterLSSMessage, Started, MasterFields
<1>7. \A s \in Slaves : toSlave[s] = <<>>
  BY <1>1 DEF Quiet
<1> QED BY <1>1, <1>2, <1>3, <1>4, <1>5, <1>6, <1>7 DEF c

LEMMA CommandKeeps ==
  ASSUME CommandInvariant, configNetworkNode
  PROVE  CommandInvariant'
<1> DEFINE c == Filled(Head(plan))
<1>1. /\ ~Busy /\ Quiet /\ plan # <<>> /\ IsCommand(c)
      /\ asked' = Append(asked, c) /\ asked' # <<>> /\ Last(asked') = c
      /\ plan' = Tail(plan) /\ slave' = slave /\ losses' = losses /\ toMaster' = toMaster
      /\ master.FastScan_SM = LSS_FS_RESET /\ ~master.timerFS /\ ~master.timerMSG
      /\ master.switchDelayState = SDELAY_OFF
      /\ DOMAIN master' = MasterFields /\ master'.command = c.cs
      /\ sendMasterLSSMessage(c)
      /\ \A s \in Slaves : toSlave[s] = <<>>
  BY CommandIsGiven
<1> HIDE DEF c
<1>2. Plans'
  <2>1. Commands(plan') /\ Commands(asked')
    BY <1>1, CommandsTail, CommandsAppend DEF CommandInvariant, Plans
  <2>2. given' \in Nat /\ losses' \in Nat
    BY <1>1 DEF CommandInvariant, Plans, configNetworkNode
  <2> QED BY <2>1, <2>2 DEF Plans
<1>3. SlavesKept'
  BY <1>1 DEF CommandInvariant, SlavesKept
<1>4. DOMAIN master = MasterFields
  BY DEF CommandInvariant, MasterWaits
<1>5. MasterWaits'
  BY <1>1, <1>4, StatesDiffer
     DEF sendMasterLSSMessage, Started, MasterFields, MasterWaits, Busy, HasResponse, LastIdentTest
<1>6. Bus'
  <2>1. DOMAIN toSlave = Slaves /\ IsSequence(toMaster)
    BY DEF CommandInvariant, Bus
  <2>2. toMaster' = <<>>
    BY <1>1 DEF Quiet
  <2>3. toSlave' = toSlave \/ Broadcast(Current')
    BY <1>1 DEF sendMasterLSSMessage, Current
  <2>4. \A s \in Slaves : toSlave'[s] = <<>> \/ toSlave'[s] = <<Current'>>
    <3>1. CASE toSlave' = toSlave
      BY <1>1, <3>1
    <3>2. CASE Broadcast(Current')
      <4> DEFINE f == Current'
      <4>1. toSlave' = [s \in Slaves |-> Append(toSlave[s], f)]
        BY <3>2 DEF Broadcast
      <4>2. Append(<<>>, f) = <<f>>
        OBVIOUS
      <4> HIDE DEF f
      <4>3. \A s \in Slaves : toSlave'[s] = <<f>>
        BY <1>1, <4>1, <4>2
      <4> QED BY <4>3 DEF f
    <3> QED BY <2>3, <3>1, <3>2
  <2>5. DOMAIN toSlave' = Slaves
    BY <2>1, <2>3 DEF Broadcast
  <2> QED BY <1>1, <2>1, <2>2, <2>4, <2>5 DEF Bus
<1> QED BY <1>2, <1>3, <1>5, <1>6 DEF CommandInvariant

-----------------------------------------------------------------------------
(***************************************************************************)
(* The master's steps, the slaves', and losses.                            *)
(***************************************************************************)
\* When nothing is on its way the master may send what it likes.
LEMMA SendsKeep ==
  ASSUME Bus, Quiet, asked' = asked, toMaster' = toMaster,
         Current' = FastScanFrame(master'),
         toSlave' = toSlave \/ Broadcast(FastScanFrame(master'))
  PROVE  Bus'
<1> DEFINE f == FastScanFrame(master')
<1>1. DOMAIN toSlave = Slaves /\ IsSequence(toMaster) /\ toMaster' = <<>>
      /\ \A s \in Slaves : toSlave[s] = <<>>
  BY DEF Bus, Quiet
<1>2. Append(<<>>, f) = <<f>>
  OBVIOUS
<1> HIDE DEF f
<1>3. (toSlave' = toSlave) \/ (\A s \in Slaves : toSlave'[s] = <<f>>)
  BY <1>1, <1>2 DEF Broadcast, f
<1>4. DOMAIN toSlave' = Slaves
  BY <1>1 DEF Broadcast
<1>5. Current' = f
  BY DEF f
<1> QED BY <1>1, <1>3, <1>4, <1>5 DEF Bus

LEMMA StillBus ==
  ASSUME Bus, asked' = asked, toSlave' = toSlave, IsSequence(toMaster'),
         asked # <<>> => Current' = Current,
         \A i \in 1 .. Len(toMaster') : i + 1 \in 1 .. Len(toMaster) /\ toMaster'[i] = toMaster[i + 1]
  PROVE  Bus'
<1>1. PICK f : /\ \A s \in Slaves : toSlave[s] = <<>> \/ toSlave[s] = <<f>>
               /\ asked # <<>> => f = Current
  BY DEF Bus
<1> QED BY <1>1 DEF Bus

LEMMA QuietBus ==
  ASSUME Bus, Quiet, asked' = asked, toSlave' = toSlave, toMaster' = toMaster
  PROVE  Bus'
<1>1. DOMAIN toSlave = Slaves /\ IsSequence(toMaster) /\ toMaster = <<>>
      /\ \A s \in Slaves : toSlave[s] = <<>>
  BY DEF Bus, Quiet
<1>2. Len(toMaster) = 0
  BY <1>1
<1> QED BY <1>1, <1>2 DEF Bus

\* The master takes an answer.
LEMMA AnswerIsTaken ==
  ASSUME CommandInvariant, proceedLSS_Master
  PROVE  LET a == Head(toMaster) IN
         /\ toMaster # <<>> /\ toMaster' = Tail(toMaster) /\ a = toMaster[1] /\ 1 \in 1 .. Len(toMaster)
         /\ IsSequence(toMaster')
         /\ \A i \in 1 .. Len(toMaster') :
              i + 1 \in 1 .. Len(toMaster) /\ toMaster'[i] = toMaster[i + 1]
         /\ UNCHANGED <<slave, toSlave, userVars, bounds>>
         /\ asked # <<>> => Answers(Last(asked).cs, a.cs)
         /\ \/ master' = master
            \/ /\ Busy /\ asked # <<>> /\ master.command = "IDENT_FASTSCAN" /\ a.cs = "IDENT_SLAVE"
               /\ master' = [master EXCEPT !.LSSanswer = 1]
            \/ /\ Busy /\ asked # <<>> /\ master.command # "IDENT_FASTSCAN"
               /\ master.command # "CONF_ACT_BIT_TIMING"
               /\ master' = [Finishes(master, a.dat1) EXCEPT !.timerMSG = FALSE]
<1> DEFINE a == Head(toMaster)
<1>1. PICK X : toMaster \in Seq(X)
  BY DEF CommandInvariant, Bus, IsSequence
<1>2. toMaster # <<>> /\ toMaster' = Tail(toMaster) /\ UNCHANGED <<slave, toSlave, userVars, bounds>>
  BY DEF proceedLSS_Master
<1>3. a = toMaster[1] /\ 1 \in 1 .. Len(toMaster) /\ toMaster' \in Seq(X)
      /\ \A i \in 1 .. Len(toMaster') :
           i + 1 \in 1 .. Len(toMaster) /\ toMaster'[i] = toMaster[i + 1]
  BY <1>1, <1>2
<1>4. asked # <<>> => Answers(Last(asked).cs, a.cs)
  BY <1>3 DEF CommandInvariant, Bus
<1>5. Busy => asked # <<>> /\ master.command = Last(asked).cs
  BY DEF CommandInvariant, MasterWaits
<1>6. master' = IF ~Busy THEN master
                ELSE IF a.cs = "IDENT_SLAVE" /\ master.command = "IDENT_FASTSCAN"
                THEN [master EXCEPT !.LSSanswer = 1]
                ELSE IF master.command \notin Expected(a.cs) THEN master
                ELSE [Finishes(master, a.dat1) EXCEPT !.timerMSG = FALSE]
  BY DEF proceedLSS_Master, Busy
<1> HIDE DEF a
<1>7. ASSUME Answers(master.command, a.cs), master.command \in Expected(a.cs)
      PROVE  master.command # "IDENT_FASTSCAN" /\ master.command # "CONF_ACT_BIT_TIMING"
  BY <1>7 DEF Answers, Expected, IdentTests
<1>8. \/ master' = master
      \/ /\ Busy /\ asked # <<>> /\ master.command = "IDENT_FASTSCAN" /\ a.cs = "IDENT_SLAVE"
         /\ master' = [master EXCEPT !.LSSanswer = 1]
      \/ /\ Busy /\ asked # <<>> /\ master.command # "IDENT_FASTSCAN"
         /\ master.command # "CONF_ACT_BIT_TIMING"
         /\ master' = [Finishes(master, a.dat1) EXCEPT !.timerMSG = FALSE]
  BY <1>4, <1>5, <1>6, <1>7
<1>9. IsSequence(toMaster')
  BY <1>3 DEF IsSequence
<1> QED BY <1>2, <1>3, <1>4, <1>8, <1>9 DEF a

LEMMA AnswerKeeps ==
  ASSUME CommandInvariant, proceedLSS_Master
  PROVE  CommandInvariant'
<1> DEFINE a == Head(toMaster)
<1>1. /\ IsSequence(toMaster')
      /\ \A i \in 1 .. Len(toMaster') :
           i + 1 \in 1 .. Len(toMaster) /\ toMaster'[i] = toMaster[i + 1]
      /\ UNCHANGED <<slave, toSlave, userVars, bounds>>
      /\ \/ master' = master
         \/ /\ Busy /\ asked # <<>> /\ master.command = "IDENT_FASTSCAN"
            /\ master' = [master EXCEPT !.LSSanswer = 1]
         \/ /\ Busy /\ asked # <<>> /\ master.command # "IDENT_FASTSCAN"
            /\ master.command # "CONF_ACT_BIT_TIMING"
            /\ master' = [Finishes(master, a.dat1) EXCEPT !.timerMSG = FALSE]
  BY AnswerIsTaken
<1> HIDE DEF a
<1>2. DOMAIN master = MasterFields /\ Bus /\ MasterWaits
  BY DEF CommandInvariant, MasterWaits
<1>3. asked' = asked
  BY <1>1 DEF userVars
<1>4. asked # <<>> => Current' = Current
  BY <1>1, <1>2, <1>3 DEF Current, FastScanFrame, MasterFields, MasterWaits
<1>5. Bus'
  BY <1>1, <1>2, <1>3, <1>4, StillBus
<1>6. MasterWaits'
  BY <1>1, <1>2, <1>3, StatesDiffer DEF MasterWaits, Finishes, MasterFields, Busy
<1>7. Plans' /\ SlavesKept'
  BY <1>1 DEF CommandInvariant, Plans, SlavesKept, userVars, bounds
<1> QED BY <1>5, <1>6, <1>7 DEF CommandInvariant

LEMMA MasterAlarmsKeep ==
  ASSUME CommandInvariant, MasterAlarms
  PROVE  CommandInvariant'
<1>1. DOMAIN master = MasterFields /\ Bus /\ MasterWaits
  BY DEF CommandInvariant, MasterWaits
<1>2. UNCHANGED <<slave, toMaster, userVars, bounds>> /\ asked' = asked /\ Quiet
  BY DEF MasterAlarms, LssAlarmMSG, LssAlarmFS, LssAlarmSDELAY_Master, userVars
<1>3. Plans' /\ SlavesKept'
  BY <1>2 DEF CommandInvariant, Plans, SlavesKept, userVars, bounds
<1>4. CASE LssAlarmMSG
  <2> DEFINE m == [master EXCEPT !.timerMSG = FALSE]
  <2>1. master.timerMSG /\ Busy /\ asked # <<>> /\ master.command = Last(asked).cs
        /\ ~master.timerFS /\ master.switchDelayState = SDELAY_OFF
        /\ master.FastScan_SM = LSS_FS_RESET
    BY <1>1, <1>4 DEF LssAlarmMSG, MasterWaits
  <2>2. CASE /\ master.command = "IDENT_FASTSCAN"
             /\ master' = Field(m, 0) /\ Broadcast(FastScanFrame(master'))
    <3>1. Current' = FastScanFrame(master')
      BY <1>2, <2>1, <2>2 DEF Current
    <3>2. Bus'
      BY <1>1, <1>2, <2>2, <3>1, SendsKeep
    <3>3. MasterWaits'
      BY <1>1, <1>2, <2>1, <2>2, StatesDiffer DEF MasterWaits, Field, MasterFields, Busy
    <3> QED BY <1>3, <3>2, <3>3 DEF CommandInvariant
  <2>3. CASE master' \in {Finishes(m, 1), Aborts(m)} /\ toSlave' = toSlave
    <3>1. Bus'
      BY <1>1, <1>2, <2>3, QuietBus
    <3>2. MasterWaits'
      BY <1>1, <1>2, <2>1, <2>3, StatesDiffer
         DEF MasterWaits, Finishes, Aborts, MasterFields, Busy
    <3> QED BY <1>3, <3>1, <3>2 DEF CommandInvariant
  <2> QED
    BY <1>1, <1>4, <2>2, <2>3 DEF LssAlarmMSG, MasterSends, MasterFields
<1>5. CASE LssAlarmFS
  <2> DEFINE m == [master EXCEPT !.timerFS = FALSE]
             next == [NextBit(BitFound(m)) EXCEPT !.LSSanswer = 0, !.timerFS = TRUE]
  <2>1. master.timerFS /\ Busy /\ asked # <<>> /\ master.command = Last(asked).cs
        /\ ~master.timerMSG /\ master.switchDelayState = SDELAY_OFF
        /\ master.FastScan_SM # LSS_FS_RESET /\ master.command = "IDENT_FASTSCAN"
    BY <1>1, <1>5, StatesDiffer DEF LssAlarmFS, MasterWaits
  <2>2. CASE /\ \/ master' = next /\ master.FastScan_SM = LSS_FS_PROCESSING
                \/ master' = Field(m, m.LSSSub + 1)
             /\ Broadcast(FastScanFrame(master'))
    <3>1. Current' = FastScanFrame(master')
      BY <1>2, <2>1, <2>2 DEF Current
    <3>2. Bus'
      BY <1>1, <1>2, <2>2, <3>1, SendsKeep
    <3>3. MasterWaits'
      <4>1. CASE master' = next /\ master.FastScan_SM = LSS_FS_PROCESSING
        BY <1>1, <1>2, <2>1, <4>1, StatesDiffer
           DEF MasterWaits, NextBit, BitFound, MasterFields, Busy
      <4>2. CASE master' = Field(m, m.LSSSub + 1)
        BY <1>1, <1>2, <2>1, <4>2, StatesDiffer DEF MasterWaits, Field, MasterFields, Busy
      <4> QED BY <2>2, <4>1, <4>2
    <3> QED BY <1>3, <3>2, <3>3 DEF CommandInvariant
  <2>3. CASE /\ toSlave' = toSlave
             /\ \/ master' = Aborts(m)
                \/ master' = Finishes([m EXCEPT !.FastScan_SM = LSS_FS_RESET, !.IDNumber = 0,
                                                !.BitChecked = 128, !.LSSSub = 0,
                                                !.LSSNext = 0, !.LSSanswer = 0], 0)
    <3>1. Bus'
      BY <1>1, <1>2, <2>3, QuietBus
    <3>2. MasterWaits'
      BY <1>1, <1>2, <2>1, <2>3, StatesDiffer
         DEF MasterWaits, Finishes, Aborts, MasterFields, Busy
    <3> QED BY <1>3, <3>1, <3>2 DEF CommandInvariant
  <2>4. m.FastScan_SM = master.FastScan_SM
    BY <1>1 DEF MasterFields
  <2>5. master.FastScan_SM \in {LSS_FS_PROCESSING, LSS_FS_CONFIRMATION}
    BY <1>1, <2>1 DEF MasterWaits
  <2> QED
    BY <1>5, <2>1, <2>2, <2>3, <2>4, <2>5, StatesDiffer DEF LssAlarmFS, MasterSends
<1>6. CASE LssAlarmSDELAY_Master
  <2>1. /\ Busy /\ asked # <<>> /\ master.command = Last(asked).cs
        /\ ~master.timerMSG /\ ~master.timerFS /\ master.FastScan_SM = LSS_FS_RESET
        /\ toSlave' = toSlave /\ master.command = "CONF_ACT_BIT_TIMING"
    BY <1>1, <1>6, StatesDiffer DEF LssAlarmSDELAY_Master, DelayRuns, MasterWaits
  <2>2. Bus'
    BY <1>1, <1>2, <2>1, QuietBus
  <2>3. MasterWaits'
    BY <1>1, <1>2, <1>6, <2>1, StatesDiffer
       DEF LssAlarmSDELAY_Master, MasterWaits, Finishes, MasterFields, Busy
  <2> QED BY <1>3, <2>2, <2>3 DEF CommandInvariant
<1> QED BY <1>4, <1>5, <1>6 DEF MasterAlarms

-----------------------------------------------------------------------------
(***************************************************************************)
(* The slaves' steps.                                                      *)
(***************************************************************************)
\* A frame that is on its way is the only one, of the last command.
LEMMA FrameOnItsWay ==
  ASSUME Bus, NEW s \in Slaves, toSlave[s] # <<>>
  PROVE  /\ toSlave[s] = <<Head(toSlave[s])>> /\ Tail(toSlave[s]) = <<>>
         /\ asked # <<>> => Head(toSlave[s]) = Current
<1>1. PICK f : /\ \A r \in Slaves : toSlave[r] = <<>> \/ toSlave[r] = <<f>>
               /\ asked # <<>> => f = Current
  BY DEF Bus
<1>2. toSlave[s] = <<f>>
  BY <1>1
<1>3. Head(<<f>>) = f /\ Tail(<<f>>) = <<>>
  OBVIOUS
<1> QED BY <1>1, <1>2, <1>3

LEMMA OneMore ==
  ASSUME NEW q, IsSequence(q), NEW a
  PROVE  /\ IsSequence(q \o <<a>>) /\ Len(q) \in Nat /\ Len(q \o <<a>>) = Len(q) + 1
         /\ \A i \in 1 .. Len(q \o <<a>>) : IF i = Len(q) + 1 THEN (q \o <<a>>)[i] = a
                                            ELSE i \in 1 .. Len(q) /\ (q \o <<a>>)[i] = q[i]
<1>1. PICK Y : q \in Seq(Y)
  BY DEF IsSequence
<1> DEFINE X == Y \cup {a}
<1>2. q \in Seq(X) /\ a \in X
  BY <1>1
<1> HIDE DEF X
<1> DEFINE z == q \o <<a>>
<1>3. z = Append(q, a) /\ Len(q) \in Nat
  BY <1>2
<1>4. z \in Seq(X) /\ Len(z) = Len(q) + 1
  BY <1>2
<1>5. \A i \in 1 .. Len(q) : z[i] = q[i]
  BY <1>2
<1>6. z[Len(q) + 1] = a
  BY <1>2
<1> HIDE DEF z
<1>7. \A i \in 1 .. Len(z) : IF i = Len(q) + 1 THEN z[i] = a ELSE i \in 1 .. Len(q) /\ z[i] = q[i]
  BY <1>3, <1>4, <1>5, <1>6
<1> QED BY <1>3, <1>4, <1>7 DEF z, IsSequence

\* What a slave does with a frame: it may answer, and keeps its fields.
Does(s, d, answers) ==
  LET f == Head(toSlave[s]) IN
  /\ SlaveDoes(s, d, answers) /\ IsSlave(d)
  /\ answers = <<>> \/ \E a : answers = <<a>> /\ Answers(f.cs, a.cs)

LEMMA NoAnswer == \A cs, dat1 : Answer(cs, dat1).cs = cs
BY DEF Answer

LEMMA SlaveDoesWell ==
  ASSUME SlavesKept, NEW s \in Slaves, proceedLSS_Slave(s)
  PROVE  toSlave[s] # <<>> /\ \E d, answers : Does(s, d, answers)
<1> DEFINE f == Head(toSlave[s])
<1>1. IsSlave(slave[s])
  BY DEF SlavesKept
<1>2. Does(s, slave[s], <<>>) <=> SlaveDoes(s, slave[s], <<>>)
  BY <1>1 DEF Does
<1>3. ASSUME NEW d, IsSlave(d), SlaveDoes(s, d, <<>>)
      PROVE  Does(s, d, <<>>)
  BY <1>3 DEF Does
<1>4. ASSUME NEW d, NEW cs, NEW dat1, IsSlave(d), Answers(f.cs, cs),
             SlaveDoes(s, d, <<Answer(cs, dat1)>>)
      PROVE  Does(s, d, <<Answer(cs, dat1)>>)
  BY <1>4, NoAnswer DEF Does
<1> HIDE DEF f
<1>5. CASE SwitchMode(s)
  BY <1>1, <1>3, <1>5 DEF SwitchMode, SlaveGets, LeavesForMode, NewIdOnWaiting, setNodeId, IsSlave, SlaveFields
<1>6. CASE Configure(s)
  <2> DEFINE d == slave[s]
             n == [d EXCEPT !.nodeID = f.value]
             b == [d EXCEPT !.baudRate = f.value]
  <2>1. IsSlave(d) /\ IsSlave(n) /\ IsSlave(b)
    BY <1>1 DEF IsSlave, SlaveFields
  <2> HIDE DEF d, n, b
  <2>2. toSlave[s] # <<>> /\ f.cs \in {"CONF_NODE_ID", "CONF_BIT_TIMING", "CONF_STORE"}
    BY <1>6 DEF Configure, SlaveGets, f
  <2>3. Answers(f.cs, f.cs)
    BY <2>2 DEF Answers
  <2>4. \/ SlaveDoes(s, d, <<>>)
        \/ \E x \in {0, 1} : SlaveDoes(s, d, <<Answer(f.cs, x)>>)
        \/ \E x \in {0, 1} : SlaveDoes(s, n, <<Answer(f.cs, x)>>)
        \/ SlaveDoes(s, b, <<Answer(f.cs, 0)>>)
    BY <1>6, <2>2 DEF Configure, BitTimingChosen, f, d, n, b
  <2> QED BY <1>3, <1>4, <2>1, <2>2, <2>3, <2>4
<1>7. CASE AnswerInquiry(s)
  BY <1>1, <1>3, <1>4, <1>7 DEF AnswerInquiry, SlaveGets, Answers, f
<1>8. CASE ActivateBitTiming(s)
  BY <1>1, <1>3, <1>8 DEF ActivateBitTiming, SlaveGets, PutAside, IsSlave, SlaveFields
<1>9. CASE SelectMode(s)
  <2> DEFINE d == slave[s]
             m == [d EXCEPT !.addr_sel_match =
                     Match(d.addr_sel_match, f.value = Identity[s][f.sub], f.sub)]
             c == [d EXCEPT !.addr_sel_match = {}, !.nodeID = d.id, !.mode = LSS_CONFIGURATION_MODE]
  <2>1. IsSlave(d) /\ IsSlave(m) /\ IsSlave(c)
    BY <1>1 DEF IsSlave, SlaveFields
  <2>2. toSlave[s] # <<>> /\ Answers(f.cs, "SM_SELECTIVE_RESP")
    BY <1>9 DEF SelectMode, SlaveGets, Answers, f
  <2>3. SlaveDoes(s, d, <<>>) \/ SlaveDoes(s, m, <<>>)
        \/ SlaveDoes(s, c, <<Answer("SM_SELECTIVE_RESP", 0)>>)
    BY <1>9 DEF SelectMode, f
  <2> HIDE DEF d, m, c
  <2> QED BY <1>3, <1>4, <2>1, <2>2, <2>3
<1>10. CASE IdentifyRemote(s)
  <2> DEFINE d == slave[s]
             match == Match(d.addr_ident_match, Passes(f.cs, f.value, Identity[s][f.sub]),
                            <<f.cs, f.sub>>)
             m == [d EXCEPT !.addr_ident_match = match]
             c == [d EXCEPT !.addr_ident_match = {}]
  <2>1. IsSlave(m) /\ IsSlave(c)
    BY <1>1 DEF IsSlave, SlaveFields
  <2>2. toSlave[s] # <<>> /\ Answers(f.cs, "IDENT_SLAVE")
    BY <1>10 DEF IdentifyRemote, SlaveGets, Answers, f
  <2>3. SlaveDoes(s, m, <<>>) \/ SlaveDoes(s, c, <<Answer("IDENT_SLAVE", 0)>>)
    BY <1>10 DEF IdentifyRemote, f
  <2> HIDE DEF m, c
  <2> QED BY <1>3, <1>4, <2>1, <2>2, <2>3
<1>11. CASE IdentifyNonConfigured(s)
  BY <1>1, <1>3, <1>4, <1>11 DEF IdentifyNonConfigured, SlaveGets, Answers, f
<1>12. CASE FastScanAnswer(s)
  <2> DEFINE d == slave[s]
             here == <<Answer("IDENT_SLAVE", 0)>>
             p == [d EXCEPT !.LSSPos = 0, !.FastScan_SM = LSS_FS_PROCESSING]
             b == [d EXCEPT !.FastScan_SM = IF f.bit = 0 THEN LSS_FS_CONFIRMATION ELSE @]
             c == [d EXCEPT !.nodeID = d.id, !.mode = LSS_CONFIGURATION_MODE,
                            !.FastScan_SM = LSS_FS_RESET, !.LSSPos = 255]
             n == [d EXCEPT !.LSSPos = f.next, !.FastScan_SM = LSS_FS_PROCESSING]
  <2>1. /\ IsSlave(d) /\ IsSlave(p) /\ IsSlave(b)
        /\ IsSlave(c) /\ IsSlave(n)
    BY <1>1 DEF IsSlave, SlaveFields
  <2>2. toSlave[s] # <<>> /\ Answers(f.cs, "IDENT_SLAVE")
    BY <1>12 DEF FastScanAnswer, SlaveGets, Answers, f
  <2> DEFINE state == IF f.bit = 128 THEN LSS_FS_RESET ELSE d.FastScan_SM
  <2>3. \/ SlaveDoes(s, d, <<>>)
        \/ SlaveDoes(s, p, here)
        \/ SlaveDoes(s, b, <<>>) \/ SlaveDoes(s, b, here)
        \/ SlaveDoes(s, c, here) \/ SlaveDoes(s, n, here)
        \/ state \notin {LSS_FS_RESET, LSS_FS_PROCESSING, LSS_FS_CONFIRMATION}
    BY <1>12 DEF FastScanAnswer, f
  <2>4. state \in {LSS_FS_RESET, LSS_FS_PROCESSING, LSS_FS_CONFIRMATION}
    BY <1>1 DEF IsSlave
  <2> HIDE DEF d, p, b, c, n, state
  <2> QED BY <1>3, <1>4, <2>1, <2>2, <2>3, <2>4
<1> QED BY <1>5, <1>6, <1>7, <1>8, <1>9, <1>10, <1>11, <1>12 DEF proceedLSS_Slave

\* What is on the bus after it.
LEMMA SlaveTakesFrame ==
  ASSUME CommandInvariant, NEW s \in Slaves, proceedLSS_Slave(s)
  PROVE  /\ toSlave[s] # <<>>
         /\ asked # <<>> => Head(toSlave[s]) = Current
         /\ toSlave[s] = <<Head(toSlave[s])>> /\ toSlave'[s] = <<>>
         /\ \A r \in Slaves \ {s} : toSlave'[r] = toSlave[r] /\ slave'[r] = slave[r]
         /\ DOMAIN toSlave' = Slaves /\ DOMAIN slave' = Slaves /\ IsSlave(slave'[s])
         /\ UNCHANGED <<master, userVars, bounds>>
         /\ \/ toMaster' = toMaster
            \/ \E a : toMaster' = toMaster \o <<a>> /\ Answers(Head(toSlave[s]).cs, a.cs)
<1>1. PICK d, answers : Does(s, d, answers)
  BY SlaveDoesWell DEF CommandInvariant
<1>2. toSlave[s] # <<>>
  BY SlaveDoesWell DEF CommandInvariant
<1>3. /\ toSlave[s] = <<Head(toSlave[s])>> /\ Tail(toSlave[s]) = <<>>
      /\ asked # <<>> => Head(toSlave[s]) = Current
  BY <1>2, FrameOnItsWay DEF CommandInvariant
<1>4. DOMAIN toSlave = Slaves /\ DOMAIN slave = Slaves /\ IsSequence(toMaster)
  BY DEF CommandInvariant, Bus, SlavesKept
<1>5. toMaster \o <<>> = toMaster
  <2>1. PICK X : toMaster \in Seq(X)
    BY <1>4 DEF IsSequence
  <2> QED BY <2>1
<1>6. /\ slave' = [slave EXCEPT ![s] = d] /\ IsSlave(d)
      /\ toSlave' = [toSlave EXCEPT ![s] = Tail(@)]
      /\ UNCHANGED <<master, userVars, bounds>>
      /\ toMaster' = toMaster \/ toMaster' = toMaster \o answers
      /\ answers = <<>> \/ \E a : answers = <<a>> /\ Answers(Head(toSlave[s]).cs, a.cs)
  BY <1>1 DEF Does, SlaveDoes
<1>7. \/ toMaster' = toMaster
      \/ \E a : toMaster' = toMaster \o <<a>> /\ Answers(Head(toSlave[s]).cs, a.cs)
  BY <1>5, <1>6
<1>8. toSlave'[s] = <<>>
  BY <1>3, <1>4, <1>6
<1> QED BY <1>2, <1>3, <1>4, <1>6, <1>7, <1>8

LEMMA SlaveKeeps ==
  ASSUME CommandInvariant, NEW s \in Slaves, proceedLSS_Slave(s)
  PROVE  CommandInvariant'
<1>1. /\ toSlave[s] # <<>>
      /\ asked # <<>> => Head(toSlave[s]) = Current
      /\ toSlave'[s] = <<>>
      /\ \A r \in Slaves \ {s} : toSlave'[r] = toSlave[r] /\ slave'[r] = slave[r]
      /\ DOMAIN toSlave' = Slaves /\ DOMAIN slave' = Slaves /\ IsSlave(slave'[s])
      /\ UNCHANGED <<master, userVars, bounds>>
      /\ \/ toMaster' = toMaster
         \/ \E a : toMaster' = toMaster \o <<a>> /\ Answers(Head(toSlave[s]).cs, a.cs)
  BY SlaveTakesFrame
<1>2. /\ master' = master /\ asked' = asked /\ plan' = plan /\ given' = given /\ losses' = losses
      /\ (asked # <<>> => Current' = Current)
  BY <1>1 DEF userVars, bounds, Current, FastScanFrame
<1>3. IsSequence(toMaster) /\ Bus
  BY DEF CommandInvariant, Bus
<1>4. Last(asked).cs = Current.cs
  BY DEF Current, Frame, FastScanFrame
<1>5. IsSequence(toMaster') /\ (asked' # <<>> =>
        \A i \in 1 .. Len(toMaster') : Answers(Last(asked').cs, toMaster'[i].cs))
  <2>1. CASE toMaster' = toMaster
    BY <1>2, <1>3, <2>1 DEF Bus
  <2>2. ASSUME NEW a, toMaster' = toMaster \o <<a>>, Answers(Head(toSlave[s]).cs, a.cs)
        PROVE  IsSequence(toMaster') /\ (asked' # <<>> =>
                 \A i \in 1 .. Len(toMaster') : Answers(Last(asked').cs, toMaster'[i].cs))
    <3>1. /\ IsSequence(toMaster')
          /\ \A i \in 1 .. Len(toMaster') :
               IF i = Len(toMaster) + 1 THEN toMaster'[i] = a
               ELSE i \in 1 .. Len(toMaster) /\ toMaster'[i] = toMaster[i]
      BY <1>3, <2>2, OneMore
    <3>2. asked # <<>> => Answers(Last(asked).cs, a.cs)
      BY <1>1, <1>4, <2>2
    <3> QED BY <1>2, <1>3, <3>1, <3>2 DEF Bus
  <2> QED BY <1>1, <2>1, <2>2
<1>6. Bus'
  <2>1. PICK f : /\ \A r \in Slaves : toSlave[r] = <<>> \/ toSlave[r] = <<f>>
                 /\ asked # <<>> => f = Current
    BY <1>3 DEF Bus
  <2>2. \A r \in Slaves : toSlave'[r] = <<>> \/ toSlave'[r] = <<f>>
    BY <1>1, <2>1
  <2> QED BY <1>1, <1>2, <1>5, <2>1, <2>2 DEF Bus
<1>7. MasterWaits' /\ Plans'
  BY <1>2 DEF CommandInvariant, MasterWaits, Plans, Busy
<1>8. SlavesKept'
  BY <1>1 DEF CommandInvariant, SlavesKept
<1> QED BY <1>6, <1>7, <1>8 DEF CommandInvariant

\* What changes a slave while nothing is on its way.
LEMMA SlaveChanges ==
  ASSUME CommandInvariant, NEW s \in Slaves,
         LssAlarmSDELAY_Slave(s) \/ ResetCommunication(s)
  PROVE  /\ UNCHANGED <<master, toSlave, toMaster, userVars, losses>> /\ Quiet
         /\ DOMAIN slave' = Slaves /\ IsSlave(slave'[s])
         /\ \A r \in Slaves \ {s} : slave'[r] = slave[r]
<1>1. DOMAIN slave = Slaves /\ IsSlave(slave[s])
  BY DEF CommandInvariant, SlavesKept
<1>2. CASE LssAlarmSDELAY_Slave(s)
  BY <1>1, <1>2 DEF LssAlarmSDELAY_Slave, bounds, IsSlave, SlaveFields
<1>3. CASE ResetCommunication(s)
  BY <1>1, <1>3 DEF ResetCommunication, setNodeId, IsSlave, SlaveFields
<1> QED BY <1>2, <1>3

LEMMA SlaveAlarmsKeep ==
  ASSUME CommandInvariant, NEW s \in Slaves,
         LssAlarmSDELAY_Slave(s) \/ ResetCommunication(s)
  PROVE  CommandInvariant'
<1>1. /\ UNCHANGED <<master, toSlave, toMaster, userVars, losses>> /\ Quiet
      /\ DOMAIN slave' = Slaves /\ IsSlave(slave'[s])
      /\ \A r \in Slaves \ {s} : slave'[r] = slave[r]
  BY SlaveChanges
<1>2. Bus'
  BY <1>1, QuietBus DEF CommandInvariant, userVars
<1>3. MasterWaits' /\ Plans'
  BY <1>1 DEF CommandInvariant, MasterWaits, Plans, Busy, userVars
<1>4. SlavesKept'
  BY <1>1 DEF CommandInvariant, SlavesKept
<1> QED BY <1>2, <1>3, <1>4 DEF CommandInvariant

LEMMA LoseKeeps ==
  ASSUME CommandInvariant, Lose
  PROVE  CommandInvariant' /\ losses' # 0
<1>1. /\ UNCHANGED <<master, slave, userVars>> /\ losses' = losses + 1
  BY DEF Lose
<1>2. Bus
  BY DEF CommandInvariant
<1>3. asked' = asked /\ (asked # <<>> => Current' = Current)
  BY <1>1 DEF userVars, Current, FastScanFrame
<1>4. ASSUME \E s \in Slaves : toSlave[s] # <<>> /\ toSlave' = [toSlave EXCEPT ![s] = Tail(@)]
                               /\ UNCHANGED toMaster
      PROVE  Bus'
  <2>1. PICK s \in Slaves : toSlave[s] # <<>> /\ toSlave' = [toSlave EXCEPT ![s] = Tail(@)]
                            /\ UNCHANGED toMaster
    BY <1>4
  <2>2. Tail(toSlave[s]) = <<>>
    BY <1>2, <2>1, FrameOnItsWay
  <2>3. PICK f : /\ \A r \in Slaves : toSlave[r] = <<>> \/ toSlave[r] = <<f>>
                 /\ asked # <<>> => f = Current
    BY <1>2 DEF Bus
  <2>4. DOMAIN toSlave' = Slaves /\ \A r \in Slaves : toSlave'[r] = <<>> \/ toSlave'[r] = <<f>>
    BY <1>2, <2>1, <2>2, <2>3 DEF Bus
  <2>5. asked' # <<>> => f = Current'
    BY <1>3, <2>3
  <2>6. /\ IsSequence(toMaster')
        /\ asked' # <<>> => \A i \in 1 .. Len(toMaster') : Answers(Last(asked').cs, toMaster'[i].cs)
    BY <1>2, <1>3, <2>1 DEF Bus
  <2> QED BY <2>4, <2>5, <2>6 DEF Bus
<1>5. ASSUME toMaster # <<>>, toMaster' = Tail(toMaster), UNCHANGED toSlave
      PROVE  Bus'
  <2>1. PICK X : toMaster \in Seq(X)
    BY <1>2 DEF Bus, IsSequence
  <2>2. toMaster' \in Seq(X) /\ \A i \in 1 .. Len(toMaster') :
          i + 1 \in 1 .. Len(toMaster) /\ toMaster'[i] = toMaster[i + 1]
    BY <1>5, <2>1
  <2>3. IsSequence(toMaster')
    BY <2>2 DEF IsSequence
  <2> QED BY <1>2, <1>3, <1>5, <2>2, <2>3, StillBus
<1>6. Bus'
  <2>1. \/ \E s \in Slaves : toSlave[s] # <<>> /\ toSlave' = [toSlave EXCEPT ![s] = Tail(@)]
                             /\ UNCHANGED toMaster
        \/ toMaster # <<>> /\ toMaster' = Tail(toMaster) /\ UNCHANGED toSlave
    BY DEF Lose
  <2> QED BY <1>4, <1>5, <2>1
<1>7. MasterWaits' /\ Plans' /\ SlavesKept' /\ losses' # 0
  BY <1>1 DEF CommandInvariant, MasterWaits, Plans, SlavesKept, Busy, userVars
<1> QED BY <1>6, <1>7 DEF CommandInvariant

\* A command that is not sent leaves the bus and the commands given alone.
LEMMA SendFailsKeeps ==
  ASSUME CommandInvariant, SendFails
  PROVE  CommandInvariant' /\ losses' # 0
<1> DEFINE c == Head(plan)
<1>1. /\ ~Busy /\ Quiet /\ plan # <<>> /\ losses' = losses + 1 /\ master' = Unsent(c)
      /\ UNCHANGED <<slave, toSlave, toMaster, asked, given>>
  BY DEF SendFails, Busy
<1> HIDE DEF c
<1>2. /\ DOMAIN master = MasterFields /\ ~master.timerMSG /\ ~master.timerFS
      /\ master.FastScan_SM = LSS_FS_RESET /\ master.switchDelayState = SDELAY_OFF
  BY <1>1 DEF CommandInvariant, MasterWaits
<1>3. MasterWaits'
  <2>1. /\ DOMAIN master' = MasterFields /\ ~master'.timerMSG /\ ~master'.timerFS
        /\ master'.FastScan_SM = LSS_FS_RESET /\ master'.switchDelayState = SDELAY_OFF
        /\ master'.state = master.state
    BY <1>1, <1>2 DEF Unsent, Started, MasterFields
  <2> QED BY <1>1, <2>1 DEF MasterWaits, Busy
<1>4. Plans'
  <2>1. Commands(<<SMGlobal(LSS_WAITING_MODE)>>) /\ Commands(<<>>)
    BY TheCommands, OneCommand, NoCommands
  <2>2. Commands(plan')
    BY <2>1 DEF SendFails, CommandInvariant, Plans
  <2> QED BY <1>1, <2>2 DEF CommandInvariant, Plans
<1>5. SlavesKept'
  BY <1>1 DEF CommandInvariant, SlavesKept
<1>6. Bus'
  <2>1. Bus /\ \A s \in Slaves : toSlave[s] = <<>>
    BY <1>1 DEF Quiet, CommandInvariant
  <2>2. \E f : /\ \A s \in Slaves : toSlave'[s] = <<>> \/ toSlave'[s] = <<f>>
              /\ asked' # <<>> => f = Current'
    BY <1>1, <2>1
  <2>3. toMaster' = <<>> /\ Len(<<>>) = 0
    BY <1>1 DEF Quiet
  <2> QED BY <1>1, <2>1, <2>2, <2>3 DEF Bus
<1>7. losses' # 0
  BY <1>1 DEF CommandInvariant, Plans
<1> QED BY <1>3, <1>4, <1>5, <1>6, <1>7 DEF CommandInvariant

LEMMA CommandStutters ==
  ASSUME CommandInvariant, UNCHANGED vars
  PROVE  CommandInvariant'
<1>1. UNCHANGED <<master, slave, toSlave, toMaster, plan, asked, given, losses>>
  BY DEF vars, userVars, bounds
<1>2. Bus'
  BY <1>1 DEF CommandInvariant, Bus, Current, FastScanFrame
<1> QED BY <1>1, <1>2 DEF CommandInvariant, MasterWaits, Plans, SlavesKept, Busy

(***************************************************************************)
(* One command at a time: every frame on the bus belongs to the last one   *)
(* given, the master waits for its answer only, and at most one of its     *)
(* timers runs.                                                            *)
(***************************************************************************)
THEOREM CommandIsInvariant == Spec => []CommandInvariant
<1>1. Init => CommandInvariant
  BY InitCommands
<1>2. CommandInvariant /\ [Next]_vars => CommandInvariant'
  <2> SUFFICES ASSUME CommandInvariant, [Next]_vars PROVE CommandInvariant'
    OBVIOUS
  <2> QED
    BY BeginKeeps, CommandKeeps, BreakOffKeeps, AnswerKeeps, MasterAlarmsKeep, SlaveKeeps,
       SlaveAlarmsKeep, LoseKeeps, SendFailsKeeps, CommandStutters DEF Next
<1> QED BY <1>1, <1>2, PTL DEF Spec

-----------------------------------------------------------------------------
(***************************************************************************)
(* The bit rate.                                                           *)
(***************************************************************************)
NotSwitching(s) == toSlave[s] = <<>> \/ Head(toSlave[s]).cs # "CONF_ACT_BIT_TIMING"

RatesAgree ==
  /\ master.switchDelayState = SDELAY_OFF
  /\ \A s \in Slaves : /\ slave[s].switchDelayState = SDELAY_OFF /\ slave[s].rate = master.rate
                       /\ NotSwitching(s)

AskedLast(c) == asked # <<>> /\ Last(asked) = c

\* The user has yet to begin with the change.
Ahead(rate, delay) == asked = <<>> /\ plan = BitRatePlan(rate, delay) /\ RatesAgree

Entering(rate, delay) ==
  /\ AskedLast(SMGlobal(LSS_CONFIGURATION_MODE)) /\ RatesAgree
  /\ plan = <<ConfBitTiming(rate), ActBitTiming(delay), SMGlobal(LSS_WAITING_MODE)>>
  /\ \A s \in Slaves : toSlave[s] # <<>> \/ slave[s].mode = LSS_CONFIGURATION_MODE

\* Either the rate was refused at the master, or every slave gets it.
Choosing(rate, delay) ==
  /\ AskedLast(ConfBitTiming(rate)) /\ RatesAgree
  /\ plan = <<ActBitTiming(delay), SMGlobal(LSS_WAITING_MODE)>>
  /\ master.baudRate = rate
  /\ \/ Failed /\ ~Busy
     \/ \A s \in Slaves : /\ slave[s].mode = LSS_CONFIGURATION_MODE
                          /\ toSlave[s] # <<>> \/ slave[s].baudRate = rate

\* Master and slaves are each before, within or after their switch delay.
SlaveSwitches(s, rate) ==
  /\ slave[s].mode = LSS_CONFIGURATION_MODE /\ slave[s].baudRate = rate
  /\ \/ slave[s].switchDelayState = SDELAY_OFF /\ (toSlave[s] # <<>> \/ slave[s].rate = rate)
     \/ slave[s].switchDelayState = SDELAY_FIRST /\ toSlave[s] = <<>> /\ Silent(s)
     \/ /\ slave[s].switchDelayState = SDELAY_SECOND /\ toSlave[s] = <<>> /\ Silent(s)
        /\ slave[s].rate = rate

Switching(rate, delay) ==
  /\ AskedLast(ActBitTiming(delay)) /\ plan = <<SMGlobal(LSS_WAITING_MODE)>>
  /\ master.baudRate = rate
  /\ master.switchDelayState \in {SDELAY_OFF, SDELAY_SECOND} => master.rate = rate
  /\ master.switchDelayState \in {SDELAY_OFF, SDELAY_FIRST, SDELAY_SECOND}
  /\ \A s \in Slaves : SlaveSwitches(s, rate)

RateStage ==
  \/ RateFree(plan) /\ RatesAgree
  \/ \E rate \in Rates \cup OtherRates, delay \in Delays :
       \/ Ahead(rate, delay) \/ Entering(rate, delay)
       \/ Choosing(rate, delay) \/ Switching(rate, delay)

RateInvariant == CommandInvariant /\ (losses = 0 => RateStage)

-----------------------------------------------------------------------------
LEMMA TailsOfTuples ==
  ASSUME NEW a, NEW b, NEW c, NEW d
  PROVE  /\ Tail(<<a, b, c, d>>) = <<b, c, d>> /\ Head(<<a, b, c, d>>) = a
         /\ Tail(<<b, c, d>>) = <<c, d>> /\ Head(<<b, c, d>>) = b
         /\ Tail(<<c, d>>) = <<d>> /\ Head(<<c, d>>) = c
         /\ Tail(<<d>>) = <<>> /\ Head(<<d>>) = d
         /\ Len(<<c, d>>) = 2 /\ Len(<<d>>) = 1
OBVIOUS

LEMMA OneIsFree ==
  ASSUME NEW c, c.cs \notin {"CONF_BIT_TIMING", "CONF_ACT_BIT_TIMING"}
  PROVE  RateFree(<<c>>) /\ RateFree(<<>>)
<1>1. DOMAIN <<c>> = {1} /\ <<c>>[1] = c /\ DOMAIN <<>> = {}
  OBVIOUS
<1> QED BY <1>1 DEF RateFree

LEMMA FreeTail ==
  ASSUME NEW q, Commands(q), q # <<>>, RateFree(q)
  PROVE  RateFree(Tail(q)) /\ Head(q).cs \notin {"CONF_BIT_TIMING", "CONF_ACT_BIT_TIMING"}
<1>1. PICK X : q \in Seq(X)
  BY DEF Commands, IsSequence
<1>2. DOMAIN q = 1 .. Len(q) /\ DOMAIN Tail(q) = 1 .. Len(Tail(q)) /\ Len(q) \in Nat
  BY <1>1
<1>3. /\ Head(q) = q[1] /\ Len(q) > 0
      /\ \A i \in 1 .. Len(Tail(q)) : i + 1 \in 1 .. Len(q) /\ Tail(q)[i] = q[i + 1]
  BY CommandsTail
<1>4. 1 \in 1 .. Len(q)
  BY <1>2, <1>3
<1> QED BY <1>2, <1>3, <1>4 DEF RateFree

LEMMA ScanIsFree == RateFree(ScanAndConfigure)
<1>1. DOMAIN ScanAndConfigure = 1 .. 4
  BY DEF ScanAndConfigure
<1> QED BY <1>1, ScanIsCommands, TheCommands DEF RateFree

\* No step of the master but the delay's touches the rates.
LEMMA MasterKeepsRate ==
  ASSUME CommandInvariant, proceedLSS_Master \/ LssAlarmMSG \/ LssAlarmFS
  PROVE  /\ slave' = slave /\ plan' = plan /\ asked' = asked /\ losses' = losses
         /\ master'.rate = master.rate /\ master'.baudRate = master.baudRate
         /\ master'.switchDelayState = master.switchDelayState
         /\ master' = master \/ Busy
         /\ \/ toSlave' = toSlave
            \/ /\ Quiet /\ asked # <<>> /\ Last(asked).cs = "IDENT_FASTSCAN"
               /\ Broadcast(FastScanFrame(master'))
<1>1. DOMAIN master = MasterFields /\ MasterWaits
  BY DEF CommandInvariant, MasterWaits
<1>2. CASE proceedLSS_Master
  <2>1. /\ UNCHANGED <<slave, toSlave, userVars, bounds>>
        /\ \/ master' = master
           \/ Busy /\ master' = [master EXCEPT !.LSSanswer = 1]
           \/ Busy /\ master' = [Finishes(master, Head(toMaster).dat1) EXCEPT !.timerMSG = FALSE]
    BY <1>2, AnswerIsTaken
  <2> QED BY <1>1, <2>1 DEF userVars, bounds, Finishes, MasterFields
<1>3. CASE LssAlarmMSG
  <2>1. Busy /\ asked # <<>> /\ master.command = Last(asked).cs
    BY <1>1, <1>3 DEF LssAlarmMSG, MasterWaits
  <2> QED
    BY <1>1, <1>3, <2>1
       DEF LssAlarmMSG, MasterSends, Field, Finishes, Aborts, MasterFields, userVars, bounds
<1>4. CASE LssAlarmFS
  <2>1. /\ Busy /\ asked # <<>> /\ master.command = Last(asked).cs
        /\ master.command = "IDENT_FASTSCAN"
        /\ master.FastScan_SM \in {LSS_FS_RESET, LSS_FS_PROCESSING, LSS_FS_CONFIRMATION}
    BY <1>1, <1>4 DEF LssAlarmFS, MasterWaits
  <2> DEFINE m == [master EXCEPT !.timerFS = FALSE]
             next == [NextBit(BitFound(m)) EXCEPT !.LSSanswer = 0, !.timerFS = TRUE]
             over == [m EXCEPT !.FastScan_SM = LSS_FS_RESET, !.IDNumber = 0,
                               !.BitChecked = 128, !.LSSSub = 0,
                               !.LSSNext = 0, !.LSSanswer = 0]
  <2>2. /\ m.rate = master.rate /\ m.baudRate = master.baudRate
        /\ m.switchDelayState = master.switchDelayState /\ m.FastScan_SM = master.FastScan_SM
        /\ DOMAIN m = MasterFields
    BY <1>1 DEF MasterFields
  <2>3. UNCHANGED <<slave, toMaster, userVars, bounds>> /\ Quiet
    BY <1>4 DEF LssAlarmFS
  <2>4. \/ master' \in {m, Aborts(m), Finishes(over, 0)} /\ toSlave' = toSlave
        \/ /\ master' = next \/ master' = Field(m, m.LSSSub + 1)
           /\ Broadcast(FastScanFrame(master'))
    BY <1>4, <2>1, <2>2 DEF LssAlarmFS, MasterSends
  <2>5. ASSUME NEW n, n \in {m, Aborts(m), Finishes(over, 0), next, Field(m, m.LSSSub + 1)}
        PROVE  /\ n.rate = m.rate /\ n.baudRate = m.baudRate
               /\ n.switchDelayState = m.switchDelayState
    <3>1. DOMAIN m = MasterFields
      BY <2>2
    <3> HIDE DEF m
    <3>2. CASE n \in {m, Aborts(m), Finishes(over, 0)}
      BY <3>1, <3>2 DEF Aborts, Finishes, MasterFields
    <3>3. CASE n = next
      BY <3>1, <3>3 DEF NextBit, BitFound, MasterFields
    <3>4. CASE n = Field(m, m.LSSSub + 1)
      BY <3>1, <3>4 DEF Field, MasterFields
    <3> QED BY <2>5, <3>2, <3>3, <3>4
  <2>6. /\ master'.rate = m.rate /\ master'.baudRate = m.baudRate
        /\ master'.switchDelayState = m.switchDelayState
    BY <2>4, <2>5
  <2> HIDE DEF m, next, over
  <2> QED BY <2>1, <2>2, <2>3, <2>4, <2>6 DEF userVars, bounds
<1> QED BY <1>2, <1>3, <1>4

\* What each service does to the bit rate of a slave.
LEMMA SlaveRates ==
  ASSUME CommandInvariant, NEW s \in Slaves, proceedLSS_Slave(s)
  PROVE  LET f == Head(toSlave[s])
             d == slave[s]
             e == slave'[s]
         IN  /\ e.rate = d.rate
             /\ f.cs # "CONF_ACT_BIT_TIMING" => /\ e.switchDelayState = d.switchDelayState
                                                /\ e.canHandle = d.canHandle
             /\ f.cs # "CONF_BIT_TIMING" => e.baudRate = d.baudRate
             /\ f.cs \in {"CONF_BIT_TIMING", "CONF_ACT_BIT_TIMING"} => e.mode = d.mode
             /\ f.cs = "SM_GLOBAL" /\ f.value = LSS_CONFIGURATION_MODE =>
                  e.mode = LSS_CONFIGURATION_MODE
             /\ f.cs = "CONF_BIT_TIMING" /\ d.mode = LSS_CONFIGURATION_MODE => e.baudRate = f.value
             /\ f.cs = "CONF_ACT_BIT_TIMING" /\ d.mode = LSS_CONFIGURATION_MODE
                  /\ d.baudRate # NoRate =>
                  e.switchDelayState = SDELAY_FIRST /\ ~e.canHandle
<1> DEFINE f == Head(toSlave[s])
           d == slave[s]
           e == slave'[s]
<1>1. DOMAIN slave = Slaves /\ DOMAIN d = SlaveFields
  BY DEF CommandInvariant, SlavesKept, IsSlave
<1>2. ASSUME NEW x, NEW answers, SlaveDoes(s, x, answers)
      PROVE  e = x
  BY <1>1, <1>2 DEF SlaveDoes
<1>3. CASE SwitchMode(s)
  <2>1. f.cs = "SM_GLOBAL"
    BY <1>3 DEF SwitchMode, SlaveGets
  <2>2. e \in {d, [d EXCEPT !.mode = f.value], LeavesForMode(d, f.value)}
        /\ (f.value = LSS_CONFIGURATION_MODE => e.mode = LSS_CONFIGURATION_MODE)
    BY <1>1, <1>2, <1>3 DEF SwitchMode, SlaveFields
  <2>3. e.rate = d.rate /\ e.switchDelayState = d.switchDelayState /\ e.canHandle = d.canHandle
        /\ e.baudRate = d.baudRate
    <3> HIDE DEF f, d, e
    <3> QED BY <1>1, <2>2 DEF SlaveFields, LeavesForMode, NewIdOnWaiting, setNodeId
  <2> QED BY <2>1, <2>2, <2>3
<1>4. CASE Configure(s)
  <2>1. f.cs \in {"CONF_NODE_ID", "CONF_BIT_TIMING", "CONF_STORE"}
    BY <1>4 DEF Configure, SlaveGets
  <2>2. \/ e \in {d, [d EXCEPT !.nodeID = f.value]}
           /\ (f.cs = "CONF_BIT_TIMING" => d.mode # LSS_CONFIGURATION_MODE)
        \/ e = [d EXCEPT !.baudRate = f.value] /\ f.cs = "CONF_BIT_TIMING"
    BY <1>2, <1>4, <2>1 DEF Configure, BitTimingChosen
  <2> HIDE DEF f, d, e
  <2>3. /\ e.rate = d.rate /\ e.mode = d.mode /\ e.switchDelayState = d.switchDelayState
        /\ e.canHandle = d.canHandle
        /\ f.cs # "CONF_BIT_TIMING" => e.baudRate = d.baudRate
        /\ f.cs = "CONF_BIT_TIMING" /\ d.mode = LSS_CONFIGURATION_MODE => e.baudRate = f.value
    BY <1>1, <2>2 DEF SlaveFields
  <2> QED BY <2>1, <2>3 DEF f, d, e
<1>5. CASE AnswerInquiry(s)
  BY <1>2, <1>5 DEF AnswerInquiry, SlaveGets
<1>6. CASE ActivateBitTiming(s)
  <2>1. f.cs = "CONF_ACT_BIT_TIMING"
    BY <1>6 DEF ActivateBitTiming, SlaveGets
  <2>2. e = IF d.mode # LSS_CONFIGURATION_MODE \/ d.baudRate = NoRate THEN d
            ELSE [PutAside(d) EXCEPT !.switchDelay = f.value, !.switchDelayState = SDELAY_FIRST]
    BY <1>2, <1>6 DEF ActivateBitTiming
  <2> HIDE DEF f, d, e
  <2>3. e.rate = d.rate /\ e.mode = d.mode /\ e.baudRate = d.baudRate
        /\ (d.mode = LSS_CONFIGURATION_MODE /\ d.baudRate # NoRate =>
             e.switchDelayState = SDELAY_FIRST /\ ~e.canHandle)
    BY <1>1, <2>2 DEF PutAside, SlaveFields
  <2> QED BY <2>1, <2>3 DEF f, d, e
<1>7. CASE SelectMode(s)
  <2>1. f.cs = "SM_SELECTIVE"
    BY <1>7 DEF SelectMode, SlaveGets
  <2>2. \/ e = d
        \/ \E m : e = [d EXCEPT !.addr_sel_match = m]
        \/ e = [d EXCEPT !.addr_sel_match = {}, !.nodeID = d.id, !.mode = LSS_CONFIGURATION_MODE]
    BY <1>2, <1>7 DEF SelectMode
  <2> HIDE DEF f, d, e
  <2>3. e.rate = d.rate /\ e.switchDelayState = d.switchDelayState /\ e.canHandle = d.canHandle
        /\ e.baudRate = d.baudRate
    BY <1>1, <2>2 DEF SlaveFields
  <2> QED BY <2>1, <2>3 DEF f, d, e
<1>8. CASE IdentifyRemote(s)
  <2>1. f.cs \in IdentTests
    BY <1>8 DEF IdentifyRemote, SlaveGets
  <2>2. \E m : e = [d EXCEPT !.addr_ident_match = m]
    BY <1>2, <1>8 DEF IdentifyRemote
  <2> HIDE DEF f, d, e
  <2>3. e.rate = d.rate /\ e.switchDelayState = d.switchDelayState /\ e.canHandle = d.canHandle
        /\ e.baudRate = d.baudRate /\ e.mode = d.mode
    BY <1>1, <2>2 DEF SlaveFields
  <2> QED BY <2>1, <2>3 DEF f, d, e, IdentTests
<1>9. CASE IdentifyNonConfigured(s)
  BY <1>2, <1>9 DEF IdentifyNonConfigured, SlaveGets
<1>10. CASE FastScanAnswer(s)
  <2>1. f.cs = "IDENT_FASTSCAN"
    BY <1>10 DEF FastScanAnswer, SlaveGets
  <2> DEFINE state == IF f.bit = 128 THEN LSS_FS_RESET ELSE d.FastScan_SM
  <2>2. \/ e = d
        \/ e = [d EXCEPT !.LSSPos = 0, !.FastScan_SM = LSS_FS_PROCESSING]
        \/ e = [d EXCEPT !.FastScan_SM = IF f.bit = 0 THEN LSS_FS_CONFIRMATION ELSE @]
        \/ e = [d EXCEPT !.nodeID = d.id, !.mode = LSS_CONFIGURATION_MODE,
                         !.FastScan_SM = LSS_FS_RESET, !.LSSPos = 255]
        \/ e = [d EXCEPT !.LSSPos = f.next, !.FastScan_SM = LSS_FS_PROCESSING]
        \/ state \notin {LSS_FS_RESET, LSS_FS_PROCESSING, LSS_FS_CONFIRMATION}
    <3> HIDE DEF e
    <3> QED BY <1>2, <1>10 DEF FastScanAnswer
  <2>3. state \in {LSS_FS_RESET, LSS_FS_PROCESSING, LSS_FS_CONFIRMATION}
    BY DEF CommandInvariant, SlavesKept, IsSlave
  <2> HIDE DEF f, d, e, state
  <2>4. e.rate = d.rate /\ e.switchDelayState = d.switchDelayState /\ e.canHandle = d.canHandle
        /\ e.baudRate = d.baudRate
    BY <1>1, <2>2, <2>3 DEF SlaveFields
  <2> QED BY <2>1, <2>4 DEF f, d, e
<1> QED BY <1>3, <1>4, <1>5, <1>6, <1>7, <1>8, <1>9, <1>10 DEF proceedLSS_Slave

-----------------------------------------------------------------------------
(***************************************************************************)
(* The change of the bit rate, step by step.                               *)
(***************************************************************************)
LEMMA BeginKeepsRate ==
  ASSUME RateInvariant, losses = 0, Begin
  PROVE  RateStage'
<1>1. plan = <<>> /\ UNCHANGED <<master, slave, toSlave>> /\ asked' = <<>>
      /\ (plan' = ScanAndConfigure \/ plan' \in Extras)
  BY DEF Begin
<1>2. RateStage
  BY DEF RateInvariant
<1>3. \A a, b, c, d : /\ <<>> # <<a, b, c, d>> /\ <<>> # <<a, b, c>> /\ <<>> # <<a, b>>
                      /\ <<>> # <<a>>
  OBVIOUS
<1>4. RatesAgree
  BY <1>1, <1>2, <1>3 DEF RateStage, Ahead, Entering, Choosing, Switching, BitRatePlan
<1>5. RatesAgree'
  BY <1>1, <1>4 DEF RatesAgree, NotSwitching
<1>6. RateFree(plan') \/ \E rate \in Rates \cup OtherRates, delay \in Delays :
                            plan' = BitRatePlan(rate, delay)
  BY <1>1, ScanIsFree, ExtrasAssumption
<1> QED BY <1>1, <1>5, <1>6 DEF RateStage, Ahead

LEMMA BreakOffKeepsRate ==
  ASSUME RateInvariant, losses = 0, BreakOff
  PROVE  RateStage'
<1>1. Len(plan) > 1 /\ UNCHANGED <<master, slave, toSlave>>
      /\ plan' = <<SMGlobal(LSS_WAITING_MODE)>>
  BY DEF BreakOff
<1>2. RateStage
  BY DEF RateInvariant
<1>3. RatesAgree
  <2>1. Len(plan) > 1
    BY <1>1
  <2>2. ASSUME NEW c, plan = <<c>>
        PROVE  FALSE
    <3>1. Len(plan) = 1
      BY <2>2
    <3> QED BY <2>1, <3>1
  <2> QED BY <1>2, <2>2 DEF RateStage, Ahead, Entering, Choosing, Switching
<1>4. RatesAgree'
  BY <1>1, <1>3 DEF RatesAgree, NotSwitching
<1>5. RateFree(plan')
  BY <1>1, OneIsFree, TheCommands
<1> QED BY <1>4, <1>5 DEF RateStage

LEMMA MasterKeepsStage ==
  ASSUME RateInvariant, losses = 0, proceedLSS_Master \/ LssAlarmMSG \/ LssAlarmFS
  PROVE  RateStage'
<1>1. /\ slave' = slave /\ plan' = plan /\ asked' = asked
      /\ master'.rate = master.rate /\ master'.baudRate = master.baudRate
      /\ master'.switchDelayState = master.switchDelayState
      /\ master' = master \/ Busy
      /\ \/ toSlave' = toSlave
         \/ /\ Quiet /\ asked # <<>> /\ Last(asked).cs = "IDENT_FASTSCAN"
            /\ Broadcast(FastScanFrame(master'))
  BY MasterKeepsRate DEF RateInvariant
<1>2. RateStage /\ CommandInvariant
  BY DEF RateInvariant
<1>3. ASSUME RatesAgree
      PROVE  RatesAgree'
  <2>1. CASE toSlave' = toSlave
    BY <1>1, <1>3, <2>1 DEF RatesAgree, NotSwitching
  <2>2. CASE Quiet /\ Broadcast(FastScanFrame(master'))
    <3> DEFINE f == FastScanFrame(master')
    <3>1. f.cs = "IDENT_FASTSCAN"
      BY DEF FastScanFrame
    <3>2. Append(<<>>, f) = <<f>> /\ Head(<<f>>) = f
      OBVIOUS
    <3> HIDE DEF f
    <3>3. \A s \in Slaves : toSlave'[s] = <<f>>
      BY <2>2, <3>2 DEF Quiet, Broadcast, f
    <3>4. \A s \in Slaves : NotSwitching(s)'
      BY <3>1, <3>2, <3>3 DEF NotSwitching
    <3> QED BY <1>1, <1>3, <3>4 DEF RatesAgree
  <2> QED BY <1>1, <2>1, <2>2
<1>4. CASE RateFree(plan) /\ RatesAgree
  BY <1>1, <1>3, <1>4 DEF RateStage
<1>5. ASSUME NEW rate \in Rates \cup OtherRates, NEW delay \in Delays,
             \/ Ahead(rate, delay) \/ Entering(rate, delay)
             \/ Choosing(rate, delay) \/ Switching(rate, delay)
      PROVE  \/ Ahead(rate, delay)' \/ Entering(rate, delay)'
             \/ Choosing(rate, delay)' \/ Switching(rate, delay)'
  <2>1. CASE Ahead(rate, delay)
    BY <1>1, <1>3, <2>1 DEF Ahead
  <2>2. toSlave' = toSlave \/ Ahead(rate, delay)
    BY <1>1, <1>5, TheCommands DEF AskedLast, Entering, Choosing, Switching
  <2>3. CASE Entering(rate, delay) /\ toSlave' = toSlave
    BY <1>1, <1>3, <2>3 DEF Entering, AskedLast
  <2>4. CASE Choosing(rate, delay) /\ toSlave' = toSlave
    <3>1. Failed /\ ~Busy => (Failed /\ ~Busy)'
      BY <1>1 DEF Failed, Busy
    <3> QED BY <1>1, <1>3, <2>4, <3>1 DEF Choosing, AskedLast
  <2>5. CASE Switching(rate, delay) /\ toSlave' = toSlave
    BY <1>1, <2>5 DEF Switching, AskedLast, SlaveSwitches, Silent
  <2> QED BY <1>5, <2>1, <2>2, <2>3, <2>4, <2>5
<1> QED BY <1>2, <1>4, <1>5 DEF RateStage

LEMMA MasterSwitches ==
  ASSUME RateInvariant, losses = 0, LssAlarmSDELAY_Master
  PROVE  RateStage'
<1>1. /\ UNCHANGED <<slave, toSlave, plan, asked>> /\ master.switchDelayState # SDELAY_OFF
      /\ \/ /\ master.switchDelayState = SDELAY_FIRST
            /\ master' = [master EXCEPT !.switchDelayState = SDELAY_SECOND, !.rate = master.baudRate]
         \/ /\ master.switchDelayState = SDELAY_SECOND
            /\ master' = Finishes([master EXCEPT !.switchDelayState = SDELAY_OFF], 0)
  BY StatesDiffer DEF LssAlarmSDELAY_Master, DelayRuns, userVars
<1>2. DOMAIN master = MasterFields /\ RateStage
  BY DEF RateInvariant, CommandInvariant, MasterWaits
<1>3. PICK rate \in Rates \cup OtherRates, delay \in Delays : Switching(rate, delay)
  BY <1>1, <1>2 DEF RateStage, RatesAgree, Ahead, Entering, Choosing
<1>4. /\ master'.baudRate = rate /\ master'.rate = rate
      /\ master'.switchDelayState \in {SDELAY_OFF, SDELAY_SECOND}
  BY <1>1, <1>2, <1>3, StatesDiffer DEF Switching, Finishes, MasterFields
<1>5. Switching(rate, delay)'
  BY <1>1, <1>3, <1>4 DEF Switching, AskedLast, SlaveSwitches, Silent
<1> QED BY <1>5 DEF RateStage

LEMMA SlaveKeepsStage ==
  ASSUME RateInvariant, losses = 0, NEW s \in Slaves, proceedLSS_Slave(s)
  PROVE  RateStage'
<1> DEFINE f == Head(toSlave[s])
           d == slave[s]
           e == slave'[s]
<1>1. /\ asked # <<>> => f = Current
      /\ toSlave[s] # <<>> /\ toSlave'[s] = <<>>
      /\ \A r \in Slaves \ {s} : toSlave'[r] = toSlave[r] /\ slave'[r] = slave[r]
      /\ master' = master /\ plan' = plan /\ asked' = asked
  BY SlaveTakesFrame DEF RateInvariant, userVars
<1>2. /\ e.rate = d.rate
      /\ f.cs # "CONF_ACT_BIT_TIMING" => /\ e.switchDelayState = d.switchDelayState
                                         /\ e.canHandle = d.canHandle
      /\ f.cs # "CONF_BIT_TIMING" => e.baudRate = d.baudRate
      /\ f.cs \in {"CONF_BIT_TIMING", "CONF_ACT_BIT_TIMING"} => e.mode = d.mode
      /\ f.cs = "SM_GLOBAL" /\ f.value = LSS_CONFIGURATION_MODE =>
           e.mode = LSS_CONFIGURATION_MODE
      /\ f.cs = "CONF_BIT_TIMING" /\ d.mode = LSS_CONFIGURATION_MODE => e.baudRate = f.value
      /\ f.cs = "CONF_ACT_BIT_TIMING" /\ d.mode = LSS_CONFIGURATION_MODE /\ d.baudRate # NoRate =>
           e.switchDelayState = SDELAY_FIRST /\ ~e.canHandle
  BY SlaveRates DEF RateInvariant
<1>3. ASSUME NEW c, AskedLast(c), IsCommand(c), c.cs # "IDENT_FASTSCAN"
      PROVE  f.cs = c.cs /\ f.value = c.value
  BY <1>1, <1>3 DEF AskedLast, Current, Frame
<1> HIDE DEF f, d, e
<1>4. ASSUME RatesAgree
      PROVE  RatesAgree'
  <2>1. f.cs # "CONF_ACT_BIT_TIMING"
    BY <1>1, <1>4 DEF RatesAgree, NotSwitching, f
  <2> QED BY <1>1, <1>2, <1>4, <2>1 DEF RatesAgree, NotSwitching, d, e
<1>5. CASE RateFree(plan) /\ RatesAgree
  BY <1>1, <1>4, <1>5 DEF RateStage
<1>6. ASSUME NEW rate \in Rates \cup OtherRates, NEW delay \in Delays,
             \/ Ahead(rate, delay) \/ Entering(rate, delay)
             \/ Choosing(rate, delay) \/ Switching(rate, delay)
      PROVE  \/ Ahead(rate, delay)' \/ Entering(rate, delay)'
             \/ Choosing(rate, delay)' \/ Switching(rate, delay)'
  <2>1. CASE Ahead(rate, delay)
    BY <1>1, <1>4, <2>1 DEF Ahead
  <2>2. CASE Entering(rate, delay)
    <3>1. f.cs = "SM_GLOBAL" /\ f.value = LSS_CONFIGURATION_MODE
      BY <1>3, <2>2, TheCommands DEF Entering
    <3>2. e.mode = LSS_CONFIGURATION_MODE
      BY <1>2, <3>1
    <3> QED BY <1>1, <1>4, <2>2, <3>2 DEF Entering, AskedLast, e
  <2>3. CASE Choosing(rate, delay)
    <3>1. f.cs = "CONF_BIT_TIMING" /\ f.value = rate
      BY <1>3, <2>3, TheCommands DEF Choosing
    <3>2. CASE Failed /\ ~Busy
      <4>1. (Failed /\ ~Busy)'
        BY <1>1, <3>2 DEF Failed, Busy
      <4> QED BY <1>1, <1>4, <2>3, <4>1 DEF Choosing, AskedLast
    <3>3. CASE ~(Failed /\ ~Busy)
      <4>1. \A r \in Slaves : /\ slave[r].mode = LSS_CONFIGURATION_MODE
                              /\ toSlave[r] # <<>> \/ slave[r].baudRate = rate
        BY <2>3, <3>3 DEF Choosing
      <4>2. e.mode = LSS_CONFIGURATION_MODE /\ e.baudRate = rate
        BY <1>2, <3>1, <4>1 DEF d
      <4>3. \A r \in Slaves : /\ slave'[r].mode = LSS_CONFIGURATION_MODE
                              /\ toSlave'[r] # <<>> \/ slave'[r].baudRate = rate
        BY <1>1, <4>1, <4>2 DEF e
      <4> QED BY <1>1, <1>4, <2>3, <4>3 DEF Choosing, AskedLast
    <3> QED BY <3>2, <3>3
  <2>4. CASE Switching(rate, delay)
    <3>1. f.cs = "CONF_ACT_BIT_TIMING"
      BY <1>3, <2>4, TheCommands DEF Switching
    <3>2. rate # NoRate
      BY LSSAssumption
    <3>3. d.mode = LSS_CONFIGURATION_MODE /\ d.baudRate = rate
      BY <2>4 DEF Switching, SlaveSwitches, d
    <3>4. /\ e.mode = LSS_CONFIGURATION_MODE /\ e.baudRate = rate
          /\ e.switchDelayState = SDELAY_FIRST /\ ~e.canHandle
      BY <1>2, <3>1, <3>2, <3>3
    <3>5. SlaveSwitches(s, rate)'
      BY <1>1, <3>4 DEF SlaveSwitches, Silent, e
    <3>6. \A r \in Slaves \ {s} : SlaveSwitches(r, rate)'
      BY <1>1, <2>4 DEF Switching, SlaveSwitches, Silent
    <3> QED BY <1>1, <2>4, <3>5, <3>6 DEF Switching, AskedLast
  <2> QED BY <1>6, <2>1, <2>2, <2>3, <2>4
<1>7. RateStage
  BY DEF RateInvariant
<1> QED BY <1>5, <1>6, <1>7 DEF RateStage

LEMMA SlaveSwitchesRate ==
  ASSUME RateInvariant, losses = 0, NEW s \in Slaves, LssAlarmSDELAY_Slave(s)
  PROVE  RateStage'
<1>1. DOMAIN slave = Slaves /\ DOMAIN slave[s] = SlaveFields /\ RateStage
  BY DEF RateInvariant, CommandInvariant, SlavesKept, IsSlave
<1>2. /\ UNCHANGED <<master, toSlave, plan, asked>> /\ Quiet
      /\ slave[s].switchDelayState # SDELAY_OFF
      /\ \/ /\ slave[s].switchDelayState = SDELAY_FIRST
            /\ slave' = [slave EXCEPT ![s].switchDelayState = SDELAY_SECOND,
                                      ![s].rate = slave[s].baudRate]
         \/ /\ slave[s].switchDelayState = SDELAY_SECOND
            /\ slave' = [slave EXCEPT ![s].switchDelayState = SDELAY_OFF,
                                      ![s].canHandle = slave[s].canHandle_t]
  BY <1>1, StatesDiffer DEF LssAlarmSDELAY_Slave, DelayRuns, userVars
<1>3. PICK rate \in Rates \cup OtherRates, delay \in Delays : Switching(rate, delay)
  BY <1>1, <1>2 DEF RateStage, RatesAgree, Ahead, Entering, Choosing
<1>4. /\ slave[s].mode = LSS_CONFIGURATION_MODE /\ slave[s].baudRate = rate
      /\ slave[s].switchDelayState # SDELAY_FIRST => slave[s].rate = rate
      /\ Silent(s) /\ toSlave[s] = <<>>
  BY <1>2, <1>3, StatesDiffer DEF Switching, SlaveSwitches
<1>5. /\ slave'[s].mode = LSS_CONFIGURATION_MODE /\ slave'[s].baudRate = rate
      /\ slave'[s].rate = rate
      /\ \/ slave'[s].switchDelayState = SDELAY_OFF
         \/ slave'[s].switchDelayState = SDELAY_SECOND /\ Silent(s)'
  BY <1>1, <1>2, <1>4, StatesDiffer DEF SlaveFields, Silent
<1>6. SlaveSwitches(s, rate)'
  BY <1>2, <1>4, <1>5 DEF SlaveSwitches
<1>7. \A r \in Slaves \ {s} : slave'[r] = slave[r]
  BY <1>1, <1>2
<1>8. \A r \in Slaves \ {s} : SlaveSwitches(r, rate)'
  BY <1>2, <1>3, <1>7 DEF Switching, SlaveSwitches, Silent
<1>9. Switching(rate, delay)'
  BY <1>2, <1>3, <1>6, <1>8 DEF Switching, AskedLast
<1> QED BY <1>9 DEF RateStage

LEMMA ResetKeepsRate ==
  ASSUME RateInvariant, losses = 0, NEW s \in Slaves, ResetCommunication(s)
  PROVE  RateStage'
<1>1. DOMAIN slave = Slaves /\ DOMAIN slave[s] = SlaveFields /\ RateStage
  BY DEF RateInvariant, CommandInvariant, SlavesKept, IsSlave
<1>2. UNCHANGED <<master, toSlave, plan, asked>>
  BY DEF ResetCommunication, userVars
<1>3. /\ slave'[s].mode = slave[s].mode /\ slave'[s].baudRate = slave[s].baudRate
      /\ slave'[s].rate = slave[s].rate /\ slave'[s].canHandle = slave[s].canHandle
      /\ slave'[s].switchDelayState = slave[s].switchDelayState
  BY <1>1 DEF ResetCommunication, setNodeId, SlaveFields
<1>4. \A r \in Slaves \ {s} : slave'[r] = slave[r]
  BY <1>1 DEF ResetCommunication
<1>5. \A r \in Slaves :
        /\ slave'[r].mode = slave[r].mode /\ slave'[r].baudRate = slave[r].baudRate
        /\ slave'[r].rate = slave[r].rate /\ Silent(r)' = Silent(r)
        /\ slave'[r].switchDelayState = slave[r].switchDelayState
  BY <1>3, <1>4 DEF Silent
<1>6. RatesAgree => RatesAgree'
  BY <1>2, <1>5 DEF RatesAgree, NotSwitching
<1>7. (Failed /\ ~Busy)' = (Failed /\ ~Busy)
  BY <1>2 DEF Failed, Busy
<1>8. ASSUME NEW rate, NEW delay
      PROVE  /\ Ahead(rate, delay) => Ahead(rate, delay)'
             /\ Entering(rate, delay) => Entering(rate, delay)'
             /\ Choosing(rate, delay) => Choosing(rate, delay)'
             /\ Switching(rate, delay) => Switching(rate, delay)'
  <2>1. Ahead(rate, delay) => Ahead(rate, delay)'
    BY <1>2, <1>6 DEF Ahead
  <2>2. Entering(rate, delay) => Entering(rate, delay)'
    BY <1>2, <1>5, <1>6 DEF Entering, AskedLast
  <2>3. Choosing(rate, delay) => Choosing(rate, delay)'
    BY <1>2, <1>5, <1>6, <1>7 DEF Choosing, AskedLast
  <2>4. Switching(rate, delay) => Switching(rate, delay)'
    BY <1>2, <1>5 DEF Switching, AskedLast, SlaveSwitches
  <2> QED BY <2>1, <2>2, <2>3, <2>4
<1> QED BY <1>1, <1>2, <1>6, <1>8 DEF RateStage

LEMMA CommandKeepsRate ==
  ASSUME RateInvariant, losses = 0, configNetworkNode
  PROVE  RateStage'
<1> DEFINE p == Head(plan)
           c == Filled(p)
           leave == SMGlobal(LSS_WAITING_MODE)
<1>1. /\ ~Busy /\ plan # <<>> /\ IsCommand(c) /\ c.cs = p.cs /\ asked' # <<>> /\ Last(asked') = c
      /\ plan' = Tail(plan) /\ slave' = slave
      /\ master.switchDelayState = SDELAY_OFF /\ sendMasterLSSMessage(c)
      /\ \A s \in Slaves : toSlave[s] = <<>> /\ ~Silent(s)
      /\ IsCommand(p) /\ Commands(plan) /\ DOMAIN master = MasterFields
  BY CommandIsGiven DEF RateInvariant, CommandInvariant, Plans, MasterWaits
<1>2. p.cs # "CONF_NODE_ID" => c = p
  BY <1>1, FilledIsCommand
<1>3. Failed => Len(plan) = 1
  BY DEF configNetworkNode
<1> HIDE DEF p, c, leave
\* What is sent is one frame, that of the command.
<1>4. \/ toSlave' = toSlave
      \/ \E f : f.cs = c.cs /\ f.value = f.value /\ \A s \in Slaves : toSlave'[s] = <<f>>
  <2>1. \/ toSlave' = toSlave \/ Broadcast(Frame(c))
        \/ Broadcast(FastScanFrame(master')) /\ c.cs = "IDENT_FASTSCAN"
    BY <1>1 DEF sendMasterLSSMessage
  <2>2. Frame(c).cs = c.cs /\ FastScanFrame(master').cs = "IDENT_FASTSCAN"
    BY DEF Frame, FastScanFrame
  <2>3. \A f : Append(<<>>, f) = <<f>>
    OBVIOUS
  <2>4. \A f : Broadcast(f) => \A s \in Slaves : toSlave'[s] = <<f>>
    BY <1>1, <2>3 DEF Broadcast
  <2> QED BY <2>1, <2>2, <2>4
<1>5. \A f : <<f>> # <<>> /\ Head(<<f>>) = f
  OBVIOUS
<1>6. \/ \A s \in Slaves : toSlave'[s] = <<>>
      \/ \A s \in Slaves : toSlave'[s] # <<>> /\ Head(toSlave'[s]).cs = c.cs
  BY <1>1, <1>4, <1>5
\* A command that does not switch the rate leaves those that agree.
<1>7. /\ master'.rate = master.rate
      /\ c.cs # "CONF_BIT_TIMING" => master'.baudRate = master.baudRate
      /\ c.cs # "CONF_ACT_BIT_TIMING" => master'.switchDelayState = master.switchDelayState
  BY <1>1 DEF sendMasterLSSMessage, Started, MasterFields
<1>8. ASSUME RatesAgree, c.cs # "CONF_ACT_BIT_TIMING"
      PROVE  RatesAgree'
  <2>1. \A s \in Slaves : NotSwitching(s)'
    BY <1>6, <1>8 DEF NotSwitching
  <2> QED BY <1>1, <1>7, <1>8, <2>1 DEF RatesAgree
<1>9. CASE RateFree(plan) /\ RatesAgree
  <2>1. RateFree(plan') /\ c.cs \notin {"CONF_BIT_TIMING", "CONF_ACT_BIT_TIMING"}
    BY <1>1, <1>9, FreeTail DEF p
  <2> QED BY <1>8, <1>9, <2>1 DEF RateStage
<1>10. ASSUME NEW rate \in Rates \cup OtherRates, NEW delay \in Delays, Ahead(rate, delay)
       PROVE  Entering(rate, delay)'
  <2>1. plan = <<SMGlobal(LSS_CONFIGURATION_MODE), ConfBitTiming(rate), ActBitTiming(delay), leave>>
    BY <1>10 DEF Ahead, BitRatePlan, leave
  <2>2. p = SMGlobal(LSS_CONFIGURATION_MODE) /\ p.cs = "SM_GLOBAL" /\ p.value = LSS_CONFIGURATION_MODE
        /\ plan' = <<ConfBitTiming(rate), ActBitTiming(delay), leave>>
    BY <1>1, <2>1, TheCommands DEF p
  <2>3. c = p
    BY <1>2, <2>2
  <2>4. Broadcast(Frame(c))
    BY <1>1, <2>2, <2>3 DEF sendMasterLSSMessage
  <2>5. \A s \in Slaves : toSlave'[s] # <<>>
    BY <1>1, <1>5, <2>4 DEF Broadcast
  <2>6. RatesAgree'
    BY <1>8, <1>10, <2>2, <2>3 DEF Ahead
  <2> QED BY <1>1, <2>2, <2>3, <2>5, <2>6 DEF Entering, AskedLast, leave
<1>11. ASSUME NEW rate \in Rates \cup OtherRates, NEW delay \in Delays, Entering(rate, delay)
       PROVE  Choosing(rate, delay)'
  <2>1. plan = <<ConfBitTiming(rate), ActBitTiming(delay), leave>>
    BY <1>11 DEF Entering, leave
  <2>2. p = ConfBitTiming(rate) /\ p.cs = "CONF_BIT_TIMING" /\ p.value = rate
        /\ plan' = <<ActBitTiming(delay), leave>>
    BY <1>1, <2>1, TheCommands DEF p
  <2>3. c = p
    BY <1>2, <2>2
  <2>4. RatesAgree'
    BY <1>8, <1>11, <2>2, <2>3 DEF Entering
  <2>5. \A s \in Slaves : slave[s].mode = LSS_CONFIGURATION_MODE
    BY <1>1, <1>11 DEF Entering
  <2>6. CASE rate \notin Rates
    <3>1. master' = [Started(c) EXCEPT !.baudRate = rate, !.dat1 = 255]
      BY <1>1, <2>2, <2>3, <2>6 DEF sendMasterLSSMessage
    <3>2. master'.baudRate = rate /\ master'.dat1 = 255 /\ master'.state = master.state
      BY <1>1, <3>1 DEF Started, MasterFields
    <3>3. (Failed /\ ~Busy)'
      BY <1>1, <2>2, <2>3, <3>2 DEF Failed, Busy, HasResponse
    <3> QED BY <1>1, <2>2, <2>3, <2>4, <3>2, <3>3 DEF Choosing, AskedLast, leave
  <2>7. CASE rate \in Rates
    <3>1. master'.baudRate = rate /\ Broadcast(Frame(c))
      BY <1>1, <2>2, <2>3, <2>7 DEF sendMasterLSSMessage, Started, MasterFields
    <3>2. \A s \in Slaves : toSlave'[s] # <<>>
      BY <1>1, <1>5, <3>1 DEF Broadcast
    <3> QED BY <1>1, <2>2, <2>3, <2>4, <2>5, <3>1, <3>2 DEF Choosing, AskedLast, leave
  <2> QED BY <2>6, <2>7
<1>12. ASSUME NEW rate \in Rates \cup OtherRates, NEW delay \in Delays, Choosing(rate, delay)
       PROVE  Switching(rate, delay)'
  <2>1. plan = <<ActBitTiming(delay), leave>>
    BY <1>12 DEF Choosing, leave
  <2>2. p = ActBitTiming(delay) /\ p.cs = "CONF_ACT_BIT_TIMING" /\ plan' = <<leave>> /\ Len(plan) = 2
    BY <1>1, <2>1, TheCommands DEF p
  <2>3. c = p /\ ~Failed
    BY <1>2, <1>3, <2>2
  <2>4. rate # NoRate /\ master.baudRate = rate
    BY <1>12, LSSAssumption DEF Choosing
  <2>5. /\ master' = [Started(c) EXCEPT !.state = LSS_TRANS_IN_PROGRESS, !.switchDelay = c.value,
                                        !.switchDelayState = SDELAY_FIRST]
        /\ Broadcast(Frame(c))
    BY <1>1, <2>2, <2>3, <2>4 DEF sendMasterLSSMessage, Started, MasterFields
  <2>6. master'.baudRate = rate /\ master'.switchDelayState = SDELAY_FIRST
    BY <1>1, <2>4, <2>5 DEF Started, MasterFields
  <2>7. \A s \in Slaves : toSlave'[s] # <<>>
    BY <1>1, <1>5, <2>5 DEF Broadcast
  <2>8. \A s \in Slaves : SlaveSwitches(s, rate)'
    BY <1>1, <1>12, <2>3, <2>7 DEF Choosing, RatesAgree, SlaveSwitches
  <2> QED BY <1>1, <2>2, <2>3, <2>6, <2>8, StatesDiffer DEF Switching, AskedLast, leave
<1>13. ASSUME NEW rate \in Rates \cup OtherRates, NEW delay \in Delays, Switching(rate, delay)
       PROVE  RateFree(plan') /\ RatesAgree'
  <2>1. plan = <<leave>>
    BY <1>13 DEF Switching, leave
  <2>2. p = leave /\ p.cs = "SM_GLOBAL" /\ plan' = <<>>
    BY <1>1, <2>1, TheCommands DEF p, leave
  <2>3. c = p /\ RateFree(plan')
    BY <1>2, <2>2, OneIsFree
  <2>4. RatesAgree
    BY <1>1, <1>13, StatesDiffer DEF Switching, SlaveSwitches, RatesAgree, NotSwitching
  <2> QED BY <1>8, <2>2, <2>3, <2>4
<1>14. RateStage
  BY DEF RateInvariant
<1> QED BY <1>9, <1>10, <1>11, <1>12, <1>13, <1>14 DEF RateStage

\* Frames are lost by Lose only.
LEMMA LossesStay ==
  ASSUME CommandInvariant, [Next]_vars, ~Lose, ~SendFails
  PROVE  losses' = losses
<1>1. CASE Begin \/ configNetworkNode \/ BreakOff
  BY <1>1 DEF Begin, configNetworkNode, BreakOff, bounds
<1>2. CASE proceedLSS_Master \/ MasterAlarms
  BY <1>2 DEF proceedLSS_Master, MasterAlarms, LssAlarmMSG, LssAlarmFS, LssAlarmSDELAY_Master, bounds
<1>3. ASSUME NEW s \in Slaves, proceedLSS_Slave(s)
      PROVE  losses' = losses
  BY <1>3, SlaveTakesFrame DEF bounds
<1>4. ASSUME NEW s \in Slaves, LssAlarmSDELAY_Slave(s) \/ ResetCommunication(s)
      PROVE  losses' = losses
  BY <1>4, SlaveChanges
<1>5. CASE UNCHANGED vars
  BY <1>5 DEF vars, bounds
<1> QED BY <1>1, <1>2, <1>3, <1>4, <1>5 DEF Next

LEMMA StutterKeepsRate ==
  ASSUME RateInvariant, losses = 0, UNCHANGED vars
  PROVE  RateStage'
<1>1. UNCHANGED <<master, slave, toSlave, plan, asked>>
  BY DEF vars, userVars
<1>2. /\ RatesAgree' = RatesAgree /\ (Failed /\ ~Busy)' = (Failed /\ ~Busy)
      /\ \A rate, s : SlaveSwitches(s, rate)' = SlaveSwitches(s, rate)
  BY <1>1 DEF RatesAgree, NotSwitching, Failed, Busy, SlaveSwitches, Silent
<1>3. ASSUME NEW rate, NEW delay
      PROVE  /\ Ahead(rate, delay) => Ahead(rate, delay)'
             /\ Entering(rate, delay) => Entering(rate, delay)'
             /\ Choosing(rate, delay) => Choosing(rate, delay)'
             /\ Switching(rate, delay) => Switching(rate, delay)'
  BY <1>1, <1>2 DEF Ahead, Entering, Choosing, Switching, AskedLast
<1> QED BY <1>1, <1>2, <1>3 DEF RateInvariant, RateStage

(***************************************************************************)
(* While the user changes the bit rate, master and slaves go through it    *)
(* together: each has the old rate or, its delay over, the new one.        *)
(***************************************************************************)
THEOREM RateIsInvariant == Spec => []RateInvariant
<1>1. Init => RateInvariant
  <2> SUFFICES ASSUME Init PROVE RateInvariant
    OBVIOUS
  <2>1. RatesAgree
    BY DEF Init, RatesAgree, InitialMaster, InitialSlave, NotSwitching
  <2>2. RateFree(plan)
    <3>1. DOMAIN <<>> = {}
      OBVIOUS
    <3> QED BY <3>1 DEF Init, RateFree
  <2> QED BY <2>1, <2>2, InitCommands DEF RateInvariant, RateStage
<1>2. RateInvariant /\ [Next]_vars => RateInvariant'
  <2> SUFFICES ASSUME RateInvariant, [Next]_vars PROVE RateInvariant'
    OBVIOUS
  <2>1. CommandInvariant'
    BY BeginKeeps, CommandKeeps, BreakOffKeeps, AnswerKeeps, MasterAlarmsKeep, SlaveKeeps,
       SlaveAlarmsKeep, LoseKeeps, SendFailsKeeps, CommandStutters DEF Next, RateInvariant
  <2>2. ASSUME losses' = 0
        PROVE  RateStage'
    <3>1. ~Lose /\ ~SendFails
      BY <2>2, LoseKeeps, SendFailsKeeps DEF RateInvariant
    <3>2. losses = 0
      <4>1. losses' = losses
        BY <3>1, LossesStay DEF RateInvariant
      <4> QED BY <2>2, <4>1
    <3> QED
      BY <3>1, <3>2, BeginKeepsRate, CommandKeepsRate, BreakOffKeepsRate, MasterKeepsStage,
         MasterSwitches, SlaveKeepsStage, SlaveSwitchesRate, ResetKeepsRate, StutterKeepsRate
         DEF Next, MasterAlarms
  <2> QED BY <2>1, <2>2 DEF RateInvariant
<1> QED BY <1>1, <1>2, PTL DEF Spec

(***************************************************************************)
(* After a change of the bit rate all nodes have the same, in whatever     *)
(* order their delays end.                                                 *)
(***************************************************************************)
THEOREM BitRatesAgree == Spec => []OneBitRate
<1>1. RateInvariant => OneBitRate
  <2> SUFFICES ASSUME RateInvariant, plan = <<>>, losses = 0 PROVE RatesAgree
    BY DEF OneBitRate, RatesAgree
  <2>1. \A a, b, c, d : /\ <<>> # <<a, b, c, d>> /\ <<>> # <<a, b, c>> /\ <<>> # <<a, b>>
                        /\ <<>> # <<a>>
    OBVIOUS
  <2> QED
    BY <2>1 DEF RateInvariant, RateStage, Ahead, Entering, Choosing, Switching, BitRatePlan
<1> QED BY <1>1, RateIsInvariant, PTL

-----------------------------------------------------------------------------
(***************************************************************************)
(* What answers mean.                                                      *)
(***************************************************************************)
\* The session: what the user has asked, and what it is about to.
CourseOf(a, p) ==
  [i \in 1 .. Len(a) + Len(p) |-> IF i <= Len(a) THEN a[i] ELSE p[i - Len(a)]]

Course == CourseOf(asked, plan)

Waits(s) == slave[s].mode = LSS_WAITING_MODE

\* The slave waits, or will when it has had the frame that is on its way.
Released(s) ==
  IF toSlave[s] = <<>> THEN Waits(s)
  ELSE \/ Releases(Head(toSlave[s]))
       \/ Head(toSlave[s]).cs \notin ModeServices /\ Waits(s)

NoModeAsked == \A i \in 1 .. Len(asked) : asked[i].cs \notin ModeServices

Sessions ==
  /\ IsSession(Course)
  /\ (NoModeAsked \/ Releases(Last(asked))) => \A s \in Slaves : Released(s)

\* A node id that is not yet in effect is that of a slave in configuration mode.
NodeIdsKept ==
  /\ asked # <<>> /\ Last(asked).cs = "CONF_NODE_ID" => Last(asked).value \in 1 .. 127
  /\ \A s \in Slaves :
       /\ slave[s].id \in 1 .. 127 \cup {None}
       /\ slave[s].id # None => slave[s].nodeID \in 1 .. 127
       /\ slave[s].id = None /\ Waits(s) => slave[s].nodeID \notin 1 .. 127

\* The slave has had the frame of the i-th command.
Had(s, i) == i < Len(asked) \/ (i = Len(asked) /\ toSlave[s] = <<>>)

\* Of what was asked in this session, the masks hold what is true of the slave.
Selected(s, i) ==
  /\ asked[i].cs = "SM_SELECTIVE" /\ Last(asked).cs # "SM_GLOBAL"
  /\ slave[s].mode # LSS_CONFIGURATION_MODE
  /\ asked[i].sub \in slave[s].addr_sel_match

Identified(s, i) ==
  asked[i].cs \in IdentTests /\ <<asked[i].cs, asked[i].sub>> \in slave[s].addr_ident_match

Masks ==
  \A s \in Slaves, i \in 1 .. Len(asked) : Had(s, i) =>
    /\ Selected(s, i) => Identity[s][asked[i].sub] = asked[i].value
    /\ Identified(s, i) => Passes(asked[i].cs, asked[i].value, Identity[s][asked[i].sub])

IsMeant ==
  /\ Last(asked).cs = "SM_SELECTIVE" => \E s \in Configuring : IsSelected(s)
  /\ Last(asked).cs \in IdentTests => \E s \in Slaves : IsIdentified(s)

Meant == asked # <<>> /\ (toMaster # <<>> \/ Answered(Last(asked).cs)) => IsMeant

-----------------------------------------------------------------------------
(***************************************************************************)
(* A scan.                                                                 *)
(***************************************************************************)
Candidate(s) == slave[s].id = None

\* Slaves that have confirmed a field have the same number in it.
Alike ==
  \A s \in Slaves, f \in Subs : Candidate(s) /\ f < slave[s].LSSPos =>
    /\ AgreeAbove(FirstBit(f) + 1, Identity[s][f], FS_LSS_ID[f])
    /\ \A r \in Slaves : Candidate(r) /\ f < slave[r].LSSPos => Identity[r][f] = Identity[s][f]

\* What has been found of a field leaves its known part alone.
FoundSoFar(left) ==
  \E x \in Nat : /\ master.IDNumber = KnownPart(master.LSSSub) + x
                 /\ x + left <= 2^(FirstBit(master.LSSSub) + 1)

Starting ==
  /\ Busy /\ master.FastScan_SM = LSS_FS_RESET
  /\ master.BitChecked = 128 /\ master.LSSNext = 0
  /\ \A s \in Slaves :
       /\ Waits(s)
       /\ Candidate(s) /\ toSlave[s] = <<>> =>
            slave[s].FastScan_SM = LSS_FS_PROCESSING /\ slave[s].LSSPos = 0

\* Those who have confirmed all fields so far are asked for a bit of the next.
InField(s) ==
  /\ slave[s].LSSPos \in 0 .. master.LSSSub
  /\ slave[s].FastScan_SM =
       IF slave[s].LSSPos = master.LSSSub /\ (master.BitChecked > 0 \/ toSlave[s] # <<>>)
       THEN LSS_FS_PROCESSING ELSE LSS_FS_CONFIRMATION

Narrowing ==
  /\ Busy /\ master.FastScan_SM = LSS_FS_PROCESSING
  /\ master.LSSSub \in Subs /\ master.LSSNext = master.LSSSub
  /\ master.BitChecked \in 0 .. FirstBit(master.LSSSub)
  /\ FoundSoFar(2^(master.BitChecked + 1))
  /\ Alike
  /\ \A s \in Slaves : Waits(s) /\ (Candidate(s) => InField(s))

Confirmed(s) ==
  /\ toSlave[s] = <<>> /\ Identity[s][master.LSSSub] = master.IDNumber
  /\ IF master.LSSSub = LastSub
     THEN /\ slave[s].LSSPos = 255 /\ slave[s].nodeID = None
          /\ slave[s].mode = LSS_CONFIGURATION_MODE
     ELSE /\ slave[s].LSSPos = master.LSSSub + 1 /\ slave[s].FastScan_SM = LSS_FS_PROCESSING
          /\ Waits(s)

Unconfirmed(s) ==
  /\ Waits(s)
  /\ Candidate(s) => /\ slave[s].FastScan_SM = LSS_FS_CONFIRMATION
                     /\ slave[s].LSSPos \in 0 .. master.LSSSub

Confirming ==
  /\ Busy /\ master.FastScan_SM = LSS_FS_CONFIRMATION
  /\ master.LSSSub \in Subs /\ master.BitChecked = 0
  /\ master.LSSNext = IF master.LSSSub < LastSub THEN master.LSSSub + 1 ELSE LastSub
  /\ FoundSoFar(1)
  /\ Alike
  /\ \A s \in Slaves : (Candidate(s) /\ Confirmed(s)) \/ Unconfirmed(s)
  /\ master.LSSSub = LastSub /\ (toMaster # <<>> \/ master.LSSanswer # 0) => Configuring # {}

OneFound ==
  \E s \in Slaves : Configuring = {s} /\ Candidate(s) /\ Known(s) /\ slave[s].nodeID = None

ScanIsOver ==
  /\ ~Busy /\ \A s \in Slaves : toSlave[s] = <<>>
  /\ Answered("IDENT_FASTSCAN") => OneFound

ScanStage == Starting \/ Narrowing \/ Confirming \/ ScanIsOver

Scans == asked # <<>> /\ Last(asked).cs = "IDENT_FASTSCAN" => ScanStage

Truth == Sessions /\ NodeIdsKept /\ Masks /\ Meant /\ Scans

AnswerInvariant == CommandInvariant /\ (losses = 0 => Truth)

-----------------------------------------------------------------------------
\* Twice as many sets if there is one element more.
LEMMA Powers ==
  ASSUME NEW n \in Nat
  PROVE  2^n \in Nat /\ 2^n > 0 /\ 2^(n + 1) = 2 * 2^n
<1> DEFINE S == 1 .. n
           T == 1 .. n + 1
           W == {A \cup {n + 1} : A \in SUBSET S}
<1>1. /\ IsFiniteSet(S) /\ Cardinality(S) = n
      /\ IsFiniteSet(T) /\ Cardinality(T) = n + 1
  BY FS_Interval
<1>2. /\ IsFiniteSet(SUBSET S) /\ Cardinality(SUBSET S) = 2^n
      /\ IsFiniteSet(SUBSET T) /\ Cardinality(SUBSET T) = 2^(n + 1)
  BY <1>1, FS_SUBSET
<1>3. n + 1 \notin S /\ T = S \cup {n + 1}
  OBVIOUS
<1>4. SUBSET T = (SUBSET S) \cup W /\ (SUBSET S) \cap W = {}
  <2> HIDE DEF S, T
  <2>1. ASSUME NEW A, A \in SUBSET T
        PROVE  A \in (SUBSET S) \cup W
    <3>1. CASE n + 1 \in A
      <4>1. A = (A \ {n + 1}) \cup {n + 1} /\ A \ {n + 1} \in SUBSET S
        BY <1>3, <2>1, <3>1
      <4> QED BY <4>1
    <3>2. CASE n + 1 \notin A
      BY <1>3, <2>1, <3>2
    <3> QED BY <3>1, <3>2
  <2>2. ASSUME NEW A \in SUBSET S
        PROVE  A \in SUBSET T /\ A \cup {n + 1} \in SUBSET T /\ A \notin W
    BY <1>3
  <2> QED BY <2>1, <2>2
<1>5. ExistsBijection(SUBSET S, W)
  <2> DEFINE f == [A \in SUBSET S |-> A \cup {n + 1}]
  <2>1. f \in [SUBSET S -> W]
    OBVIOUS
  <2>2. \A A, B \in SUBSET S : f[A] = f[B] => A = B
    BY <1>3
  <2>3. \A w \in W : \E A \in SUBSET S : f[A] = w
    OBVIOUS
  <2>4. f \in Bijection(SUBSET S, W)
    <3> HIDE DEF f
    <3> QED BY <2>1, <2>2, <2>3 DEF Bijection, Injection, Surjection, IsInjective
  <2> QED BY <2>4 DEF ExistsBijection
<1>6. IsFiniteSet(W) /\ Cardinality(W) = 2^n
  BY <1>2, <1>5, FS_Bijection
<1>7. 2^n \in Nat
  BY <1>2, FS_CardinalityType
<1>8. Cardinality(SUBSET T) = Cardinality(SUBSET S) + Cardinality(W) - Cardinality((SUBSET S) \cap W)
  BY <1>2, <1>4, <1>6, FS_Union
<1>9. Cardinality((SUBSET S) \cap W) = 0
  BY <1>4, FS_EmptySet
<1>10. 2^(n + 1) = 2 * 2^n
  <2> DEFINE p == 2^n
             q == 2^(n + 1)
  <2>1. q = p + p - 0 /\ p \in Nat
    BY <1>2, <1>6, <1>7, <1>8, <1>9
  <2> HIDE DEF p, q
  <2>2. q = 2 * p
    BY <2>1
  <2> QED BY <2>2 DEF p, q
<1>11. 2^n > 0
  <2>1. Cardinality(SUBSET S) # 0
    BY <1>2, FS_EmptySet
  <2> QED BY <1>2, <1>7, <2>1
<1> QED BY <1>7, <1>10, <1>11

LEMMA Constants ==
  /\ Fields \in 1 .. 255 /\ LastSub \in Subs /\ LastSub \in 0 .. 254 /\ 0 \in Subs
  /\ Subs = 0 .. LastSub
  /\ \A s \in Slaves, f \in Subs : Identity[s][f] \in Nat
  /\ \A s, r \in Slaves : (\A f \in Subs : Identity[s][f] = Identity[r][f]) => s = r
  /\ \A f \in Subs : FS_LSS_ID[f] \in Nat /\ FirstBit(f) \in 0 .. 127
<1>1. Fields \in 1 .. 255 /\ LastSub \in Subs /\ LastSub \in 0 .. 254 /\ 0 \in Subs
      /\ Subs = 0 .. LastSub
  BY LSSAssumption DEF LastSub, Subs
<1>2. IdNumbers \subseteq Nat
  BY DEF IdNumbers
<1>3. \A s \in Slaves, f \in Subs : Identity[s][f] \in Nat
  BY <1>2, LSSAssumption
<1>4. ASSUME NEW s \in Slaves, NEW r \in Slaves, \A f \in Subs : Identity[s][f] = Identity[r][f]
      PROVE  s = r
  <2>1. Identity[s] \in [Subs -> IdNumbers] /\ Identity[r] \in [Subs -> IdNumbers]
    BY LSSAssumption
  <2>2. Identity[s] = Identity[r]
    BY <1>4, <2>1
  <2> QED BY <2>2, LSSAssumption
<1>5. ASSUME NEW f \in Subs
      PROVE  FS_LSS_ID[f] \in Nat /\ FirstBit(f) \in 0 .. 127
  <2>1. FS_LSS_ID[f] \in Nat /\ FS_BitChecked[f] \in 0 .. Bits /\ Bits \in 1 .. 128
    BY <1>2, LSSAssumption
  <2> QED BY <2>1 DEF FirstBit
<1> QED BY <1>1, <1>3, <1>4, <1>5

\* Commands whose node id has been filled in make the same session.
LEMMA SameSession ==
  ASSUME NEW q, NEW r, DOMAIN q = DOMAIN r, IsSession(q),
         \A i \in DOMAIN q : /\ r[i].cs = q[i].cs /\ r[i].sub = q[i].sub
                             /\ q[i].cs # "CONF_NODE_ID" => r[i].value = q[i].value
  PROVE  IsSession(r)
<1>1. \A j \in DOMAIN q : /\ IsEnd(q, j) <=> IsEnd(r, j)
                          /\ Releases(q[j]) => Releases(r[j])
  BY DEF IsEnd, Releases
<1> QED BY <1>1 DEF IsSession, IdentTests

LEMMA ScanIsSession == IsSession(ScanAndConfigure)
<1> DEFINE q == ScanAndConfigure
<1>1. /\ DOMAIN q = 1 .. 4
      /\ q[1].cs = "IDENT_FASTSCAN" /\ q[2].cs = "CONF_NODE_ID" /\ q[3].cs = "CONF_STORE"
      /\ q[4].cs = "SM_GLOBAL" /\ q[4].value = LSS_WAITING_MODE
  <2>1. DOMAIN ScanAndConfigure = 1 .. 4
    BY DEF ScanAndConfigure
  <2> QED BY <2>1, ScanIsCommands, TheCommands
<1> HIDE DEF q
<1>2. IsEnd(q, 4) /\ Releases(q[4])
  BY <1>1 DEF IsEnd, Releases
<1>3. \A i \in DOMAIN q : i \in {1, 2, 3, 4}
  BY <1>1
<1>4. \A i \in DOMAIN q : q[i].cs \notin IdentTests \cup {"SM_SELECTIVE"}
                          /\ (q[i].cs = "IDENT_FASTSCAN" => i = 1)
  BY <1>1, <1>3 DEF IdentTests
<1>5. 4 \in DOMAIN q
  BY <1>1
<1> QED BY <1>2, <1>4, <1>5 DEF IsSession, q

-----------------------------------------------------------------------------
(***************************************************************************)
(* The user's steps and what answers mean.                                 *)
(***************************************************************************)
LEMMA LengthOfCommands ==
  ASSUME NEW q, Commands(q)
  PROVE  /\ Len(q) \in Nat /\ (q = <<>> <=> Len(q) = 0) /\ DOMAIN q = 1 .. Len(q)
         /\ Last(q) = q[Len(q)]
<1>1. PICK X : q \in Seq(X)
  BY DEF Commands, IsSequence
<1> QED BY <1>1 DEF Last

LEMMA TheCourse ==
  ASSUME NEW a, NEW p, Commands(a), Commands(p)
  PROVE  /\ Len(a) \in Nat /\ Len(p) \in Nat
         /\ a = <<>> <=> Len(a) = 0
         /\ p = <<>> <=> Len(p) = 0
         /\ Last(a) = a[Len(a)]
         /\ DOMAIN CourseOf(a, p) = 1 .. Len(a) + Len(p)
         /\ \A i \in 1 .. Len(a) : i \in DOMAIN CourseOf(a, p) /\ CourseOf(a, p)[i] = a[i]
         /\ \A i \in 1 .. Len(p) : /\ Len(a) + i \in DOMAIN CourseOf(a, p)
                                   /\ CourseOf(a, p)[Len(a) + i] = p[i]
<1>1. /\ Len(a) \in Nat /\ Len(p) \in Nat
      /\ a = <<>> <=> Len(a) = 0
      /\ p = <<>> <=> Len(p) = 0
      /\ Last(a) = a[Len(a)]
  BY LengthOfCommands
<1>2. DOMAIN CourseOf(a, p) = 1 .. Len(a) + Len(p)
  BY DEF CourseOf
<1>3. \A i \in 1 .. Len(a) : i \in DOMAIN CourseOf(a, p) /\ CourseOf(a, p)[i] = a[i]
  BY <1>1 DEF CourseOf
<1>4. ASSUME NEW i \in 1 .. Len(p)
      PROVE  Len(a) + i \in DOMAIN CourseOf(a, p) /\ CourseOf(a, p)[Len(a) + i] = p[i]
  <2>1. /\ Len(a) + i \in 1 .. Len(a) + Len(p)
        /\ ~(Len(a) + i <= Len(a)) /\ Len(a) + i - Len(a) = i
    BY <1>1
  <2> QED BY <2>1 DEF CourseOf
<1> QED BY <1>1, <1>2, <1>3, <1>4

\* When the session is over all slaves wait, or will.
LEMMA ReleasedAtTheEnd ==
  ASSUME Plans, Sessions, plan = <<>>
  PROVE  \A s \in Slaves : Released(s)
<1>1. /\ Len(asked) \in Nat /\ Last(asked) = asked[Len(asked)] /\ Len(plan) = 0
      /\ DOMAIN Course = 1 .. Len(asked) + Len(plan)
      /\ \A i \in 1 .. Len(asked) : Course[i] = asked[i]
  BY TheCourse DEF Plans, Course
<1>2. DOMAIN Course = 1 .. Len(asked)
  BY <1>1
<1>3. CASE NoModeAsked
  BY <1>3 DEF Sessions
<1>4. CASE ~NoModeAsked
  <2>1. PICK i \in 1 .. Len(asked) : asked[i].cs \in ModeServices
    BY <1>4 DEF NoModeAsked
  <2>2. PICK j \in DOMAIN Course : IsEnd(Course, j) /\ Releases(Course[j])
    BY <1>1, <1>2, <2>1 DEF Sessions, IsSession
  <2>3. j = Len(asked)
    BY <1>1, <1>2, <2>1, <2>2 DEF IsEnd
  <2>4. Releases(Last(asked))
    BY <1>1, <1>2, <2>2, <2>3
  <2> QED BY <2>4 DEF Sessions
<1> QED BY <1>3, <1>4

LEMMA BeginKeepsTruth ==
  ASSUME CommandInvariant, Truth, Begin
  PROVE  Truth'
<1>1. /\ plan = <<>> /\ asked' = <<>> /\ UNCHANGED <<master, slave, toSlave, toMaster>>
      /\ plan' = ScanAndConfigure \/ plan' \in Extras
  BY DEF Begin
<1>2. Commands(plan') /\ IsSession(plan')
  BY <1>1, ScanIsCommands, ExtrasAreCommands, ScanIsSession, ExtrasAssumption
<1>3. Plans'
  BY BeginKeeps DEF CommandInvariant
<1>4. IsSession(Course')
  <2>1. /\ Len(asked') = 0 /\ Len(plan') \in Nat
        /\ DOMAIN Course' = 1 .. Len(asked') + Len(plan')
        /\ \A i \in 1 .. Len(plan') : Course'[Len(asked') + i] = plan'[i]
    BY <1>1, <1>3, TheCourse DEF Plans, Course
  <2>2. DOMAIN plan' = 1 .. Len(plan')
    BY <1>2, LengthOfCommands
  <2>3. DOMAIN Course' = DOMAIN plan' /\ \A i \in DOMAIN plan' : Course'[i] = plan'[i]
    BY <2>1, <2>2
  <2> QED BY <1>2, <2>3, SameSession
<1>5. \A s \in Slaves : Released(s)'
  BY <1>1, ReleasedAtTheEnd DEF CommandInvariant, Truth, Released, Waits
<1>6. Sessions'
  BY <1>4, <1>5 DEF Sessions
<1>7. NodeIdsKept'
  BY <1>1 DEF Truth, NodeIdsKept, Waits
<1>8. Masks'
  <2>1. Len(asked') = 0
    BY <1>1
  <2> QED BY <2>1 DEF Masks
<1>9. Meant' /\ Scans'
  BY <1>1 DEF Meant, Scans
<1> QED BY <1>6, <1>7, <1>8, <1>9 DEF Truth

LEMMA BreakOffKeepsTruth ==
  ASSUME CommandInvariant, Truth, BreakOff
  PROVE  Truth'
<1>1. /\ Len(plan) > 1 /\ plan' = <<SMGlobal(LSS_WAITING_MODE)>> /\ asked' = asked
      /\ UNCHANGED <<master, slave, toSlave, toMaster>>
  BY DEF BreakOff
<1>2. Plans /\ Plans'
  BY BreakOffKeeps DEF CommandInvariant
<1> DEFINE n == Len(asked)
           leave == SMGlobal(LSS_WAITING_MODE)
           q == Course
           r == Course'
<1>3. /\ n \in Nat /\ Len(plan) \in Nat /\ DOMAIN q = 1 .. n + Len(plan)
      /\ \A i \in 1 .. n : q[i] = asked[i]
  BY <1>2, TheCourse DEF Plans, Course
<1>4. Len(plan') = 1 /\ plan'[1] = leave
  <2>1. Len(<<leave>>) = 1 /\ <<leave>>[1] = leave
    BY OneCommand, TheCommands
  <2> QED BY <1>1, <2>1
<1>5. /\ DOMAIN r = 1 .. n + 1
      /\ \A i \in 1 .. n : r[i] = asked[i]
      /\ r[n + 1] = leave
  <2>1. /\ DOMAIN r = 1 .. Len(asked') + Len(plan')
        /\ \A i \in 1 .. Len(asked') : r[i] = asked'[i]
        /\ \A i \in 1 .. Len(plan') : r[Len(asked') + i] = plan'[i]
    BY <1>2, TheCourse DEF Plans, Course
  <2> HIDE DEF r, leave
  <2> QED BY <1>1, <1>3, <1>4, <2>1
<1>6. leave.cs = "SM_GLOBAL" /\ leave.value = LSS_WAITING_MODE
  BY TheCommands
<1>7. IsSession(q)
  BY DEF Truth, Sessions
<1>8. Last(asked) = asked[n]
  BY <1>2, TheCourse DEF Plans, Course
<1> HIDE DEF n, leave, q, r
<1>9. IsEnd(r, n + 1) /\ Releases(r[n + 1]) /\ n + 1 \in DOMAIN r
  BY <1>3, <1>5, <1>6 DEF IsEnd, Releases
<1>10. \A i \in 1 .. n : i \in DOMAIN q /\ ~IsEnd(q, i) /\ r[i] = q[i]
  <2>1. n + Len(plan) \in DOMAIN q
    BY <1>1, <1>3
  <2> QED BY <1>1, <1>3, <1>5, <2>1 DEF IsEnd
<1>11. \A i \in DOMAIN r : i \in 1 .. n \/ i = n + 1
  BY <1>3, <1>5
<1>12. r[n + 1].cs = "SM_GLOBAL" /\ r[n + 1].cs \notin IdentTests \cup {"SM_SELECTIVE", "IDENT_FASTSCAN"}
  BY <1>5, <1>6 DEF IdentTests
<1>13. ASSUME NEW i \in 1 .. n
       PROVE  /\ r[i].cs = "IDENT_FASTSCAN" => i = 1
              /\ r[i].cs = "SM_SELECTIVE" =>
                   r[i].sub \in Subs /\ \A j \in DOMAIN r : r[j].cs = "SM_GLOBAL" => IsEnd(r, j)
              /\ r[i].cs \in IdentTests => <<r[i].cs, r[i].sub>> \in AllTests /\ r[i].value \in IdNumbers
              /\ r[i].cs \in IdentTests \cup {"SM_SELECTIVE"} =>
                   \A j \in DOMAIN r : r[j].cs = r[i].cs /\ r[j].sub = r[i].sub => j = i
  <2>1. r[i] = q[i] /\ i \in DOMAIN q
    BY <1>10
  <2>2. \A j \in DOMAIN r : r[j].cs = "SM_GLOBAL" /\ r[i].cs = "SM_SELECTIVE" => IsEnd(r, j)
    BY <1>7, <1>9, <1>10, <1>11, <2>1 DEF IsSession
  <2>3. \A j \in DOMAIN r :
          r[i].cs \in IdentTests \cup {"SM_SELECTIVE"} /\ r[j].cs = r[i].cs /\ r[j].sub = r[i].sub
          => j = i
    BY <1>7, <1>10, <1>11, <1>12, <2>1 DEF IsSession
  <2> QED BY <1>7, <2>1, <2>2, <2>3 DEF IsSession
<1>14. IsSession(r)
  BY <1>9, <1>11, <1>12, <1>13 DEF IsSession
<1>15. Sessions'
  BY <1>1, <1>14 DEF Truth, Sessions, Released, Waits, NoModeAsked, r
<1>16. NodeIdsKept'
  BY <1>1 DEF Truth, NodeIdsKept, Waits
<1>17. Masks'
  BY <1>1 DEF Truth, Masks, Had, Selected, Identified, Waits
<1>18. Meant'
  BY <1>1 DEF Truth, Meant, IsMeant, Answered, Configuring, IsSelected, IsIdentified
<1>19. Scans'
  BY <1>1 DEF Truth, Scans, ScanStage, Starting, Narrowing, Confirming, ScanIsOver, OneFound, Busy,
     Waits, Candidate, InField, Confirmed, Unconfirmed, Alike, FoundSoFar, Answered, Configuring
<1> QED BY <1>15, <1>16, <1>17, <1>18, <1>19 DEF Truth

\* The session goes on with the command that is given.
LEMMA CommandIsNext ==
  ASSUME CommandInvariant, configNetworkNode
  PROVE  LET n == Len(asked)
             c == Filled(Head(plan))
         IN  /\ n \in Nat /\ Len(asked') = n + 1 /\ Last(asked') = asked'[n + 1]
             /\ asked'[n + 1] = c /\ \A i \in 1 .. n : asked'[i] = asked[i]
             /\ DOMAIN Course' = DOMAIN Course /\ n + 1 \in DOMAIN Course
             /\ \A i \in 1 .. n : i \in DOMAIN Course /\ Course[i] = asked[i]
             /\ n > 0 => Last(asked) = asked[n]
             /\ \A i \in DOMAIN Course :
                  /\ Course'[i].cs = Course[i].cs /\ Course'[i].sub = Course[i].sub
                  /\ Course[i].cs # "CONF_NODE_ID" => Course'[i].value = Course[i].value
             /\ Course'[n + 1] = c /\ c.cs = Course[n + 1].cs
<1> DEFINE n == Len(asked)
           p == Head(plan)
           c == Filled(p)
           q == Course
           r == Course'
<1>1. /\ plan # <<>> /\ asked' = Append(asked, c) /\ plan' = Tail(plan)
      /\ IsCommand(p) /\ p = plan[1] /\ IsCommand(c) /\ c.cs = p.cs /\ c.sub = p.sub
  BY CommandIsGiven
<1>2. Commands(plan) /\ Commands(asked) /\ Commands(plan') /\ Commands(asked')
  BY CommandKeeps DEF CommandInvariant, Plans
<1>3. p.cs # "CONF_NODE_ID" => c = p
  BY <1>1, FilledIsCommand
<1>4. /\ n \in Nat /\ Len(plan) \in Nat /\ Len(plan) > 0
      /\ DOMAIN q = 1 .. n + Len(plan)
      /\ \A i \in 1 .. n : q[i] = asked[i]
      /\ \A i \in 1 .. Len(plan) : q[n + i] = plan[i]
      /\ Last(asked) = asked[n]
  <2>1. plan = <<>> <=> Len(plan) = 0
    BY <1>2, LengthOfCommands
  <2> QED BY <1>1, <1>2, <2>1, TheCourse DEF Course
<1>5. /\ DOMAIN r = 1 .. Len(asked') + Len(plan')
      /\ \A i \in 1 .. Len(asked') : r[i] = asked'[i]
      /\ \A i \in 1 .. Len(plan') : r[Len(asked') + i] = plan'[i]
      /\ Last(asked') = asked'[Len(asked')]
  BY <1>2, TheCourse DEF Course
<1> HIDE DEF c, p
<1>6. /\ Len(asked') = n + 1 /\ asked'[n + 1] = c
      /\ \A i \in 1 .. n : asked'[i] = asked[i]
  BY <1>1, <1>2, CommandsAppend
<1>7. /\ Len(plan') = Len(plan) - 1
      /\ \A i \in 1 .. Len(plan') : plan'[i] = plan[i + 1]
  BY <1>1, <1>2, CommandsTail
<1> HIDE DEF n, q, r
<1>8. DOMAIN r = DOMAIN q /\ n + 1 \in DOMAIN q
  BY <1>4, <1>5, <1>6, <1>7
<1>9. /\ \A i \in 1 .. n : r[i] = q[i]
      /\ r[n + 1] = c /\ q[n + 1] = p
  <2>1. q[n + 1] = plan[1]
    BY <1>4
  <2>2. r[n + 1] = c /\ \A i \in 1 .. n : r[i] = asked'[i]
    BY <1>4, <1>5, <1>6
  <2> QED BY <1>1, <1>4, <1>6, <2>1, <2>2
<1>10. ASSUME NEW i \in DOMAIN q, i > n + 1
       PROVE  r[i] = q[i]
  <2>1. /\ i - (n + 1) \in 1 .. Len(plan') /\ i - n \in 1 .. Len(plan)
        /\ i - (n + 1) + 1 = i - n /\ (n + 1) + (i - (n + 1)) = i /\ n + (i - n) = i
    <3>1. Len(plan) \in Nat /\ n \in Nat /\ i \in 1 .. n + Len(plan) /\ i > n + 1
          /\ Len(plan') = Len(plan) - 1
      BY <1>4, <1>7, <1>10
    <3> QED BY <3>1
  <2>2. r[i] = plan'[i - (n + 1)]
    BY <1>5, <1>6, <2>1
  <2>3. plan'[i - (n + 1)] = plan[i - n]
    BY <1>7, <2>1
  <2>4. q[i] = plan[i - n]
    BY <1>4, <2>1
  <2> QED BY <2>2, <2>3, <2>4
<1>11. \A i \in DOMAIN q : i \in 1 .. n \/ i = n + 1 \/ i > n + 1
  BY <1>4
<1>12. \A i \in DOMAIN q :
         /\ r[i].cs = q[i].cs /\ r[i].sub = q[i].sub
         /\ q[i].cs # "CONF_NODE_ID" => r[i].value = q[i].value
  BY <1>1, <1>3, <1>9, <1>10, <1>11
<1>13. \A i \in 1 .. n : i \in DOMAIN q
  BY <1>4
<1> QED BY <1>1, <1>4, <1>5, <1>6, <1>8, <1>9, <1>12, <1>13 DEF n, p, c, q, r

\* A command that is not of these is sent to every slave as it stands.
LEMMA CommandIsSent ==
  ASSUME CommandInvariant, configNetworkNode,
         NEW c, c = Filled(Head(plan)),
         c.cs \notin {"CONF_BIT_TIMING", "CONF_ACT_BIT_TIMING", "IDENT_FASTSCAN"}
  PROVE  /\ \A s \in Slaves : toSlave'[s] = <<Frame(c)>> /\ toSlave'[s] # <<>>
         /\ HasResponse(c) => Busy'
<1>1. /\ sendMasterLSSMessage(c) /\ DOMAIN master = MasterFields
      /\ \A s \in Slaves : toSlave[s] = <<>>
  BY CommandIsGiven DEF CommandInvariant, MasterWaits
<1>2. Broadcast(Frame(c))
  BY <1>1 DEF sendMasterLSSMessage
<1>3. HasResponse(c) => master'.state = LSS_TRANS_IN_PROGRESS
  BY <1>1 DEF sendMasterLSSMessage, Started, MasterFields
<1> DEFINE f == Frame(c)
<1>4. Append(<<>>, f) = <<f>> /\ <<f>> # <<>>
  OBVIOUS
<1> HIDE DEF f
<1>5. \A s \in Slaves : toSlave'[s] = <<f>>
  BY <1>1, <1>2, <1>4 DEF Broadcast, f
<1> QED BY <1>3, <1>4, <1>5 DEF Busy, f

LEMMA CommandKeepsTruth ==
  ASSUME CommandInvariant, Truth, configNetworkNode
  PROVE  Truth'
<1> DEFINE n == Len(asked)
           c == Filled(Head(plan))
<1>1. /\ n \in Nat /\ Len(asked') = n + 1 /\ Last(asked') = c /\ asked' # <<>>
      /\ asked'[n + 1] = c /\ \A i \in 1 .. n : asked'[i] = asked[i]
      /\ DOMAIN Course' = DOMAIN Course /\ n + 1 \in DOMAIN Course
      /\ \A i \in 1 .. n : i \in DOMAIN Course /\ Course[i] = asked[i]
      /\ n > 0 => Last(asked) = asked[n]
      /\ \A i \in DOMAIN Course :
           /\ Course'[i].cs = Course[i].cs /\ Course'[i].sub = Course[i].sub
           /\ Course[i].cs # "CONF_NODE_ID" => Course'[i].value = Course[i].value
      /\ c.cs = Course[n + 1].cs
  BY CommandIsNext, CommandIsGiven
<1>2. /\ slave' = slave /\ toMaster' = <<>> /\ toMaster = <<>> /\ \A s \in Slaves : toSlave[s] = <<>>
      /\ sendMasterLSSMessage(c) /\ DOMAIN master = MasterFields /\ master.FastScan_SM = LSS_FS_RESET
  BY CommandIsGiven DEF CommandInvariant, MasterWaits, Quiet
<1>3. c.cs \notin {"CONF_BIT_TIMING", "CONF_ACT_BIT_TIMING", "IDENT_FASTSCAN"} =>
        /\ \A s \in Slaves : toSlave'[s] = <<Frame(c)>> /\ toSlave'[s] # <<>>
        /\ HasResponse(c) => Busy'
  BY CommandIsSent
<1>4. /\ asked = <<>> => n = 0
      /\ c.cs = "CONF_NODE_ID" => c.value \in 1 .. 127
  <2>1. c.cs = "CONF_NODE_ID" => c.value = NodeIds[given + 1] /\ given + 1 \in 1 .. Len(NodeIds)
    <3>1. IsCommand(Head(plan)) /\ c.cs = Head(plan).cs /\ given \in Nat
      BY CommandIsGiven DEF CommandInvariant, Plans
    <3>2. c.cs = "CONF_NODE_ID" => c.value = NodeIds[given + 1] /\ given < Len(NodeIds)
      BY <3>1, FilledIsCommand DEF configNetworkNode
    <3>3. Len(NodeIds) \in Nat
      BY LSSAssumption
    <3> QED BY <3>1, <3>2, <3>3
  <2>0. asked = <<>> => n = 0
    OBVIOUS
  <2> HIDE DEF n, c
  <2>2. \A i \in 1 .. Len(NodeIds) : NodeIds[i] \in 1 .. 127
    <3> DEFINE X == 1 .. 127
    <3>1. NodeIds \in Seq(X)
      BY LSSAssumption
    <3> HIDE DEF X
    <3>2. \A i \in 1 .. Len(NodeIds) : NodeIds[i] \in X
      BY <3>1
    <3> QED BY <3>2 DEF X
  <2> QED BY <2>0, <2>1, <2>2
<1> HIDE DEF n, c
<1>5. IsSession(Course)
  BY DEF Truth, Sessions
<1>6. IsSession(Course')
  BY <1>1, <1>5, SameSession
<1>7. Sessions'
  <2> SUFFICES ASSUME NoModeAsked' \/ Releases(Last(asked'))
               PROVE  \A s \in Slaves : Released(s)'
    BY <1>6 DEF Sessions
  <2>1. CASE NoModeAsked'
    <3>1. NoModeAsked /\ c.cs \notin ModeServices
      BY <1>1, <2>1 DEF NoModeAsked, n
    <3>2. \A s \in Slaves : Waits(s)
      BY <1>2, <3>1 DEF Truth, Sessions, Released
    <3>3. \/ \A s \in Slaves : toSlave'[s] = <<>>
          \/ \A s \in Slaves : toSlave'[s] # <<>> /\ Head(toSlave'[s]).cs = c.cs
      <4>1. toSlave' = toSlave \/ Broadcast(Frame(c))
        BY <1>2, <3>1 DEF sendMasterLSSMessage, ModeServices
      <4>2. Frame(c).cs = c.cs
        BY DEF Frame
      <4> DEFINE f == Frame(c)
      <4>3. Append(<<>>, f) = <<f>> /\ Head(<<f>>) = f /\ <<f>> # <<>>
        OBVIOUS
      <4> HIDE DEF f
      <4>4. Broadcast(f) => \A s \in Slaves : toSlave'[s] = <<f>>
        BY <1>2, <4>3 DEF Broadcast
      <4> QED BY <1>2, <4>1, <4>2, <4>3, <4>4 DEF f
    <3> QED BY <1>2, <3>1, <3>2, <3>3 DEF Released, Waits
  <2>2. CASE Releases(Last(asked'))
    <3>1. c.cs = "SM_GLOBAL" /\ c.value = LSS_WAITING_MODE
      BY <1>1, <2>2 DEF Releases
    <3>2. \A s \in Slaves : toSlave'[s] = <<Frame(c)>> /\ toSlave'[s] # <<>>
      BY <1>3, <3>1
    <3>3. Releases(Frame(c))
      BY <3>1 DEF Frame, Releases
    <3>4. Head(<<Frame(c)>>) = Frame(c)
      OBVIOUS
    <3> QED BY <3>2, <3>3, <3>4 DEF Released
  <2> QED BY <2>1, <2>2
<1>8. NodeIdsKept'
  BY <1>1, <1>2, <1>4 DEF Truth, NodeIdsKept, Waits
<1>9. Masks'
  <2> SUFFICES ASSUME NEW s \in Slaves, NEW i \in 1 .. n + 1, Had(s, i)'
               PROVE  /\ Selected(s, i)' => Identity[s][asked'[i].sub] = asked'[i].value
                      /\ Identified(s, i)' =>
                           Passes(asked'[i].cs, asked'[i].value, Identity[s][asked'[i].sub])
    BY <1>1 DEF Masks
  <2>1. CASE i = n + 1
    <3>1. toSlave'[s] = <<>>
      BY <1>1, <2>1 DEF Had
    <3>2. asked'[i].cs \in {"CONF_BIT_TIMING", "CONF_ACT_BIT_TIMING", "IDENT_FASTSCAN"}
      BY <1>1, <1>3, <2>1, <3>1
    <3> QED BY <3>2 DEF Selected, Identified, IdentTests
  <2>2. CASE i \in 1 .. n
    <3>1. asked'[i] = asked[i] /\ n > 0 /\ n \in 1 .. n /\ Last(asked) = asked[n]
      BY <1>1, <2>2
    <3>2. Had(s, i)
      BY <1>1, <1>2, <2>2 DEF Had, n
    <3>3. Selected(s, i)' => Selected(s, i)
      <4> SUFFICES ASSUME Selected(s, i)' PROVE Last(asked).cs # "SM_GLOBAL"
        BY <1>2, <3>1 DEF Selected, Waits
      <4> SUFFICES ASSUME Last(asked).cs = "SM_GLOBAL" PROVE FALSE
        OBVIOUS
      <4>1. Course[i].cs = "SM_SELECTIVE" /\ Course[n].cs = "SM_GLOBAL"
        BY <1>1, <2>2, <3>1 DEF Selected
      <4>2. IsEnd(Course, n)
        BY <1>1, <1>5, <2>2, <3>1, <4>1 DEF IsSession
      <4> QED BY <1>1, <4>2 DEF IsEnd
    <3>4. Identified(s, i)' => Identified(s, i)
      BY <1>2, <3>1 DEF Identified
    <3>5. /\ Selected(s, i) => Identity[s][asked[i].sub] = asked[i].value
          /\ Identified(s, i) => Passes(asked[i].cs, asked[i].value, Identity[s][asked[i].sub])
      BY <2>2, <3>2 DEF Truth, Masks, n
    <3> QED BY <3>1, <3>3, <3>4, <3>5
  <2> QED BY <1>1, <2>1, <2>2
<1>10. Meant'
  <2> SUFFICES ASSUME Answered(Last(asked).cs)', c.cs \in IdentTests \cup {"SM_SELECTIVE"}
               PROVE  FALSE
    BY <1>1, <1>2 DEF Meant, IsMeant
  <2>1. HasResponse(c) /\ master'.state = LSS_FINISHED
    BY <1>1 DEF Answered
  <2>2. Busy'
    BY <1>3, <2>1 DEF IdentTests
  <2> QED BY <2>1, <2>2, StatesDiffer DEF Busy
<1>11. Scans'
  <2> SUFFICES ASSUME c.cs = "IDENT_FASTSCAN" PROVE Starting'
    BY <1>1 DEF Scans, ScanStage
  <2>1. n = 0
    <3>1. Course[n + 1].cs = "IDENT_FASTSCAN" /\ n + 1 \in DOMAIN Course
      BY <1>1
    <3>2. n + 1 = 1
      BY <1>5, <3>1 DEF IsSession
    <3> QED BY <1>1, <3>2
  <2>2. NoModeAsked
    BY <2>1 DEF NoModeAsked, n
  <2>3. \A s \in Slaves : Waits(s)
    BY <1>2, <2>2 DEF Truth, Sessions, Released
  <2>4. /\ master' = [Started(c) EXCEPT !.IDNumber = 0, !.BitChecked = 128, !.LSSSub = 0,
                                        !.LSSNext = 0, !.timerMSG = TRUE,
                                        !.state = LSS_TRANS_IN_PROGRESS]
        /\ Broadcast(FastScanFrame(master'))
    BY <1>2 DEF sendMasterLSSMessage, Started, MasterFields
  <2>5. /\ Busy' /\ master'.FastScan_SM = LSS_FS_RESET
        /\ master'.BitChecked = 128 /\ master'.LSSNext = 0
    BY <1>2, <2>4 DEF Busy, Started, MasterFields
  <2>6. \A s \in Slaves : toSlave'[s] # <<>>
    <3>1. \A f : Append(<<>>, f) # <<>>
      OBVIOUS
    <3> QED BY <1>2, <2>4, <3>1 DEF Broadcast
  <2> QED BY <1>2, <2>3, <2>5, <2>6 DEF Starting, Waits
<1> QED BY <1>7, <1>8, <1>9, <1>10, <1>11 DEF Truth

-----------------------------------------------------------------------------
(***************************************************************************)
(* The master's steps and what answers mean.                               *)
(***************************************************************************)
LEMMA MasterKeepsSession ==
  ASSUME CommandInvariant, Truth, proceedLSS_Master \/ LssAlarmMSG \/ LssAlarmFS
  PROVE  Sessions' /\ NodeIdsKept' /\ Masks'
<1>1. /\ slave' = slave /\ plan' = plan /\ asked' = asked
      /\ \/ toSlave' = toSlave
         \/ /\ asked # <<>> /\ Last(asked).cs = "IDENT_FASTSCAN"
            /\ Broadcast(FastScanFrame(master'))
  BY MasterKeepsRate
<1>2. NodeIdsKept'
  BY <1>1 DEF Truth, NodeIdsKept, Waits
<1>3. CASE toSlave' = toSlave
  <2>1. Sessions'
    BY <1>1, <1>3 DEF Truth, Sessions, Course, NoModeAsked, Released, Waits
  <2>2. Masks'
    BY <1>1, <1>3 DEF Truth, Masks, Had, Selected, Identified, Waits
  <2> QED BY <1>2, <2>1, <2>2
<1>4. CASE asked # <<>> /\ Last(asked).cs = "IDENT_FASTSCAN" /\ Broadcast(FastScanFrame(master'))
  <2>1. Len(asked) \in Nat /\ Len(asked) > 0 /\ Last(asked) = asked[Len(asked)]
    BY <1>4, LengthOfCommands DEF CommandInvariant, Plans
  <2>2. ~NoModeAsked
    BY <1>4, <2>1 DEF NoModeAsked, ModeServices
  <2>3. ~Releases(Last(asked))
    BY <1>4 DEF Releases
  <2>4. Sessions'
    BY <1>1, <2>2, <2>3 DEF Truth, Sessions, Course, NoModeAsked
  <2>5. \A s \in Slaves : toSlave'[s] # <<>>
    <3>1. \A q, f : Append(q, f) # <<>>
      OBVIOUS
    <3> QED BY <1>4, <3>1 DEF Broadcast
  <2>6. \A s \in Slaves, i \in 1 .. Len(asked) : Had(s, i)' => Had(s, i)
    BY <1>1, <2>5 DEF Had
  <2>7. Masks'
    BY <1>1, <2>6 DEF Truth, Masks, Selected, Identified, Waits
  <2> QED BY <1>2, <2>4, <2>7
<1> QED BY <1>1, <1>3, <1>4

LEMMA AnswerKeepsTruth ==
  ASSUME CommandInvariant, Truth, proceedLSS_Master
  PROVE  Truth'
<1>1. /\ toMaster # <<>> /\ slave' = slave /\ toSlave' = toSlave /\ asked' = asked
      /\ \/ master' = master
         \/ /\ Busy /\ master.command = "IDENT_FASTSCAN"
            /\ master' = [master EXCEPT !.LSSanswer = 1]
         \/ /\ Busy /\ master.command # "IDENT_FASTSCAN"
            /\ master' = [Finishes(master, Head(toMaster).dat1) EXCEPT !.timerMSG = FALSE]
  BY AnswerIsTaken DEF userVars
<1>2. DOMAIN master = MasterFields /\ (Busy => master.command = Last(asked).cs)
  BY DEF CommandInvariant, MasterWaits
<1>3. Meant'
  BY <1>1 DEF Truth, Meant, IsMeant, Configuring, IsSelected, IsIdentified
<1>4. Scans'
  <2> SUFFICES ASSUME asked # <<>>, Last(asked).cs = "IDENT_FASTSCAN" PROVE ScanStage'
    BY <1>1 DEF Scans
  <2>1. ScanStage
    BY DEF Truth, Scans
  <2>2. master' = master \/ master' = [master EXCEPT !.LSSanswer = 1]
    BY <1>1, <1>2
  <2>3. /\ master'.FastScan_SM = master.FastScan_SM /\ master'.BitChecked = master.BitChecked
        /\ master'.LSSNext = master.LSSNext /\ master'.LSSSub = master.LSSSub
        /\ master'.IDNumber = master.IDNumber /\ master'.state = master.state
    BY <1>2, <2>2 DEF MasterFields
  <2>4. Starting => Starting'
    BY <1>1, <2>3 DEF Starting, Busy, Waits, Candidate
  <2>5. Narrowing => Narrowing'
    BY <1>1, <2>3 DEF Narrowing, Busy, Waits, Candidate, InField, Alike, FoundSoFar
  <2>6. Confirming => Confirming'
    <3> SUFFICES ASSUME Confirming PROVE Confirming'
      OBVIOUS
    <3>1. master.LSSSub = LastSub => Configuring # {}
      BY <1>1 DEF Confirming
    <3>2. (Alike /\ FoundSoFar(1))'
      BY <1>1, <2>3 DEF Confirming, Alike, FoundSoFar, Candidate
    <3>3. \A s \in Slaves : ((Candidate(s) /\ Confirmed(s)) \/ Unconfirmed(s))'
      BY <1>1, <2>3 DEF Confirming, Candidate, Confirmed, Unconfirmed, Waits
    <3> QED BY <1>1, <2>3, <3>1, <3>2, <3>3 DEF Confirming, Busy, Configuring
  <2>7. ScanIsOver => ScanIsOver'
    <3> SUFFICES ASSUME ScanIsOver PROVE ScanIsOver'
      OBVIOUS
    <3>1. master' = master
      BY <1>1 DEF ScanIsOver
    <3> QED BY <1>1, <3>1 DEF ScanIsOver, Busy, Answered, OneFound, Configuring, Candidate
  <2> QED BY <2>1, <2>4, <2>5, <2>6, <2>7 DEF ScanStage
<1> QED BY <1>3, <1>4, MasterKeepsSession DEF Truth

LEMMA KnownPartIsNat ==
  ASSUME NEW sub \in Subs
  PROVE  KnownPart(sub) \in Nat
<1> DEFINE M == 2^(FirstBit(sub) + 1)
           a == FS_LSS_ID[sub]
<1>1. FirstBit(sub) \in 0 .. 127 /\ a \in Nat
  BY Constants
<1>2. FirstBit(sub) + 1 \in Nat
  BY <1>1
<1>3. M \in Nat /\ M > 0
  BY <1>2, Powers
<1>4. KnownPart(sub) = (a \div M) * M
  BY DEF KnownPart
<1> HIDE DEF M, a
<1>5. a \div M \in Nat
  BY <1>1, <1>3
<1> QED BY <1>3, <1>4, <1>5

\* The field that a scan turns to.
LEMMA FieldIsBegun ==
  ASSUME NEW m, DOMAIN m = MasterFields, m.state = LSS_TRANS_IN_PROGRESS,
         NEW sub \in Subs, m.LSSNext = sub, master' = Field(m, sub)
  PROVE  /\ Busy' /\ master'.FastScan_SM = LSS_FS_PROCESSING
         /\ master'.LSSSub = sub /\ master'.LSSNext = sub
         /\ master'.BitChecked = FirstBit(sub) /\ FirstBit(sub) \in 0 .. FirstBit(sub)
         /\ FoundSoFar(2^(master.BitChecked + 1))'
<1>1. /\ Busy' /\ master'.FastScan_SM = LSS_FS_PROCESSING
      /\ master'.LSSSub = sub /\ master'.LSSNext = sub
      /\ master'.BitChecked = FirstBit(sub) /\ master'.IDNumber = KnownPart(sub)
  BY DEF Field, MasterFields, Busy
<1>2. FirstBit(sub) \in Nat
  <2>1. FirstBit(sub) \in 0 .. 127
    BY Constants
  <2> QED BY <2>1
<1>3. 2^(FirstBit(sub) + 1) \in Nat
  BY <1>2, Powers
<1>4. KnownPart(sub) \in Nat
  BY KnownPartIsNat
<1>5. FoundSoFar(2^(master.BitChecked + 1))'
  <2> DEFINE M == 2^(FirstBit(sub) + 1)
             k == KnownPart(sub)
  <2>1. k = k + 0 /\ 0 + M <= M /\ M \in Nat
    BY <1>3, <1>4
  <2>2. /\ master'.IDNumber = k + 0
        /\ 0 + 2^(master'.BitChecked + 1) <= 2^(FirstBit(master'.LSSSub) + 1)
    BY <1>1, <2>1
  <2> QED BY <1>1, <2>2 DEF FoundSoFar
<1> QED BY <1>1, <1>2, <1>5

LEMMA AlarmMSGKeepsTruth ==
  ASSUME CommandInvariant, Truth, LssAlarmMSG
  PROVE  Truth'
<1>1. /\ master.timerMSG /\ Busy /\ asked # <<>> /\ master.command = Last(asked).cs
      /\ master.FastScan_SM = LSS_FS_RESET /\ DOMAIN master = MasterFields
  BY DEF LssAlarmMSG, CommandInvariant, MasterWaits
<1>2. /\ slave' = slave /\ asked' = asked /\ toMaster' = toMaster /\ toMaster = <<>>
      /\ \A s \in Slaves : toSlave[s] = <<>>
  BY DEF LssAlarmMSG, userVars, Quiet
<1> DEFINE m == [master EXCEPT !.timerMSG = FALSE]
<1>3. m.command = master.command /\ DOMAIN m = MasterFields /\ m.LSSNext = master.LSSNext
      /\ m.state = LSS_TRANS_IN_PROGRESS
  BY <1>1 DEF MasterFields, Busy
<1>4. \/ /\ master' = Field(m, 0) /\ Broadcast(FastScanFrame(master'))
         /\ Last(asked).cs = "IDENT_FASTSCAN"
      \/ master' = Finishes(m, 1) /\ toSlave' = toSlave
      \/ master' = Aborts(m) /\ toSlave' = toSlave
  BY <1>1, <1>3 DEF LssAlarmMSG, MasterSends
<1> HIDE DEF m
<1>5. ~Answered(Last(asked).cs)'
  <2>1. CASE master' = Field(m, 0)
    BY <1>3, <2>1, StatesDiffer DEF Answered, Field, MasterFields
  <2>2. CASE master' = Finishes(m, 1)
    BY <1>3, <2>2 DEF Answered, Finishes, MasterFields
  <2>3. CASE master' = Aborts(m)
    BY <1>3, <2>3, StatesDiffer DEF Answered, Aborts, MasterFields
  <2> QED BY <1>4, <2>1, <2>2, <2>3
<1>6. Meant'
  BY <1>2, <1>5 DEF Meant
<1>7. Scans'
  <2> SUFFICES ASSUME Last(asked).cs = "IDENT_FASTSCAN" PROVE ScanStage'
    BY <1>2 DEF Scans
  <2>1. Starting
    BY <1>1, StatesDiffer DEF Truth, Scans, ScanStage, Narrowing, Confirming, ScanIsOver
  <2>2. CASE master' = Field(m, 0) /\ Broadcast(FastScanFrame(master'))
    <3>1. m.LSSNext = 0 /\ 0 \in Subs
      BY <1>3, <2>1, Constants DEF Starting
    <3>2. /\ Busy' /\ master'.FastScan_SM = LSS_FS_PROCESSING
          /\ master'.LSSSub = 0 /\ master'.LSSNext = 0
          /\ master'.BitChecked = FirstBit(0) /\ FirstBit(0) \in 0 .. FirstBit(0)
          /\ FoundSoFar(2^(master.BitChecked + 1))'
      BY <1>3, <2>2, <3>1, FieldIsBegun
    <3>3. \A s \in Slaves : toSlave'[s] # <<>>
      <4>1. \A q, f : Append(q, f) # <<>>
        OBVIOUS
      <4> QED BY <2>2, <4>1 DEF Broadcast
    <3>4. \A s \in Slaves : Waits(s) /\ (Candidate(s) =>
            slave[s].FastScan_SM = LSS_FS_PROCESSING /\ slave[s].LSSPos = 0)
      BY <1>2, <2>1 DEF Starting
    <3>5. Alike'
      <4> SUFFICES ASSUME NEW s \in Slaves, NEW f \in Subs, Candidate(s), f < slave[s].LSSPos
                   PROVE  FALSE
        BY <1>2 DEF Alike, Candidate
      <4>1. f \in Nat /\ slave[s].LSSPos = 0
        BY <3>4, Constants
      <4> QED BY <4>1
    <3>6. \A s \in Slaves : Waits(s)' /\ (Candidate(s)' => InField(s)')
      BY <1>2, <3>2, <3>3, <3>4 DEF Waits, Candidate, InField
    <3> QED BY <3>1, <3>2, <3>5, <3>6 DEF ScanStage, Narrowing
  <2>3. CASE master' \in {Finishes(m, 1), Aborts(m)} /\ toSlave' = toSlave
    <3>1. ~Busy'
      BY <1>3, <2>3, StatesDiffer DEF Busy, Finishes, Aborts, MasterFields
    <3>2. ~Answered("IDENT_FASTSCAN")'
      BY <1>2, <1>5 DEF Answered
    <3> QED BY <1>2, <2>3, <3>1, <3>2 DEF ScanStage, ScanIsOver
  <2> QED BY <1>4, <2>2, <2>3
<1> QED BY <1>6, <1>7, MasterKeepsSession DEF Truth

LEMMA DelayKeepsTruth ==
  ASSUME CommandInvariant, Truth, LssAlarmSDELAY_Master
  PROVE  Truth'
<1>1. UNCHANGED <<slave, toSlave, toMaster, plan, asked>>
  BY DEF LssAlarmSDELAY_Master, userVars
<1>2. asked # <<>> => Last(asked).cs = "CONF_ACT_BIT_TIMING"
  BY StatesDiffer DEF LssAlarmSDELAY_Master, DelayRuns, CommandInvariant, MasterWaits
<1>3. Sessions' /\ NodeIdsKept' /\ Masks'
  BY <1>1 DEF Truth, Sessions, NodeIdsKept, Masks, Course, NoModeAsked, Released, Waits, Had,
     Selected, Identified
<1>4. Meant' /\ Scans'
  BY <1>1, <1>2 DEF Meant, IsMeant, Scans, IdentTests
<1> QED BY <1>3, <1>4 DEF Truth

LEMMA AppendedIsNotEmpty == \A f : Append(<<>>, f) # <<>>
<1>1. \A f : Append(<<>>, f) = <<f>> /\ <<f>> # <<>>
  OBVIOUS
<1> QED BY <1>1

\* From one bit to the next: what has been found grows by a bit at most.
LEMMA BitIsFound ==
  ASSUME DOMAIN master = MasterFields, Narrowing,
         NEW b, b \in {master, BitFound(master)}
  PROVE  /\ b.BitChecked = master.BitChecked /\ b.LSSSub = master.LSSSub
         /\ b.LSSNext = master.LSSNext /\ b.state = master.state
         /\ b.FastScan_SM = master.FastScan_SM /\ DOMAIN b = MasterFields
         /\ \E x \in Nat : /\ b.IDNumber = KnownPart(master.LSSSub) + x
                           /\ x + 2^master.BitChecked <= 2^(FirstBit(master.LSSSub) + 1)
<1>1. /\ b.BitChecked = master.BitChecked /\ b.LSSSub = master.LSSSub
      /\ b.LSSNext = master.LSSNext /\ b.state = master.state
      /\ b.FastScan_SM = master.FastScan_SM /\ DOMAIN b = MasterFields
      /\ b.IDNumber \in {master.IDNumber, master.IDNumber + 2^master.BitChecked}
  BY DEF BitFound, MasterFields
<1> DEFINE p == 2^master.BitChecked
           M == 2^(FirstBit(master.LSSSub) + 1)
           k == KnownPart(master.LSSSub)
<1>2. master.LSSSub \in Subs /\ master.BitChecked \in Nat
  BY Constants DEF Narrowing
<1>3. PICK x \in Nat : master.IDNumber = k + x /\ x + 2^(master.BitChecked + 1) <= M
  BY DEF Narrowing, FoundSoFar
<1>4. p \in Nat /\ p > 0 /\ 2^(master.BitChecked + 1) = 2 * p
  BY <1>2, Powers
<1>5. M \in Nat
  <2>1. FirstBit(master.LSSSub) \in 0 .. 127
    BY <1>2, Constants
  <2>2. FirstBit(master.LSSSub) \in Nat
    BY <2>1
  <2>3. FirstBit(master.LSSSub) + 1 \in Nat
    BY <2>2
  <2> QED BY <2>3, Powers
<1>6. k \in Nat
  BY <1>2, KnownPartIsNat
<1> HIDE DEF p, M, k
<1>7. CASE b.IDNumber = master.IDNumber
  <2>1. b.IDNumber = k + x /\ x + p <= M
    BY <1>3, <1>4, <1>5, <1>7
  <2> QED BY <1>1, <2>1 DEF p, M, k
<1>8. CASE b.IDNumber = master.IDNumber + p
  <2>1. b.IDNumber = k + (x + p) /\ (x + p) + p <= M /\ x + p \in Nat
    BY <1>3, <1>4, <1>5, <1>6, <1>8
  <2> QED BY <1>1, <2>1 DEF p, M, k
<1> QED BY <1>1, <1>7, <1>8 DEF p

LEMMA NarrowingGoesOn ==
  ASSUME CommandInvariant, Narrowing, LssAlarmFS
  PROVE  Narrowing' \/ Confirming'
<1> DEFINE m == [master EXCEPT !.timerFS = FALSE]
           b == BitFound(m)
           next == [NextBit(b) EXCEPT !.LSSanswer = 0, !.timerFS = TRUE]
<1>1. DOMAIN master = MasterFields
  BY DEF CommandInvariant, MasterWaits
<1>2. /\ slave' = slave /\ toMaster' = <<>> /\ \A s \in Slaves : toSlave[s] = <<>>
      /\ master' = next /\ Broadcast(FastScanFrame(next))
  BY <1>1, StatesDiffer DEF LssAlarmFS, Quiet, Narrowing, MasterSends, MasterFields
<1>3. /\ b.BitChecked = master.BitChecked /\ b.LSSSub = master.LSSSub
      /\ b.LSSNext = master.LSSNext /\ b.state = master.state
      /\ b.FastScan_SM = master.FastScan_SM /\ DOMAIN b = MasterFields
      /\ \E x \in Nat : /\ b.IDNumber = KnownPart(master.LSSSub) + x
                        /\ x + 2^master.BitChecked <= 2^(FirstBit(master.LSSSub) + 1)
  <2>1. \E a \in {master, BitFound(master)} :
          /\ b.BitChecked = a.BitChecked /\ b.LSSSub = a.LSSSub /\ b.LSSNext = a.LSSNext
          /\ b.state = a.state /\ b.FastScan_SM = a.FastScan_SM /\ b.IDNumber = a.IDNumber
          /\ DOMAIN b = MasterFields
    BY <1>1 DEF BitFound, MasterFields
  <2> HIDE DEF b
  <2> QED BY <1>1, <2>1, BitIsFound
<1>4. master.BitChecked \in 0 .. FirstBit(master.LSSSub) /\ master.BitChecked \in Nat
      /\ master.LSSSub \in Subs /\ master.LSSNext = master.LSSSub /\ Busy
      /\ master.FastScan_SM = LSS_FS_PROCESSING
  BY DEF Narrowing
<1>5. \A s \in Slaves : toSlave'[s] # <<>>
  BY <1>2, AppendedIsNotEmpty DEF Broadcast
<1> HIDE DEF m, b
<1>6. /\ master'.LSSSub = master.LSSSub /\ master'.IDNumber = b.IDNumber /\ master'.state = b.state
      /\ master'.LSSanswer = 0
      /\ master.BitChecked = 0 =>
           /\ master'.FastScan_SM = LSS_FS_CONFIRMATION /\ master'.BitChecked = 0
           /\ master'.LSSNext = IF master.LSSNext < LastSub THEN master.LSSNext + 1 ELSE master.LSSNext
      /\ master.BitChecked # 0 =>
           /\ master'.FastScan_SM = b.FastScan_SM /\ master'.BitChecked = master.BitChecked - 1
           /\ master'.LSSNext = master.LSSNext
  BY <1>2, <1>3 DEF NextBit, MasterFields
<1>7. Alike'
  BY <1>2 DEF Narrowing, Alike, Candidate
<1>8. CASE master.BitChecked = 0
  <2>1. FoundSoFar(1)'
    BY <1>3, <1>6, <1>8 DEF FoundSoFar
  <2>2. master'.LSSNext = IF master.LSSSub < LastSub THEN master.LSSSub + 1 ELSE LastSub
    BY <1>4, <1>6, <1>8, Constants
  <2>3. \A s \in Slaves : Unconfirmed(s)'
    BY <1>2, <1>4, <1>6, <1>8 DEF Narrowing, InField, Unconfirmed, Waits, Candidate
  <2> QED BY <1>2, <1>3, <1>4, <1>6, <1>7, <1>8, <2>1, <2>2, <2>3 DEF Confirming, Busy
<1>9. CASE master.BitChecked # 0
  <2>1. /\ master'.BitChecked + 1 = master.BitChecked
        /\ master'.BitChecked \in 0 .. FirstBit(master.LSSSub)
    <3>1. FirstBit(master.LSSSub) \in 0 .. 127
      BY <1>4, Constants
    <3> QED BY <1>4, <1>6, <1>9, <3>1
  <2>2. FoundSoFar(2^(master.BitChecked + 1))'
    BY <1>3, <1>6, <2>1 DEF FoundSoFar
  <2>3. \A s \in Slaves : Waits(s)' /\ (Candidate(s)' => InField(s)')
    BY <1>2, <1>4, <1>5, <1>6, <1>9 DEF Narrowing, InField, Waits, Candidate
  <2> QED BY <1>3, <1>4, <1>6, <1>7, <1>9, <2>1, <2>2, <2>3 DEF Narrowing, Busy
<1> QED BY <1>8, <1>9

\* When the last field is confirmed there is one slave that has done so.
LEMMA OneHasConfirmed ==
  ASSUME Confirming, Quiet, master.LSSSub = LastSub, master.LSSanswer # 0
  PROVE  OneFound
<1>1. PICK s \in Slaves : s \in Configuring
  BY DEF Confirming, Configuring
<1>2. ASSUME NEW r \in Configuring
      PROVE  r \in Slaves /\ Candidate(r) /\ slave[r].LSSPos = 255 /\ slave[r].nodeID = None
  BY <1>2, StatesDiffer DEF Configuring, Confirming, Confirmed, Unconfirmed, Waits
<1>3. \A f \in Subs : f \in Nat /\ f < 255
  BY Constants
<1>4. Known(s)
  BY <1>1, <1>2, <1>3 DEF Confirming, Alike, Known
<1>5. ASSUME NEW r \in Configuring
      PROVE  r = s
  <2>1. \A f \in Subs : Identity[r][f] = Identity[s][f]
    BY <1>1, <1>2, <1>3 DEF Confirming, Alike
  <2> QED BY <1>2, <2>1, Constants
<1>6. Configuring = {s}
  BY <1>1, <1>5
<1> QED BY <1>1, <1>2, <1>4, <1>6 DEF OneFound

LEMMA ConfirmingGoesOn ==
  ASSUME CommandInvariant, Confirming, LssAlarmFS
  PROVE  Narrowing' \/ ScanIsOver'
<1> DEFINE m == [master EXCEPT !.timerFS = FALSE]
           over == [m EXCEPT !.FastScan_SM = LSS_FS_RESET, !.IDNumber = 0, !.BitChecked = 128,
                             !.LSSSub = 0, !.LSSNext = 0, !.LSSanswer = 0]
<1>1. DOMAIN master = MasterFields
  BY DEF CommandInvariant, MasterWaits
<1>2. /\ slave' = slave /\ asked' = asked /\ Quiet /\ \A s \in Slaves : toSlave[s] = <<>>
      /\ m.LSSSub = master.LSSSub /\ m.LSSNext = master.LSSNext /\ m.LSSanswer = master.LSSanswer
      /\ m.FastScan_SM = LSS_FS_CONFIRMATION /\ DOMAIN m = MasterFields
      /\ m.state = LSS_TRANS_IN_PROGRESS
  BY <1>1 DEF LssAlarmFS, Quiet, Confirming, MasterFields, userVars, Busy
<1>3. \/ m.LSSanswer = 0 /\ master' = Aborts(m) /\ toSlave' = toSlave
      \/ /\ m.LSSanswer # 0 /\ m.LSSSub = LastSub
         /\ master' = Finishes(over, 0) /\ toSlave' = toSlave
      \/ /\ m.LSSanswer # 0 /\ m.LSSSub # LastSub
         /\ master' = Field(m, m.LSSSub + 1) /\ Broadcast(FastScanFrame(master'))
  BY <1>2, StatesDiffer DEF LssAlarmFS, MasterSends
<1> HIDE DEF m
<1>4. CASE master' = Aborts(m) /\ toSlave' = toSlave
  <2>1. ~Busy' /\ ~Answered("IDENT_FASTSCAN")'
    BY <1>2, <1>4, StatesDiffer DEF Busy, Answered, Aborts, MasterFields
  <2> QED BY <1>2, <1>4, <2>1 DEF ScanIsOver
<1>5. CASE /\ m.LSSanswer # 0 /\ m.LSSSub = LastSub
           /\ master' = Finishes(over, 0) /\ toSlave' = toSlave
  <2>1. ~Busy'
    BY <1>2, <1>5, StatesDiffer DEF Busy, Finishes, MasterFields
  <2>2. OneFound
    BY <1>2, <1>5, OneHasConfirmed
  <2>3. OneFound'
    BY <1>2, <2>2 DEF OneFound, Configuring, Candidate
  <2> QED BY <1>2, <1>5, <2>1, <2>3 DEF ScanIsOver
<1>6. CASE /\ m.LSSSub # LastSub
           /\ master' = Field(m, m.LSSSub + 1) /\ Broadcast(FastScanFrame(master'))
  <2> DEFINE sub == master.LSSSub
  <2>1. sub \in 0 .. LastSub /\ sub < LastSub /\ sub + 1 \in Subs /\ m.LSSNext = sub + 1
    <3>1. sub \in Subs /\ sub # LastSub
      BY <1>2, <1>6 DEF Confirming
    <3>2. sub \in 0 .. LastSub /\ LastSub \in 0 .. 254
      BY <3>1, Constants
    <3>3. sub < LastSub /\ sub + 1 \in 0 .. LastSub
      BY <3>1, <3>2
    <3> QED BY <1>2, <3>2, <3>3, Constants DEF Confirming
  <2>2. /\ Busy' /\ master'.FastScan_SM = LSS_FS_PROCESSING
        /\ master'.LSSSub = sub + 1 /\ master'.LSSNext = sub + 1
        /\ master'.BitChecked = FirstBit(sub + 1) /\ FirstBit(sub + 1) \in 0 .. FirstBit(sub + 1)
        /\ FoundSoFar(2^(master.BitChecked + 1))'
    BY <1>2, <1>6, <2>1, FieldIsBegun
  <2>3. \A s \in Slaves : toSlave'[s] # <<>>
    BY <1>2, <1>6, AppendedIsNotEmpty DEF Broadcast
  <2>4. Alike'
    BY <1>2 DEF Confirming, Alike, Candidate
  <2>5. ASSUME NEW s \in Slaves
        PROVE  Waits(s) /\ (Candidate(s) =>
                 \/ slave[s].LSSPos = sub + 1 /\ slave[s].FastScan_SM = LSS_FS_PROCESSING
                 \/ slave[s].LSSPos \in 0 .. sub /\ slave[s].FastScan_SM = LSS_FS_CONFIRMATION)
    BY <1>2, <1>6 DEF Confirming, Confirmed, Unconfirmed
  <2>6. \A s \in Slaves : Waits(s)' /\ (Candidate(s)' => InField(s)')
    <3> SUFFICES ASSUME NEW s \in Slaves PROVE Waits(s)' /\ (Candidate(s)' => InField(s)')
      OBVIOUS
    <3>1. Waits(s)' /\ (Candidate(s)' => Candidate(s))
      BY <1>2, <2>5 DEF Waits, Candidate
    <3>2. CASE slave[s].LSSPos = sub + 1 /\ slave[s].FastScan_SM = LSS_FS_PROCESSING
      BY <1>2, <2>1, <2>2, <2>3, <3>1, <3>2 DEF InField
    <3>3. CASE slave[s].LSSPos \in 0 .. sub /\ slave[s].FastScan_SM = LSS_FS_CONFIRMATION
      BY <1>2, <2>1, <2>2, <3>1, <3>3 DEF InField
    <3> QED BY <2>5, <3>1, <3>2, <3>3
  <2> QED BY <2>1, <2>2, <2>4, <2>6 DEF Narrowing
<1> QED BY <1>3, <1>4, <1>5, <1>6

LEMMA AlarmFSKeepsTruth ==
  ASSUME CommandInvariant, Truth, LssAlarmFS
  PROVE  Truth'
<1>1. /\ Busy /\ asked # <<>> /\ asked' = asked /\ master.FastScan_SM # LSS_FS_RESET
      /\ Last(asked).cs = "IDENT_FASTSCAN"
  BY DEF LssAlarmFS, CommandInvariant, MasterWaits, userVars
<1>2. Narrowing \/ Confirming
  BY <1>1 DEF Truth, Scans, ScanStage, Starting, ScanIsOver
<1>3. Scans'
  BY <1>2, NarrowingGoesOn, ConfirmingGoesOn DEF Scans, ScanStage
<1>4. Meant'
  BY <1>1 DEF Meant, IsMeant, IdentTests
<1> QED BY <1>3, <1>4, MasterKeepsSession DEF Truth

-----------------------------------------------------------------------------
(***************************************************************************)
(* The slaves' steps and what answers mean.                                *)
(***************************************************************************)
IdsKept(d) ==
  /\ d.id \in 1 .. 127 \cup {None}
  /\ d.id # None => d.nodeID \in 1 .. 127
  /\ d.id = None /\ d.mode = LSS_WAITING_MODE => d.nodeID \notin 1 .. 127

\* What a slave keeps of mode, node ids and masks.
Steps(d, e, f) ==
  /\ f.cs \notin ModeServices => e.mode = d.mode
  /\ f.cs # "SM_GLOBAL" => e.mode \in {d.mode, LSS_CONFIGURATION_MODE}
  /\ Releases(f) => e.mode = LSS_WAITING_MODE
  /\ IdsKept(d) /\ (f.cs = "CONF_NODE_ID" /\ d.mode = LSS_CONFIGURATION_MODE => f.value \in 1 .. 127) =>
       IdsKept(e)
  /\ f.cs # "SM_SELECTIVE" => e.addr_sel_match = d.addr_sel_match
  /\ f.cs \notin IdentTests => e.addr_ident_match = d.addr_ident_match

\* A slave that says nothing.
NoNews == toMaster' = toMaster

LEMMA SaysNothing ==
  ASSUME CommandInvariant, NEW s \in Slaves, NEW d, NEW answers, SlaveDoes(s, d, answers)
  PROVE  slave'[s] = d /\ (answers = <<>> => NoNews)
<1>1. DOMAIN slave = Slaves /\ IsSequence(toMaster)
  BY DEF CommandInvariant, SlavesKept, Bus
<1>2. toMaster \o <<>> = toMaster
  <2>1. PICK X : toMaster \in Seq(X)
    BY <1>1 DEF IsSequence
  <2> QED BY <2>1
<1> QED BY <1>1, <1>2 DEF SlaveDoes, NoNews

LEMMA SwitchSteps ==
  ASSUME CommandInvariant, NEW s \in Slaves, SwitchMode(s)
  PROVE  Steps(slave[s], slave'[s], Head(toSlave[s]))
<1> DEFINE f == Head(toSlave[s])
           d == slave[s]
           e == slave'[s]
<1>1. DOMAIN d = SlaveFields
  BY DEF CommandInvariant, SlavesKept, IsSlave
<1>2. f.cs = "SM_GLOBAL"
  BY DEF SwitchMode, SlaveGets
<1>3. e = IF f.value = d.mode THEN d
          ELSE IF f.value = LSS_CONFIGURATION_MODE THEN [d EXCEPT !.mode = f.value]
          ELSE LeavesForMode(d, f.value)
  BY SaysNothing DEF SwitchMode
<1> HIDE DEF f, d, e
<1>4. /\ e.mode = f.value
      /\ e.addr_sel_match = d.addr_sel_match /\ e.addr_ident_match = d.addr_ident_match
  BY <1>1, <1>3 DEF SlaveFields, LeavesForMode, NewIdOnWaiting, setNodeId
<1>5. IdsKept(d) => IdsKept(e)
  <2> SUFFICES ASSUME IdsKept(d) PROVE IdsKept(e)
    OBVIOUS
  <2>1. CASE e = d
    BY <2>1
  <2>2. CASE f.value = LSS_CONFIGURATION_MODE /\ e = [d EXCEPT !.mode = f.value]
    BY <1>1, <2>2, StatesDiffer DEF IdsKept, SlaveFields
  <2>3. CASE e = LeavesForMode(d, f.value)
    <3>1. /\ d.id # None \/ d.nodeID \notin 1 .. 127 => e.id = d.id /\ e.nodeID = d.nodeID
          /\ d.id = None /\ d.nodeID \in 1 .. 127 => e.id = d.nodeID /\ e.nodeID = d.nodeID
      BY <1>1, <2>3 DEF SlaveFields, LeavesForMode, NewIdOnWaiting, setNodeId
    <3>2. None \notin 1 .. 127
      BY DEF None
    <3> QED BY <3>1, <3>2 DEF IdsKept
  <2> QED BY <1>3, <2>1, <2>2, <2>3
<1>6. Steps(d, e, f)
  BY <1>2, <1>4, <1>5 DEF Steps, ModeServices, Releases, IdentTests
<1> QED BY <1>6 DEF d, e, f

LEMMA ConfigureSteps ==
  ASSUME CommandInvariant, NEW s \in Slaves, Configure(s)
  PROVE  Steps(slave[s], slave'[s], Head(toSlave[s]))
<1> DEFINE f == Head(toSlave[s])
           d == slave[s]
           e == slave'[s]
<1>1. DOMAIN d = SlaveFields
  BY DEF CommandInvariant, SlavesKept, IsSlave
<1>2. f.cs \in {"CONF_NODE_ID", "CONF_BIT_TIMING", "CONF_STORE"}
  BY DEF Configure, SlaveGets
<1>3. \/ e \in {d, [d EXCEPT !.baudRate = f.value]}
      \/ /\ e = [d EXCEPT !.nodeID = f.value]
         /\ f.cs = "CONF_NODE_ID" /\ d.mode = LSS_CONFIGURATION_MODE
  BY <1>2, SaysNothing DEF Configure, BitTimingChosen
<1> HIDE DEF f, d, e
<1>4. /\ e.mode = d.mode
      /\ e.addr_sel_match = d.addr_sel_match /\ e.addr_ident_match = d.addr_ident_match
      /\ e.id = d.id
      /\ \/ e.nodeID = d.nodeID
         \/ e.nodeID = f.value /\ f.cs = "CONF_NODE_ID" /\ d.mode = LSS_CONFIGURATION_MODE
  BY <1>1, <1>3 DEF SlaveFields
<1>5. Steps(d, e, f)
  BY <1>2, <1>4, StatesDiffer DEF Steps, ModeServices, Releases, IdsKept
<1> QED BY <1>5 DEF d, e, f

LEMMA InquirySteps ==
  ASSUME CommandInvariant, NEW s \in Slaves,
         AnswerInquiry(s) \/ ActivateBitTiming(s) \/ IdentifyNonConfigured(s)
  PROVE  Steps(slave[s], slave'[s], Head(toSlave[s]))
<1> DEFINE f == Head(toSlave[s])
           d == slave[s]
           e == slave'[s]
<1>1. DOMAIN d = SlaveFields
  BY DEF CommandInvariant, SlavesKept, IsSlave
<1>2. f.cs \in {"INQ_IDENTITY", "INQ_NODE_ID", "CONF_ACT_BIT_TIMING", "IDENT_REMOTE_NON_CONF"}
  BY DEF AnswerInquiry, ActivateBitTiming, IdentifyNonConfigured, SlaveGets
<1>3. e \in {d, [PutAside(d) EXCEPT !.switchDelay = f.value, !.switchDelayState = SDELAY_FIRST]}
  BY SaysNothing DEF AnswerInquiry, ActivateBitTiming, IdentifyNonConfigured
<1> HIDE DEF f, d, e
<1>4. /\ e.mode = d.mode /\ e.id = d.id /\ e.nodeID = d.nodeID
      /\ e.addr_sel_match = d.addr_sel_match /\ e.addr_ident_match = d.addr_ident_match
  BY <1>1, <1>3 DEF SlaveFields, PutAside
<1>5. Steps(d, e, f)
  BY <1>2, <1>4 DEF Steps, ModeServices, Releases, IdsKept
<1> QED BY <1>5 DEF d, e, f

\* A selection: the mask grows by a field that matches, or starts anew.
LEMMA SelectSteps ==
  ASSUME CommandInvariant, NEW s \in Slaves, SelectMode(s)
  PROVE  LET f == Head(toSlave[s])
             d == slave[s]
             e == slave'[s]
         IN  /\ Steps(d, e, f)
             /\ e.addr_sel_match \subseteq d.addr_sel_match \cup {f.sub}
             /\ e.mode # LSS_CONFIGURATION_MODE /\ f.sub \in e.addr_sel_match =>
                  f.value = Identity[s][f.sub]
             /\ \/ NoNews
                \/ /\ d.mode # LSS_CONFIGURATION_MODE /\ e.mode = LSS_CONFIGURATION_MODE
                   /\ Subs = d.addr_sel_match \cup {f.sub} /\ f.value = Identity[s][f.sub]
             /\ d.mode # LSS_CONFIGURATION_MODE /\ e.mode = LSS_CONFIGURATION_MODE =>
                  Subs = d.addr_sel_match \cup {f.sub} /\ f.value = Identity[s][f.sub]
<1> DEFINE f == Head(toSlave[s])
           d == slave[s]
           e == slave'[s]
           match == Match(d.addr_sel_match, f.value = Identity[s][f.sub], f.sub)
<1>1. DOMAIN d = SlaveFields
  BY DEF CommandInvariant, SlavesKept, IsSlave
<1>2. f.cs = "SM_SELECTIVE"
  BY DEF SelectMode, SlaveGets
<1>3. \/ d.mode = LSS_CONFIGURATION_MODE /\ e = d /\ NoNews
      \/ /\ d.mode # LSS_CONFIGURATION_MODE
         /\ e = [d EXCEPT !.addr_sel_match = match] /\ NoNews
      \/ /\ d.mode # LSS_CONFIGURATION_MODE /\ match = Subs
         /\ e = [d EXCEPT !.addr_sel_match = {}, !.nodeID = d.id, !.mode = LSS_CONFIGURATION_MODE]
  BY SaysNothing DEF SelectMode
<1>4. IF f.value = Identity[s][f.sub] THEN match = d.addr_sel_match \cup {f.sub} ELSE match = {}
  BY DEF Match
<1>5. Subs # {}
  BY Constants
<1> HIDE DEF f, d, e, match
<1>6. CASE d.mode = LSS_CONFIGURATION_MODE /\ e = d /\ NoNews
  <2>1. Steps(d, e, f)
    BY <1>2, <1>6 DEF Steps, Releases
  <2> QED BY <1>6, <2>1 DEF d, e, f
<1>7. CASE /\ d.mode # LSS_CONFIGURATION_MODE
           /\ e = [d EXCEPT !.addr_sel_match = match] /\ NoNews
  <2>1. /\ e.mode = d.mode /\ e.id = d.id /\ e.nodeID = d.nodeID
        /\ e.addr_sel_match = match /\ e.addr_ident_match = d.addr_ident_match
    BY <1>1, <1>7 DEF SlaveFields
  <2>2. Steps(d, e, f)
    BY <1>2, <2>1 DEF Steps, Releases, IdsKept
  <2> QED BY <1>4, <1>7, <2>1, <2>2 DEF d, e, f
<1>8. CASE /\ d.mode # LSS_CONFIGURATION_MODE /\ match = Subs
           /\ e = [d EXCEPT !.addr_sel_match = {}, !.nodeID = d.id, !.mode = LSS_CONFIGURATION_MODE]
  <2>1. /\ e.mode = LSS_CONFIGURATION_MODE /\ e.id = d.id /\ e.nodeID = d.id
        /\ e.addr_sel_match = {} /\ e.addr_ident_match = d.addr_ident_match
    BY <1>1, <1>8 DEF SlaveFields
  <2>2. Steps(d, e, f)
    BY <1>2, <2>1, StatesDiffer DEF Steps, Releases, IdsKept, ModeServices
  <2> QED BY <1>4, <1>5, <1>8, <2>1, <2>2 DEF d, e, f
<1> QED BY <1>3, <1>6, <1>7, <1>8

\* An identification likewise.
LEMMA IdentifySteps ==
  ASSUME CommandInvariant, NEW s \in Slaves, IdentifyRemote(s)
  PROVE  LET f == Head(toSlave[s])
             d == slave[s]
             e == slave'[s]
             hit == Passes(f.cs, f.value, Identity[s][f.sub])
         IN  /\ Steps(d, e, f)
             /\ e.addr_ident_match \subseteq d.addr_ident_match \cup {<<f.cs, f.sub>>}
             /\ <<f.cs, f.sub>> \in e.addr_ident_match => hit
             /\ \/ NoNews
                \/ AllTests = {}
                \/ AllTests = d.addr_ident_match \cup {<<f.cs, f.sub>>} /\ hit
<1> DEFINE f == Head(toSlave[s])
           d == slave[s]
           e == slave'[s]
           hit == Passes(f.cs, f.value, Identity[s][f.sub])
           test == <<f.cs, f.sub>>
           match == Match(d.addr_ident_match, hit, test)
<1>1. DOMAIN d = SlaveFields
  BY DEF CommandInvariant, SlavesKept, IsSlave
<1>2. f.cs \in IdentTests
  BY DEF IdentifyRemote, SlaveGets
<1>3. \/ e = [d EXCEPT !.addr_ident_match = match] /\ NoNews
      \/ e = [d EXCEPT !.addr_ident_match = {}] /\ match = AllTests
  BY SaysNothing DEF IdentifyRemote
<1>4. IF hit THEN match = d.addr_ident_match \cup {test} ELSE match = {}
  BY DEF Match
<1> HIDE DEF f, d, e, match, hit, test
<1>5. /\ e.mode = d.mode /\ e.id = d.id /\ e.nodeID = d.nodeID
      /\ e.addr_sel_match = d.addr_sel_match /\ e.addr_ident_match \in {match, {}}
  BY <1>1, <1>3 DEF SlaveFields
<1>6. Steps(d, e, f)
  BY <1>2, <1>5 DEF Steps, Releases, IdsKept, ModeServices, IdentTests
<1>7. e.addr_ident_match \subseteq d.addr_ident_match \cup {test} /\ (test \in e.addr_ident_match => hit)
  BY <1>4, <1>5
<1>8. NoNews \/ AllTests = {} \/ (AllTests = d.addr_ident_match \cup {test} /\ hit)
  BY <1>3, <1>4
<1> QED BY <1>6, <1>7, <1>8 DEF d, e, f, hit, test

\* A scan: who takes no part, starts, narrows, or confirms.
ScanSteps(s, d, e, f) ==
  \/ e = d /\ NoNews
     /\ \/ ~Candidate(s)
        \/ f.bit # 128 /\ d.FastScan_SM = LSS_FS_PROCESSING /\ d.LSSPos # f.sub
        \/ f.bit # 128 /\ d.FastScan_SM = LSS_FS_CONFIRMATION
           /\ ~(d.LSSPos \in Subs /\ d.LSSPos = f.sub /\ f.value = Identity[s][d.LSSPos])
  \/ /\ Candidate(s) /\ (f.bit = 128 \/ d.FastScan_SM = LSS_FS_RESET)
     /\ e = [d EXCEPT !.LSSPos = 0, !.FastScan_SM = LSS_FS_PROCESSING]
  \/ /\ Candidate(s) /\ f.bit # 128 /\ d.FastScan_SM = LSS_FS_PROCESSING /\ d.LSSPos = f.sub
     /\ e = [d EXCEPT !.FastScan_SM = IF f.bit = 0 THEN LSS_FS_CONFIRMATION ELSE @]
  \/ /\ Candidate(s) /\ f.bit # 128 /\ d.FastScan_SM = LSS_FS_CONFIRMATION
     /\ d.LSSPos \in Subs /\ d.LSSPos = f.sub /\ f.value = Identity[s][f.sub]
     /\ e = IF f.sub = LastSub
            THEN [d EXCEPT !.nodeID = d.id, !.mode = LSS_CONFIGURATION_MODE,
                           !.FastScan_SM = LSS_FS_RESET, !.LSSPos = 255]
            ELSE [d EXCEPT !.LSSPos = f.next, !.FastScan_SM = LSS_FS_PROCESSING]

LEMMA FastScanSteps ==
  ASSUME CommandInvariant, NEW s \in Slaves, FastScanAnswer(s)
  PROVE  /\ Steps(slave[s], slave'[s], Head(toSlave[s]))
         /\ ScanSteps(s, slave[s], slave'[s], Head(toSlave[s]))
<1> DEFINE f == Head(toSlave[s])
           d == slave[s]
           e == slave'[s]
           state == IF f.bit = 128 THEN LSS_FS_RESET ELSE d.FastScan_SM
<1>1. DOMAIN d = SlaveFields
      /\ d.FastScan_SM \in {LSS_FS_RESET, LSS_FS_PROCESSING, LSS_FS_CONFIRMATION}
  BY DEF CommandInvariant, SlavesKept, IsSlave
<1>2. f.cs = "IDENT_FASTSCAN"
  BY DEF FastScanAnswer, SlaveGets
<1>3. ASSUME NEW x, NEW answers, SlaveDoes(s, x, answers)
      PROVE  e = x /\ (answers = <<>> => NoNews)
  BY <1>3, SaysNothing
<1>4. ScanSteps(s, d, e, f)
  <2>1. CASE ~Candidate(s)
    <3>1. SlaveDoes(s, d, <<>>)
      BY <2>1 DEF FastScanAnswer, TakesPart, Candidate
    <3> QED BY <1>3, <2>1, <3>1 DEF ScanSteps
  <2>2. CASE Candidate(s) /\ state = LSS_FS_RESET
    <3>1. \E a : SlaveDoes(s, [d EXCEPT !.LSSPos = 0, !.FastScan_SM = LSS_FS_PROCESSING], a)
      BY <2>2, StatesDiffer DEF FastScanAnswer, TakesPart, Candidate
    <3>2. f.bit = 128 \/ d.FastScan_SM = LSS_FS_RESET
      BY <2>2
    <3> QED BY <1>3, <2>2, <3>1, <3>2 DEF ScanSteps
  <2>3. CASE Candidate(s) /\ f.bit # 128 /\ d.FastScan_SM = LSS_FS_PROCESSING
    <3>1. \/ d.LSSPos # f.sub /\ SlaveDoes(s, d, <<>>)
          \/ /\ d.LSSPos = f.sub
             /\ \E a : SlaveDoes(s, [d EXCEPT !.FastScan_SM = IF f.bit = 0 THEN LSS_FS_CONFIRMATION
                                                              ELSE @], a)
      BY <2>3, StatesDiffer DEF FastScanAnswer, TakesPart, Candidate
    <3> QED BY <1>3, <2>3, <3>1 DEF ScanSteps
  <2>4. CASE Candidate(s) /\ f.bit # 128 /\ d.FastScan_SM = LSS_FS_CONFIRMATION
    <3> DEFINE over == [d EXCEPT !.nodeID = d.id, !.mode = LSS_CONFIGURATION_MODE,
                                 !.FastScan_SM = LSS_FS_RESET, !.LSSPos = 255]
               on == [d EXCEPT !.LSSPos = f.next, !.FastScan_SM = LSS_FS_PROCESSING]
               confirms == d.LSSPos \in Subs /\ d.LSSPos = f.sub /\ f.value = Identity[s][d.LSSPos]
    <3>1. \/ ~confirms /\ SlaveDoes(s, d, <<>>)
          \/ confirms /\ d.LSSPos = LastSub /\ \E a : SlaveDoes(s, over, a)
          \/ confirms /\ d.LSSPos # LastSub /\ \E a : SlaveDoes(s, on, a)
      BY <2>4, StatesDiffer DEF FastScanAnswer, TakesPart, Candidate, Confirms
    <3> HIDE DEF over, on
    <3>2. \/ ~confirms /\ e = d /\ NoNews
          \/ confirms /\ d.LSSPos = LastSub /\ e = over
          \/ confirms /\ d.LSSPos # LastSub /\ e = on
      BY <1>3, <3>1
    <3> QED BY <2>4, <3>2 DEF ScanSteps, over, on
  <2> QED BY <1>1, <2>1, <2>2, <2>3, <2>4
<1> HIDE DEF f, d, e
<1>5. /\ e.addr_sel_match = d.addr_sel_match /\ e.addr_ident_match = d.addr_ident_match
      /\ e.id = d.id
      /\ \/ e.mode = d.mode /\ e.nodeID = d.nodeID
         \/ e.mode = LSS_CONFIGURATION_MODE /\ e.nodeID = d.id
  <2>1. \/ e = d
        \/ e = [d EXCEPT !.LSSPos = 0, !.FastScan_SM = LSS_FS_PROCESSING]
        \/ e = [d EXCEPT !.LSSPos = f.next, !.FastScan_SM = LSS_FS_PROCESSING]
        \/ e = [d EXCEPT !.FastScan_SM = IF f.bit = 0 THEN LSS_FS_CONFIRMATION ELSE @]
        \/ e = [d EXCEPT !.nodeID = d.id, !.mode = LSS_CONFIGURATION_MODE,
                         !.FastScan_SM = LSS_FS_RESET, !.LSSPos = 255]
    BY <1>4 DEF ScanSteps
  <2> QED BY <1>1, <2>1 DEF SlaveFields
<1>6. Steps(d, e, f)
  BY <1>2, <1>5, StatesDiffer DEF Steps, Releases, IdsKept, ModeServices, IdentTests
<1> QED BY <1>4, <1>6 DEF d, e, f

LEMMA SlaveSteps ==
  ASSUME CommandInvariant, NEW s \in Slaves, proceedLSS_Slave(s)
  PROVE  Steps(slave[s], slave'[s], Head(toSlave[s]))
BY SwitchSteps, ConfigureSteps, InquirySteps, SelectSteps, IdentifySteps, FastScanSteps
   DEF proceedLSS_Slave

\* The frame is that of the last command; other slaves stay as they are.
LEMMA FrameIsTaken ==
  ASSUME CommandInvariant, NEW s \in Slaves, proceedLSS_Slave(s)
  PROVE  LET f == Head(toSlave[s])
             n == Len(asked)
         IN  /\ asked' = asked /\ plan' = plan /\ master' = master
             /\ toSlave[s] # <<>> /\ toSlave'[s] = <<>>
             /\ \A r \in Slaves \ {s} : toSlave'[r] = toSlave[r] /\ slave'[r] = slave[r]
             /\ n \in Nat /\ (asked # <<>> <=> n > 0) /\ Last(asked) = asked[n]
             /\ DOMAIN asked = 1 .. n
             /\ asked # <<>> =>
                  /\ f.cs = Last(asked).cs
                  /\ f.cs # "IDENT_FASTSCAN" => f.sub = Last(asked).sub /\ f.value = Last(asked).value
                  /\ f.cs = "IDENT_FASTSCAN" => f = FastScanFrame(master)
<1> DEFINE f == Head(toSlave[s])
           n == Len(asked)
<1>1. /\ toSlave[s] # <<>> /\ toSlave'[s] = <<>> /\ (asked # <<>> => f = Current)
      /\ \A r \in Slaves \ {s} : toSlave'[r] = toSlave[r] /\ slave'[r] = slave[r]
      /\ asked' = asked /\ plan' = plan /\ master' = master
  BY SlaveTakesFrame DEF userVars
<1>2. n \in Nat /\ (asked = <<>> <=> n = 0) /\ Last(asked) = asked[n] /\ DOMAIN asked = 1 .. n
  BY LengthOfCommands DEF CommandInvariant, Plans
<1>3. Current.cs = Last(asked).cs
      /\ (Last(asked).cs # "IDENT_FASTSCAN" =>
            Current.sub = Last(asked).sub /\ Current.value = Last(asked).value)
      /\ (Last(asked).cs = "IDENT_FASTSCAN" => Current = FastScanFrame(master))
  BY DEF Current, Frame, FastScanFrame
<1> HIDE DEF f, n
<1>4. asked # <<>> <=> n > 0
  BY <1>2
<1> QED BY <1>1, <1>2, <1>3, <1>4 DEF f, n

\* A frame is of one service.
LEMMA ServiceOfFrame ==
  ASSUME NEW s \in Slaves, proceedLSS_Slave(s)
  PROVE  LET cs == Head(toSlave[s]).cs IN
         /\ cs = "SM_SELECTIVE" => SelectMode(s)
         /\ cs \in IdentTests => IdentifyRemote(s)
         /\ cs = "IDENT_FASTSCAN" => FastScanAnswer(s)
BY DEF proceedLSS_Slave, SlaveGets, SwitchMode, Configure, AnswerInquiry, ActivateBitTiming,
       SelectMode, IdentifyRemote, IdentifyNonConfigured, FastScanAnswer, IdentTests

LEMMA SlaveKeepsSession ==
  ASSUME CommandInvariant, Truth, NEW s \in Slaves, proceedLSS_Slave(s)
  PROVE  Sessions' /\ NodeIdsKept'
<1> DEFINE f == Head(toSlave[s])
           d == slave[s]
           e == slave'[s]
<1>1. /\ asked' = asked /\ plan' = plan
      /\ toSlave[s] # <<>> /\ toSlave'[s] = <<>>
      /\ \A r \in Slaves \ {s} : toSlave'[r] = toSlave[r] /\ slave'[r] = slave[r]
      /\ asked # <<>> =>
           /\ f.cs = Last(asked).cs
           /\ f.cs # "IDENT_FASTSCAN" => f.value = Last(asked).value
      /\ asked = <<>> => NoModeAsked
  <2>1. asked = <<>> => Len(asked) = 0
    OBVIOUS
  <2> QED BY <2>1, FrameIsTaken DEF NoModeAsked
<1>2. Steps(d, e, f)
  BY SlaveSteps
<1>3. Sessions /\ NodeIdsKept
  BY DEF Truth
<1>4. Released(s) => (f.cs \notin ModeServices /\ Waits(s)) \/ Releases(f)
  BY <1>1 DEF Released
<1>5. Released(s) => Released(s)'
  <2>1. Released(s) => e.mode = LSS_WAITING_MODE
    BY <1>2, <1>4 DEF Steps, Waits
  <2> QED BY <1>1, <2>1 DEF Released, Waits
<1>6. \A r \in Slaves : Released(r) => Released(r)'
  BY <1>1, <1>5 DEF Released, Waits
<1>7. Sessions'
  BY <1>1, <1>3, <1>6 DEF Sessions, Course, NoModeAsked
<1>8. IdsKept(d)
  BY <1>3 DEF NodeIdsKept, IdsKept, Waits
<1>9. f.cs = "CONF_NODE_ID" /\ d.mode = LSS_CONFIGURATION_MODE => f.value \in 1 .. 127
  <2>1. CASE asked # <<>>
    BY <1>1, <1>3, <2>1 DEF NodeIdsKept
  <2>2. CASE asked = <<>>
    <3>1. Released(s)
      BY <1>1, <1>3, <2>2 DEF Sessions
    <3> QED BY <1>4, <3>1, StatesDiffer DEF Waits, Releases
  <2> QED BY <2>1, <2>2
<1>10. IdsKept(e)
  BY <1>2, <1>8, <1>9 DEF Steps
<1>11. NodeIdsKept'
  BY <1>1, <1>3, <1>10 DEF NodeIdsKept, IdsKept, Waits
<1> QED BY <1>7, <1>11

LEMMA SlaveKeepsMasks ==
  ASSUME CommandInvariant, Truth, NEW s \in Slaves, proceedLSS_Slave(s)
  PROVE  Masks'
<1> DEFINE f == Head(toSlave[s])
           d == slave[s]
           e == slave'[s]
           n == Len(asked)
<1>1. /\ asked' = asked
      /\ toSlave[s] # <<>> /\ toSlave'[s] = <<>>
      /\ \A r \in Slaves \ {s} : toSlave'[r] = toSlave[r] /\ slave'[r] = slave[r]
      /\ n \in Nat /\ (asked # <<>> <=> n > 0) /\ Last(asked) = asked[n]
      /\ asked # <<>> =>
           /\ f.cs = Last(asked).cs
           /\ f.cs # "IDENT_FASTSCAN" => f.sub = Last(asked).sub /\ f.value = Last(asked).value
  BY FrameIsTaken
<1>2. Steps(d, e, f)
  BY SlaveSteps
<1>3. Masks /\ IsSession(Course)
  BY DEF Truth, Sessions
<1>4. \A i \in 1 .. n : i \in DOMAIN Course /\ Course[i] = asked[i]
  BY TheCourse DEF CommandInvariant, Plans, Course
<1>5. f.cs = "SM_SELECTIVE" =>
        /\ e.addr_sel_match \subseteq d.addr_sel_match \cup {f.sub}
        /\ e.mode # LSS_CONFIGURATION_MODE /\ f.sub \in e.addr_sel_match =>
             f.value = Identity[s][f.sub]
  BY ServiceOfFrame, SelectSteps
<1>6. f.cs \in IdentTests =>
        /\ e.addr_ident_match \subseteq d.addr_ident_match \cup {<<f.cs, f.sub>>}
        /\ <<f.cs, f.sub>> \in e.addr_ident_match => Passes(f.cs, f.value, Identity[s][f.sub])
  BY ServiceOfFrame, IdentifySteps
<1> HIDE DEF f, d, e, n
<1>7. ASSUME NEW i \in 1 .. n, i # n, asked[i].cs \in IdentTests \cup {"SM_SELECTIVE"}
      PROVE  asked[n].cs # asked[i].cs \/ asked[n].sub # asked[i].sub
  <2>1. n \in 1 .. n
    BY <1>1, <1>7
  <2> QED BY <1>3, <1>4, <1>7, <2>1 DEF IsSession
<1>8. ASSUME NEW i \in 1 .. n
      PROVE  /\ Selected(s, i)' => Identity[s][asked[i].sub] = asked[i].value
             /\ Identified(s, i)' => Passes(asked[i].cs, asked[i].value, Identity[s][asked[i].sub])
  <2>1. asked # <<>> /\ i \in Nat /\ i <= n
    BY <1>1, <1>8
  <2>2. CASE i = n
    <3>1. ASSUME Selected(s, i)'
          PROVE  Identity[s][asked[i].sub] = asked[i].value
      <4>1. /\ f.cs = "SM_SELECTIVE" /\ e.mode # LSS_CONFIGURATION_MODE
            /\ f.sub = asked[i].sub /\ f.value = asked[i].value /\ f.sub \in e.addr_sel_match
        BY <1>1, <2>1, <2>2, <3>1 DEF Selected, e
      <4> QED BY <1>5, <4>1
    <3>2. ASSUME Identified(s, i)'
          PROVE  Passes(asked[i].cs, asked[i].value, Identity[s][asked[i].sub])
      <4>1. asked[i].cs \in IdentTests /\ <<asked[i].cs, asked[i].sub>> \in e.addr_ident_match
        BY <1>1, <3>2 DEF Identified, e
      <4>2. f.cs = asked[i].cs /\ f.sub = asked[i].sub /\ f.value = asked[i].value
        BY <1>1, <2>1, <2>2, <4>1 DEF IdentTests
      <4> QED BY <1>6, <4>1, <4>2
    <3> QED BY <3>1, <3>2
  <2>3. CASE i # n
    <3>1. Had(s, i)
      BY <1>1, <2>1, <2>3 DEF Had, n
    <3>2. Selected(s, i)' => Selected(s, i)
      <4> SUFFICES ASSUME Selected(s, i)' PROVE Selected(s, i)
        OBVIOUS
      <4>1. /\ asked[i].cs = "SM_SELECTIVE" /\ Last(asked).cs # "SM_GLOBAL"
            /\ e.mode # LSS_CONFIGURATION_MODE /\ asked[i].sub \in e.addr_sel_match
        BY <1>1 DEF Selected, e
      <4>2. d.mode # LSS_CONFIGURATION_MODE
        BY <1>1, <1>2, <2>1, <4>1 DEF Steps
      <4>3. asked[i].sub \in d.addr_sel_match
        BY <1>1, <1>2, <1>5, <1>7, <2>1, <2>3, <4>1 DEF Steps
      <4> QED BY <4>1, <4>2, <4>3 DEF Selected, d
    <3>3. Identified(s, i)' => Identified(s, i)
      <4> SUFFICES ASSUME Identified(s, i)' PROVE Identified(s, i)
        OBVIOUS
      <4>1. asked[i].cs \in IdentTests /\ <<asked[i].cs, asked[i].sub>> \in e.addr_ident_match
        BY <1>1 DEF Identified, e
      <4>2. <<asked[i].cs, asked[i].sub>> \in d.addr_ident_match
        <5>1. CASE f.cs \notin IdentTests
          BY <1>2, <4>1, <5>1 DEF Steps
        <5>2. CASE f.cs \in IdentTests
          <6>1. f.cs = asked[n].cs /\ f.sub = asked[n].sub
            BY <1>1, <2>1, <5>2 DEF IdentTests
          <6>2. <<asked[i].cs, asked[i].sub>> # <<f.cs, f.sub>>
            BY <1>7, <2>3, <4>1, <6>1
          <6> QED BY <1>6, <4>1, <5>2, <6>2
        <5> QED BY <5>1, <5>2
      <4> QED BY <4>1, <4>2 DEF Identified, d
    <3> QED BY <1>3, <3>1, <3>2, <3>3 DEF Masks, n
  <2> QED BY <2>2, <2>3
<1>9. ASSUME NEW r \in Slaves \ {s}, NEW i \in 1 .. n, Had(r, i)'
      PROVE  /\ Selected(r, i)' => Identity[r][asked[i].sub] = asked[i].value
             /\ Identified(r, i)' => Passes(asked[i].cs, asked[i].value, Identity[r][asked[i].sub])
  <2>1. Had(r, i) /\ (Selected(r, i)' => Selected(r, i)) /\ (Identified(r, i)' => Identified(r, i))
    BY <1>1, <1>9 DEF Had, Selected, Identified
  <2> QED BY <1>3, <2>1 DEF Masks, n
<1> QED BY <1>1, <1>8, <1>9 DEF Masks, n

\* A slave that answers is the one that is meant.
LEMMA SlaveKeepsMeant ==
  ASSUME CommandInvariant, Truth, NEW s \in Slaves, proceedLSS_Slave(s)
  PROVE  Meant'
<1> DEFINE f == Head(toSlave[s])
           d == slave[s]
           e == slave'[s]
           n == Len(asked)
<1>1. /\ asked' = asked /\ master' = master
      /\ \A r \in Slaves \ {s} : slave'[r] = slave[r]
      /\ n \in Nat /\ (asked # <<>> <=> n > 0) /\ Last(asked) = asked[n]
      /\ DOMAIN asked = 1 .. n
      /\ asked # <<>> =>
           /\ f.cs = Last(asked).cs
           /\ f.cs # "IDENT_FASTSCAN" => f.sub = Last(asked).sub /\ f.value = Last(asked).value
  BY FrameIsTaken
<1>2. Steps(d, e, f)
  BY SlaveSteps
<1>3. Masks /\ IsSession(Course) /\ Meant
  BY DEF Truth, Sessions
<1>4. \A i \in 1 .. n : i \in DOMAIN Course /\ Course[i] = asked[i]
  BY TheCourse DEF CommandInvariant, Plans, Course
<1>5. f.cs = "SM_SELECTIVE" =>
        \/ NoNews
        \/ /\ d.mode # LSS_CONFIGURATION_MODE /\ e.mode = LSS_CONFIGURATION_MODE
           /\ Subs = d.addr_sel_match \cup {f.sub} /\ f.value = Identity[s][f.sub]
  BY ServiceOfFrame, SelectSteps
<1>6. f.cs \in IdentTests =>
        \/ NoNews \/ AllTests = {}
        \/ /\ AllTests = d.addr_ident_match \cup {<<f.cs, f.sub>>}
           /\ Passes(f.cs, f.value, Identity[s][f.sub])
  BY ServiceOfFrame, IdentifySteps
<1> HIDE DEF f, d, e, n
<1> SUFFICES ASSUME asked # <<>>, toMaster' # <<>> \/ Answered(Last(asked).cs)
             PROVE  IsMeant'
  BY <1>1 DEF Meant, Answered
<1>7. n \in 1 .. n
  BY <1>1
<1>8. \A i \in 1 .. n : i # n => Had(s, i)
  <2>1. \A i \in 1 .. n : i # n => i < n
    BY <1>1
  <2> QED BY <2>1 DEF Had, n
<1>11. \A i \in 1 .. n : i # n /\ asked[i].cs \in IdentTests \cup {"SM_SELECTIVE"} =>
         asked[n].cs # asked[i].cs \/ asked[n].sub # asked[i].sub
  BY <1>3, <1>4, <1>7 DEF IsSession
<1>12. \A i \in 1 .. n : asked[i].cs = "SM_SELECTIVE" => asked[i].sub \in Subs
  BY <1>3, <1>4 DEF IsSession
<1>9. ASSUME Last(asked).cs = "SM_SELECTIVE"
      PROVE  \E r \in Configuring' : IsSelected(r)'
  <2>1. f.cs = "SM_SELECTIVE" /\ f.sub = asked[n].sub /\ f.value = asked[n].value
    BY <1>1, <1>9
  <2>2. CASE NoNews
    <3>1. PICK r \in Configuring : IsSelected(r)
      BY <1>3, <1>9, <2>2 DEF Meant, IsMeant, NoNews
    <3>2. r \in Configuring'
      BY <1>1, <1>2, <2>1, <3>1 DEF Configuring, Steps, d, e
    <3> QED BY <1>1, <3>1, <3>2 DEF IsSelected
  <2>3. CASE /\ d.mode # LSS_CONFIGURATION_MODE /\ e.mode = LSS_CONFIGURATION_MODE
             /\ Subs = d.addr_sel_match \cup {f.sub} /\ f.value = Identity[s][f.sub]
    <3>1. s \in Configuring'
      BY <2>3 DEF Configuring, e
    <3>2. ASSUME NEW i \in 1 .. n, asked[i].cs = "SM_SELECTIVE"
          PROVE  Identity[s][asked[i].sub] = asked[i].value
      <4>1. CASE i = n
        BY <2>1, <2>3, <4>1
      <4>2. CASE i # n
        <5>1. asked[i].sub \in Subs /\ asked[i].sub # f.sub
          BY <1>1, <1>9, <1>11, <1>12, <2>1, <3>2, <4>2
        <5>2. asked[i].sub \in d.addr_sel_match
          BY <2>3, <5>1
        <5>3. Selected(s, i)
          BY <1>9, <2>3, <3>2, <5>2 DEF Selected, d
        <5> QED BY <1>3, <1>8, <4>2, <5>3 DEF Masks, n
      <4> QED BY <4>1, <4>2
    <3>3. IsSelected(s)'
      BY <1>1, <3>2 DEF IsSelected
    <3> QED BY <3>1, <3>3
  <2> QED BY <1>5, <2>1, <2>2, <2>3
<1>10. ASSUME Last(asked).cs \in IdentTests
       PROVE  \E r \in Slaves : IsIdentified(r)'
  <2>1. f.cs \in IdentTests /\ f.sub = asked[n].sub /\ f.value = asked[n].value /\ f.cs = asked[n].cs
    BY <1>1, <1>10 DEF IdentTests
  <2>2. CASE NoNews
    <3>1. PICK r \in Slaves : IsIdentified(r)
      BY <1>3, <1>10, <2>2 DEF Meant, IsMeant, NoNews
    <3> QED BY <1>1, <3>1 DEF IsIdentified
  <2>3. \A i \in 1 .. n : asked[i].cs \in IdentTests => <<asked[i].cs, asked[i].sub>> \in AllTests
    BY <1>3, <1>4 DEF IsSession
  <2>4. AllTests # {}
    BY <1>1, <1>7, <1>10, <2>3
  <2>5. CASE /\ AllTests = d.addr_ident_match \cup {<<f.cs, f.sub>>}
             /\ Passes(f.cs, f.value, Identity[s][f.sub])
    <3>1. ASSUME NEW i \in 1 .. n, asked[i].cs \in IdentTests
          PROVE  Passes(asked[i].cs, asked[i].value, Identity[s][asked[i].sub])
      <4>1. CASE i = n
        BY <2>1, <2>5, <4>1
      <4>2. CASE i # n
        <5>1. asked[i].cs # f.cs \/ asked[i].sub # f.sub
          BY <1>11, <2>1, <3>1, <4>2
        <5>2. <<asked[i].cs, asked[i].sub>> # <<f.cs, f.sub>>
          BY <5>1
        <5>3. <<asked[i].cs, asked[i].sub>> \in d.addr_ident_match
          BY <2>3, <2>5, <3>1, <5>2
        <5>4. Identified(s, i)
          BY <3>1, <5>3 DEF Identified, d
        <5> QED BY <1>3, <1>8, <4>2, <5>4 DEF Masks, n
      <4> QED BY <4>1, <4>2
    <3>2. ASSUME NEW i \in 1 .. n
          PROVE  LET c == asked[i]
                     id == Identity[s][c.sub]
                 IN  /\ c.cs = "IDENT_EQUAL" => id = c.value
                     /\ c.cs = "IDENT_LOW" => id >= c.value
                     /\ c.cs = "IDENT_HIGH" => id <= c.value
      <4> DEFINE c == asked[i]
                 id == Identity[s][c.sub]
      <4>1. c.cs \in IdentTests => Passes(c.cs, c.value, id)
        BY <3>1
      <4>2. c.cs \in IdentTests => c.value \in Nat /\ id \in Nat
        <5>1. IdNumbers \subseteq Nat
          BY DEF IdNumbers
        <5>2. c.cs \in IdentTests => <<c.cs, c.sub>> \in AllTests /\ c.value \in IdNumbers
          BY <1>3, <1>4 DEF IsSession
        <5>3. <<c.cs, c.sub>> \in AllTests => c.sub \in Subs
          BY LSSAssumption DEF AllTests
        <5> QED BY <5>1, <5>2, <5>3, Constants
      <4> HIDE DEF c, id
      <4>3. /\ c.cs = "IDENT_EQUAL" => id = c.value
            /\ c.cs = "IDENT_LOW" => id >= c.value
            /\ c.cs = "IDENT_HIGH" => id <= c.value
        BY <4>1, <4>2 DEF Passes, IdentTests
      <4> QED BY <4>3 DEF c, id
    <3>3. IsIdentified(s)'
      BY <1>1, <3>2 DEF IsIdentified
    <3> QED BY <3>3
  <2> QED BY <1>6, <2>1, <2>2, <2>4, <2>5
<1> QED BY <1>1, <1>9, <1>10 DEF IsMeant

\* A number that agrees with what is known of a field.
LEMMA AgreesWithKnown ==
  ASSUME NEW sub \in Subs, NEW x \in Nat, x + 1 <= 2^(FirstBit(sub) + 1)
  PROVE  AgreeAbove(FirstBit(sub) + 1, KnownPart(sub) + x, FS_LSS_ID[sub])
<1> DEFINE M == 2^(FirstBit(sub) + 1)
           a == FS_LSS_ID[sub]
           k == a \div M
<1>1. FirstBit(sub) \in 0 .. 127 /\ a \in Nat
  BY Constants
<1>2. FirstBit(sub) + 1 \in Nat
  BY <1>1
<1>3. M \in Nat /\ M > 0 /\ x + 1 <= M
  BY <1>2, Powers
<1>4. KnownPart(sub) = k * M
  BY DEF KnownPart
<1>5. k \in Nat
  <2> HIDE DEF M, a
  <2> QED BY <1>1, <1>3
<1>6. (k * M + x) \div M = k
  <2> HIDE DEF M, k
  <2>1. x < M /\ M \in Nat \ {0}
    BY <1>3
  <2>2. \A p, y \in Nat, q \in Nat \ {0} : y < q => (p * q + y) \div q = p
    OBVIOUS
  <2> QED BY <1>5, <2>1, <2>2
<1> QED BY <1>4, <1>6 DEF AgreeAbove

\* Slaves that are not the one that takes the frame.
LEMMA ScanGoesOn ==
  ASSUME CommandInvariant, NEW s \in Slaves, proceedLSS_Slave(s),
         asked # <<>>, Last(asked).cs = "IDENT_FASTSCAN"
  PROVE  LET f == Head(toSlave[s])
             d == slave[s]
             e == slave'[s]
         IN  /\ ScanSteps(s, d, e, f) /\ Steps(d, e, f)
             /\ e.id = d.id /\ DOMAIN d = SlaveFields
             /\ f.sub = master.LSSSub /\ f.value = master.IDNumber
             /\ f.bit = master.BitChecked /\ f.next = master.LSSNext
             /\ asked' = asked /\ master' = master /\ toSlave[s] # <<>> /\ toSlave'[s] = <<>>
             /\ \A r \in Slaves \ {s} : toSlave'[r] = toSlave[r] /\ slave'[r] = slave[r]
             /\ e.mode \in {d.mode, LSS_CONFIGURATION_MODE}
<1> DEFINE f == Head(toSlave[s])
           d == slave[s]
           e == slave'[s]
<1>1. /\ asked' = asked /\ master' = master /\ toSlave[s] # <<>> /\ toSlave'[s] = <<>>
      /\ \A r \in Slaves \ {s} : toSlave'[r] = toSlave[r] /\ slave'[r] = slave[r]
      /\ f.cs = "IDENT_FASTSCAN" /\ f = FastScanFrame(master)
  BY FrameIsTaken
<1>2. ScanSteps(s, d, e, f) /\ Steps(d, e, f)
  BY <1>1, ServiceOfFrame, FastScanSteps
<1>3. DOMAIN d = SlaveFields
  BY DEF CommandInvariant, SlavesKept, IsSlave
<1>4. /\ f.sub = master.LSSSub /\ f.value = master.IDNumber
      /\ f.bit = master.BitChecked /\ f.next = master.LSSNext
  BY <1>1 DEF FastScanFrame
<1> HIDE DEF f, d, e
<1>5. e.mode \in {d.mode, LSS_CONFIGURATION_MODE}
  BY <1>1, <1>2 DEF Steps
<1>6. e.id = d.id
  <2>1. \/ e = d
        \/ e = [d EXCEPT !.LSSPos = 0, !.FastScan_SM = LSS_FS_PROCESSING]
        \/ e = [d EXCEPT !.LSSPos = f.next, !.FastScan_SM = LSS_FS_PROCESSING]
        \/ e = [d EXCEPT !.FastScan_SM = IF f.bit = 0 THEN LSS_FS_CONFIRMATION ELSE @]
        \/ e = [d EXCEPT !.nodeID = d.id, !.mode = LSS_CONFIGURATION_MODE,
                         !.FastScan_SM = LSS_FS_RESET, !.LSSPos = 255]
    BY <1>2 DEF ScanSteps
  <2> QED BY <1>3, <2>1 DEF SlaveFields
<1> QED BY <1>1, <1>2, <1>3, <1>4, <1>5, <1>6 DEF f, d, e

LEMMA SlaveKeepsStarting ==
  ASSUME CommandInvariant, NEW s \in Slaves, proceedLSS_Slave(s),
         asked # <<>>, Last(asked).cs = "IDENT_FASTSCAN", Starting
  PROVE  Starting'
<1> DEFINE f == Head(toSlave[s])
           d == slave[s]
           e == slave'[s]
<1>1. /\ ScanSteps(s, d, e, f) /\ e.id = d.id /\ DOMAIN d = SlaveFields
      /\ f.bit = 128 /\ master' = master /\ toSlave'[s] = <<>>
      /\ \A r \in Slaves \ {s} : toSlave'[r] = toSlave[r] /\ slave'[r] = slave[r]
  BY ScanGoesOn DEF Starting
<1>2. Waits(s) /\ d.mode = LSS_WAITING_MODE
  BY DEF Starting, Waits
<1> HIDE DEF f, d, e
<1>3. \/ e = d /\ ~Candidate(s)
      \/ e = [d EXCEPT !.LSSPos = 0, !.FastScan_SM = LSS_FS_PROCESSING]
  BY <1>1 DEF ScanSteps
<1>4. /\ e.mode = LSS_WAITING_MODE
      /\ Candidate(s) => e.FastScan_SM = LSS_FS_PROCESSING /\ e.LSSPos = 0
  BY <1>1, <1>2, <1>3 DEF SlaveFields
<1>5. Candidate(s)' => Candidate(s)
  BY <1>1 DEF Candidate, d, e
<1> QED BY <1>1, <1>4, <1>5 DEF Starting, Busy, Waits, Candidate, e

LEMMA SlaveKeepsNarrowing ==
  ASSUME CommandInvariant, NEW s \in Slaves, proceedLSS_Slave(s),
         asked # <<>>, Last(asked).cs = "IDENT_FASTSCAN", Narrowing
  PROVE  Narrowing'
<1> DEFINE f == Head(toSlave[s])
           d == slave[s]
           e == slave'[s]
<1>1. /\ ScanSteps(s, d, e, f) /\ e.id = d.id /\ DOMAIN d = SlaveFields
      /\ f.sub = master.LSSSub /\ f.bit = master.BitChecked
      /\ master' = master /\ toSlave[s] # <<>> /\ toSlave'[s] = <<>>
      /\ \A r \in Slaves \ {s} : toSlave'[r] = toSlave[r] /\ slave'[r] = slave[r]
  BY ScanGoesOn
<1>2. Waits(s) /\ d.mode = LSS_WAITING_MODE /\ (Candidate(s) => InField(s))
  BY DEF Narrowing, Waits
<1>3. master.BitChecked \in Nat /\ master.BitChecked # 128
  <2> DEFINE first == FirstBit(master.LSSSub)
  <2>1. first \in 0 .. 127
    BY Constants DEF Narrowing
  <2>2. master.BitChecked \in 0 .. first
    BY DEF Narrowing
  <2> HIDE DEF first
  <2>3. first \in Nat /\ first < 128
    BY <2>1
  <2> QED BY <2>2, <2>3
<1>4. Candidate(s) =>
        /\ d.LSSPos \in 0 .. master.LSSSub
        /\ d.FastScan_SM = IF d.LSSPos = master.LSSSub THEN LSS_FS_PROCESSING ELSE LSS_FS_CONFIRMATION
  BY <1>1, <1>2 DEF InField
<1> HIDE DEF f, d, e
<1>5. \/ e = d /\ (Candidate(s) => d.LSSPos # master.LSSSub)
      \/ /\ d.LSSPos = master.LSSSub
         /\ e = [d EXCEPT !.FastScan_SM = IF f.bit = 0 THEN LSS_FS_CONFIRMATION ELSE @]
  BY <1>1, <1>3, <1>4, StatesDiffer DEF ScanSteps
<1>6. /\ e.mode = LSS_WAITING_MODE /\ e.LSSPos = d.LSSPos
      /\ Candidate(s) => e.FastScan_SM = IF d.LSSPos = master.LSSSub /\ master.BitChecked > 0
                                         THEN LSS_FS_PROCESSING ELSE LSS_FS_CONFIRMATION
  BY <1>1, <1>2, <1>3, <1>4, <1>5 DEF SlaveFields
<1>7. \A r \in Slaves : /\ Candidate(r)' <=> Candidate(r)
                        /\ slave'[r].LSSPos = slave[r].LSSPos
  BY <1>1, <1>6 DEF Candidate, d, e
<1>8. Waits(s)' /\ (Candidate(s)' => InField(s)')
  BY <1>1, <1>4, <1>6, <1>7 DEF Waits, InField, e
<1>9. \A r \in Slaves \ {s} : Waits(r)' /\ (Candidate(r)' => InField(r)')
  BY <1>1 DEF Narrowing, Waits, InField, Candidate
<1>10. Alike'
  <2>1. Alike
    BY DEF Narrowing
  <2> QED BY <1>7, <2>1 DEF Alike
<1> QED BY <1>1, <1>8, <1>9, <1>10 DEF Narrowing, Busy, FoundSoFar

LEMMA SlaveKeepsConfirming ==
  ASSUME CommandInvariant, NEW s \in Slaves, proceedLSS_Slave(s),
         asked # <<>>, Last(asked).cs = "IDENT_FASTSCAN", Confirming
  PROVE  Confirming'
<1> DEFINE f == Head(toSlave[s])
           d == slave[s]
           e == slave'[s]
           sub == master.LSSSub
<1>1. /\ ScanSteps(s, d, e, f) /\ e.id = d.id /\ DOMAIN d = SlaveFields
      /\ f.sub = sub /\ f.value = master.IDNumber
      /\ f.bit = master.BitChecked /\ f.next = master.LSSNext
      /\ master' = master /\ toSlave[s] # <<>> /\ toSlave'[s] = <<>>
      /\ \A r \in Slaves \ {s} : toSlave'[r] = toSlave[r] /\ slave'[r] = slave[r]
      /\ e.mode \in {d.mode, LSS_CONFIGURATION_MODE}
  BY ScanGoesOn
<1>2. /\ f.bit = 0 /\ sub \in Subs /\ Busy /\ master.FastScan_SM = LSS_FS_CONFIRMATION
      /\ f.next = (IF sub < LastSub THEN sub + 1 ELSE LastSub)
      /\ sub \in 0 .. LastSub /\ LastSub \in 0 .. 254
  BY <1>1, Constants DEF Confirming
<1>3. Unconfirmed(s) /\ d.mode = LSS_WAITING_MODE
  BY <1>1 DEF Confirming, Confirmed, Unconfirmed, Waits
<1>4. Candidate(s) => d.FastScan_SM = LSS_FS_CONFIRMATION /\ d.LSSPos \in 0 .. sub
  BY <1>3 DEF Unconfirmed
<1> DEFINE confirms == Candidate(s) /\ d.LSSPos = sub /\ master.IDNumber = Identity[s][sub]
<1> HIDE DEF f, d, e
<1>5. \/ e = d /\ NoNews
      \/ /\ confirms /\ sub = LastSub
         /\ e = [d EXCEPT !.nodeID = d.id, !.mode = LSS_CONFIGURATION_MODE,
                          !.FastScan_SM = LSS_FS_RESET, !.LSSPos = 255]
      \/ /\ confirms /\ sub # LastSub
         /\ e = [d EXCEPT !.LSSPos = f.next, !.FastScan_SM = LSS_FS_PROCESSING]
  BY <1>1, <1>2, <1>4, StatesDiffer DEF ScanSteps
<1>6. \/ e = d /\ NoNews
      \/ /\ confirms /\ sub = LastSub
         /\ e.nodeID = None /\ e.mode = LSS_CONFIGURATION_MODE /\ e.LSSPos = 255
      \/ /\ confirms /\ sub # LastSub
         /\ e.LSSPos = sub + 1 /\ e.FastScan_SM = LSS_FS_PROCESSING /\ e.mode = LSS_WAITING_MODE
  <2>1. Candidate(s) => d.id = None
    BY DEF Candidate, d
  <2>2. sub # LastSub => f.next = sub + 1
    BY <1>2
  <2> HIDE DEF sub
  <2> QED BY <1>1, <1>3, <1>5, <2>1, <2>2 DEF SlaveFields
<1>7. \A r \in Slaves : Candidate(r)' <=> Candidate(r)
  BY <1>1 DEF Candidate, d, e
<1>8. (Candidate(s) /\ Confirmed(s))' \/ Unconfirmed(s)'
  <2>1. CASE e = d
    <3>1. Unconfirmed(s)'
      BY <1>1, <1>3, <2>1 DEF Unconfirmed, Waits, Candidate, d, e
    <3> QED BY <3>1
  <2>2. CASE confirms /\ sub = LastSub /\ e.nodeID = None /\ e.mode = LSS_CONFIGURATION_MODE
             /\ e.LSSPos = 255
    <3>1. Confirmed(s)'
      BY <1>1, <2>2 DEF Confirmed, e
    <3> QED BY <1>7, <2>2, <3>1
  <2>3. CASE /\ confirms /\ sub # LastSub
             /\ e.LSSPos = sub + 1 /\ e.FastScan_SM = LSS_FS_PROCESSING /\ e.mode = LSS_WAITING_MODE
    <3>1. Confirmed(s)'
      BY <1>1, <2>3 DEF Confirmed, Waits, e
    <3> QED BY <1>7, <2>3, <3>1
  <2> QED BY <1>6, <2>1, <2>2, <2>3
<1>9. \A r \in Slaves \ {s} : (Candidate(r) /\ Confirmed(r))' \/ Unconfirmed(r)'
  BY <1>1 DEF Confirming, Confirmed, Unconfirmed, Waits, Candidate
<1>10. sub = LastSub /\ (toMaster' # <<>> \/ master.LSSanswer # 0) => Configuring' # {}
  <2> SUFFICES ASSUME sub = LastSub, toMaster' # <<>> \/ master.LSSanswer # 0
               PROVE  Configuring' # {}
    OBVIOUS
  <2>1. CASE NoNews
    <3>1. PICK r \in Slaves : slave[r].mode = LSS_CONFIGURATION_MODE
      BY <2>1 DEF Confirming, Configuring, NoNews
    <3>2. slave'[r].mode = LSS_CONFIGURATION_MODE
      BY <1>1, <3>1 DEF d, e
    <3> QED BY <3>2 DEF Configuring
  <2>2. CASE e.mode = LSS_CONFIGURATION_MODE
    BY <2>2 DEF Configuring, e
  <2> QED BY <1>6, <2>1, <2>2
<1>11. Alike'
  <2>1. Alike /\ \A r \in Slaves : (Candidate(r) /\ Confirmed(r)) \/ Unconfirmed(r)
    BY DEF Confirming
  <2>2. CASE e = d
    <3>1. \A r \in Slaves : slave'[r].LSSPos = slave[r].LSSPos
      BY <1>1, <2>2 DEF d, e
    <3> QED BY <1>7, <2>1, <3>1 DEF Alike
  <2>3. CASE confirms /\ e.LSSPos \in {255, sub + 1} /\ (sub # LastSub => e.LSSPos = sub + 1)
    <3>1. \A g \in Subs : g \in Nat /\ (g < e.LSSPos => g < sub \/ g = sub)
      <4>1. \A g \in Subs : g \in 0 .. LastSub
        BY Constants
      <4> HIDE DEF sub
      <4> QED BY <1>2, <2>3, <4>1
    <3>2. AgreeAbove(FirstBit(sub) + 1, Identity[s][sub], FS_LSS_ID[sub])
      <4>1. PICK x \in Nat : master.IDNumber = KnownPart(sub) + x /\ x + 1 <= 2^(FirstBit(sub) + 1)
        BY DEF Confirming, FoundSoFar
      <4> QED BY <1>2, <2>3, <4>1, AgreesWithKnown
    <3>3. ASSUME NEW r \in Slaves, Candidate(r), sub < slave[r].LSSPos
          PROVE  Identity[r][sub] = Identity[s][sub]
      <4>1. CASE Confirmed(r)
        BY <2>3, <4>1 DEF Confirmed
      <4>2. CASE Unconfirmed(r)
        <5>1. slave[r].LSSPos \in 0 .. sub
          BY <3>3, <4>2 DEF Unconfirmed
        <5> QED BY <1>2, <3>3, <5>1
      <4> QED BY <2>1, <4>1, <4>2
    <3>4. d.LSSPos = sub /\ Candidate(s)
      BY <2>3
    <3>5. ASSUME NEW r \in Slaves, NEW g \in Subs, Candidate(r), g < slave'[r].LSSPos
          PROVE  /\ AgreeAbove(FirstBit(g) + 1, Identity[r][g], FS_LSS_ID[g])
                 /\ g < slave[r].LSSPos \/ (r = s /\ g = sub)
      <4>1. CASE r # s
        BY <1>1, <2>1, <3>5, <4>1 DEF Alike
      <4>2. CASE r = s
        <5>1. g < sub \/ g = sub
          BY <3>1, <3>5, <4>2 DEF e
        <5>2. g < sub => g < slave[s].LSSPos
          BY <3>4 DEF d
        <5> QED BY <2>1, <3>2, <3>4, <4>2, <5>1, <5>2 DEF Alike
      <4> QED BY <4>1, <4>2
    <3>6. ASSUME NEW r \in Slaves, NEW p \in Slaves, NEW g \in Subs, Candidate(r), Candidate(p),
                 g < slave'[r].LSSPos, g < slave'[p].LSSPos
          PROVE  Identity[r][g] = Identity[p][g]
      <4>1. CASE g < slave[r].LSSPos /\ g < slave[p].LSSPos
        BY <2>1, <3>6, <4>1 DEF Alike
      <4>2. CASE r = s /\ g = sub
        <5>1. p = s \/ sub < slave[p].LSSPos
          BY <3>5, <3>6, <4>2
        <5> QED BY <3>3, <3>6, <4>2, <5>1
      <4>3. CASE p = s /\ g = sub
        <5>1. r = s \/ sub < slave[r].LSSPos
          BY <3>5, <3>6, <4>3
        <5> QED BY <3>3, <3>6, <4>3, <5>1
      <4> QED BY <3>5, <3>6, <4>1, <4>2, <4>3
    <3> QED BY <1>7, <3>5, <3>6 DEF Alike
  <2> QED BY <1>6, <2>2, <2>3
<1>12. (FoundSoFar(1))' /\ Busy'
  BY <1>1, <1>2 DEF Confirming, FoundSoFar, Busy
<1> QED BY <1>1, <1>2, <1>8, <1>9, <1>10, <1>11, <1>12 DEF Confirming

LEMMA SlaveKeepsTruth ==
  ASSUME CommandInvariant, Truth, NEW s \in Slaves, proceedLSS_Slave(s)
  PROVE  Truth'
<1>1. asked' = asked /\ toSlave[s] # <<>>
  BY FrameIsTaken
<1>2. Scans'
  <2> SUFFICES ASSUME asked # <<>>, Last(asked).cs = "IDENT_FASTSCAN" PROVE ScanStage'
    BY <1>1 DEF Scans
  <2>1. Starting \/ Narrowing \/ Confirming
    BY <1>1 DEF Truth, Scans, ScanStage, ScanIsOver
  <2> QED BY <2>1, SlaveKeepsStarting, SlaveKeepsNarrowing, SlaveKeepsConfirming DEF ScanStage
<1> QED BY <1>2, SlaveKeepsSession, SlaveKeepsMasks, SlaveKeepsMeant DEF Truth

\* A slave that switches its bit rate, or is reset, stays where it is in all this.
LEMMA SlaveStays ==
  ASSUME CommandInvariant, Truth, NEW s \in Slaves,
         LssAlarmSDELAY_Slave(s) \/ ResetCommunication(s)
  PROVE  LET d == slave[s]
             e == slave'[s]
         IN  /\ e.mode = d.mode /\ e.addr_sel_match = d.addr_sel_match
             /\ e.addr_ident_match = d.addr_ident_match
             /\ e.FastScan_SM = d.FastScan_SM /\ e.LSSPos = d.LSSPos /\ e.nodeID = d.nodeID
             /\ IdsKept(e)
             /\ Waits(s) \/ d.nodeID = None => (Candidate(s)' <=> Candidate(s))
             /\ Candidate(s)' => Candidate(s)
<1> DEFINE d == slave[s]
           e == slave'[s]
<1>1. DOMAIN slave = Slaves /\ DOMAIN d = SlaveFields
  BY DEF CommandInvariant, SlavesKept, IsSlave
<1>2. IdsKept(d)
  BY DEF Truth, NodeIdsKept, IdsKept, Waits
<1>3. \/ e \in {[d EXCEPT !.switchDelayState = SDELAY_SECOND, !.rate = d.baudRate],
                [d EXCEPT !.switchDelayState = SDELAY_OFF, !.canHandle = d.canHandle_t]}
      \/ e = setNodeId([d EXCEPT !.id = None], d.nodeID)
  BY <1>1 DEF LssAlarmSDELAY_Slave, ResetCommunication
<1> HIDE DEF d, e
<1>4. /\ e.mode = d.mode /\ e.addr_sel_match = d.addr_sel_match
      /\ e.addr_ident_match = d.addr_ident_match
      /\ e.FastScan_SM = d.FastScan_SM /\ e.LSSPos = d.LSSPos /\ e.nodeID = d.nodeID
      /\ \/ e.id = d.id
         \/ e.id = IF d.nodeID \in 1 .. 127 THEN d.nodeID ELSE None
  BY <1>1, <1>3 DEF setNodeId, SlaveFields
<1>5. None \notin 1 .. 127
  BY DEF None
<1>6. IdsKept(e)
  BY <1>2, <1>4, <1>5 DEF IdsKept
<1>7. Waits(s) \/ d.nodeID = None => (Candidate(s)' <=> Candidate(s))
  BY <1>2, <1>4, <1>5 DEF IdsKept, Waits, Candidate, d, e
<1>8. Candidate(s)' => Candidate(s)
  BY <1>2, <1>4, <1>5 DEF IdsKept, Candidate, d, e
<1> QED BY <1>4, <1>6, <1>7, <1>8 DEF d, e

LEMMA SlaveStaysInTruth ==
  ASSUME CommandInvariant, Truth, NEW s \in Slaves,
         LssAlarmSDELAY_Slave(s) \/ ResetCommunication(s)
  PROVE  Truth'
<1>1. /\ UNCHANGED <<master, toSlave, toMaster, plan, asked>>
      /\ \A r \in Slaves \ {s} : slave'[r] = slave[r]
  BY SlaveChanges DEF userVars
<1>2. \A r \in Slaves :
        /\ slave'[r].mode = slave[r].mode
        /\ slave'[r].addr_sel_match = slave[r].addr_sel_match
        /\ slave'[r].addr_ident_match = slave[r].addr_ident_match
        /\ slave'[r].FastScan_SM = slave[r].FastScan_SM /\ slave'[r].LSSPos = slave[r].LSSPos
        /\ slave'[r].nodeID = slave[r].nodeID
        /\ Waits(r) \/ slave[r].nodeID = None => (Candidate(r)' <=> Candidate(r))
        /\ Candidate(r)' => Candidate(r)
  BY <1>1, SlaveStays DEF Candidate
<1>3. \A r \in Slaves : IdsKept(slave'[r])
  BY <1>1, SlaveStays DEF Truth, NodeIdsKept, IdsKept, Waits
<1>4. Sessions'
  BY <1>1, <1>2 DEF Truth, Sessions, Course, NoModeAsked, Released, Waits
<1>5. NodeIdsKept'
  BY <1>1, <1>3 DEF Truth, NodeIdsKept, IdsKept, Waits
<1>6. Masks'
  BY <1>1, <1>2 DEF Truth, Masks, Had, Selected, Identified
<1>7. Configuring' = Configuring
  BY <1>2 DEF Configuring
<1>8. Meant'
  BY <1>1, <1>7 DEF Truth, Meant, IsMeant, Answered, IsSelected, IsIdentified
<1>9. Alike => Alike'
  BY <1>2 DEF Alike
<1>10. Scans'
  <2> SUFFICES ASSUME ScanStage PROVE ScanStage'
    BY <1>1 DEF Truth, Scans
  <2>1. Starting => Starting'
    BY <1>1, <1>2 DEF Starting, Busy, Waits
  <2>2. Narrowing => Narrowing'
    BY <1>1, <1>2, <1>9 DEF Narrowing, Busy, Waits, InField, FoundSoFar
  <2>3. Confirming => Confirming'
    <3> SUFFICES ASSUME Confirming PROVE Confirming'
      OBVIOUS
    <3>1. \A r \in Slaves : ((Candidate(r) /\ Confirmed(r)) \/ Unconfirmed(r))'
      <4> SUFFICES ASSUME NEW r \in Slaves PROVE ((Candidate(r) /\ Confirmed(r)) \/ Unconfirmed(r))'
        OBVIOUS
      <4>1. CASE Unconfirmed(r)
        <5>1. Unconfirmed(r)'
          BY <1>1, <1>2, <4>1 DEF Unconfirmed, Waits
        <5> QED BY <5>1
      <4>2. CASE Candidate(r) /\ Confirmed(r)
        <5>1. Waits(r) \/ slave[r].nodeID = None
          BY <4>2 DEF Confirmed
        <5>2. Candidate(r)' /\ Confirmed(r)'
          BY <1>1, <1>2, <4>2, <5>1 DEF Confirmed, Waits
        <5> QED BY <5>2
      <4> QED BY <4>1, <4>2 DEF Confirming
    <3> QED BY <1>1, <1>7, <1>9, <3>1 DEF Confirming, Busy, FoundSoFar
  <2>4. ScanIsOver => ScanIsOver'
    BY <1>1, <1>2, <1>7 DEF ScanIsOver, Busy, Answered, OneFound
  <2> QED BY <2>1, <2>2, <2>3, <2>4 DEF ScanStage
<1> QED BY <1>4, <1>5, <1>6, <1>8, <1>10 DEF Truth

LEMMA StutterKeepsTruth ==
  ASSUME Truth, UNCHANGED vars
  PROVE  Truth'
<1>1. UNCHANGED <<master, slave, toSlave, toMaster, plan, asked>>
  BY DEF vars, userVars
<1>2. Sessions' /\ NodeIdsKept' /\ Masks' /\ Meant'
  BY <1>1 DEF Truth, Sessions, Course, NoModeAsked, Released, Waits, NodeIdsKept, Masks, Had,
     Selected, Identified, Meant, IsMeant, Answered, Configuring, IsSelected, IsIdentified
<1>3. Scans'
  BY <1>1 DEF Truth, Scans, ScanStage, Starting, Narrowing, Confirming, ScanIsOver, OneFound, Busy,
     Waits, Candidate, InField, Confirmed, Unconfirmed, Alike, FoundSoFar, Answered, Configuring
<1> QED BY <1>2, <1>3 DEF Truth

LEMMA InitIsTrue == Init => Truth
<1> SUFFICES ASSUME Init PROVE Truth
  OBVIOUS
<1>1. asked = <<>> /\ plan = <<>> /\ toMaster = <<>> /\ Len(asked) = 0
  BY DEF Init
<1>2. \A s \in Slaves : /\ toSlave[s] = <<>> /\ slave[s].mode = LSS_WAITING_MODE
                        /\ slave[s].id = InitialId[s]
                        /\ slave[s].nodeID = IF slave[s].id = None THEN 0 ELSE slave[s].id
  BY DEF Init, InitialSlave
<1>3. Sessions
  <2>1. DOMAIN Course = 1 .. 0
    BY <1>1 DEF Course, CourseOf
  <2>2. IsSession(Course)
    BY <2>1 DEF IsSession
  <2> QED BY <1>2, <2>2 DEF Sessions, Released, Waits
<1>4. \A s \in Slaves : InitialId[s] \in 1 .. 127 \cup {None}
  BY LSSAssumption
<1>5. NodeIdsKept
  <2>1. 0 \notin 1 .. 127 /\ None \notin 1 .. 127
    BY DEF None
  <2>2. \A s \in Slaves : IdsKept(slave[s])
    BY <1>2, <1>4, <2>1 DEF IdsKept
  <2> QED BY <1>1, <2>2 DEF NodeIdsKept, IdsKept, Waits
<1>6. Masks /\ Meant /\ Scans
  BY <1>1 DEF Masks, Meant, Scans
<1> QED BY <1>3, <1>5, <1>6 DEF Truth

LEMMA StepKeepsTruth ==
  ASSUME CommandInvariant, Truth, [Next]_vars, ~Lose, ~SendFails
  PROVE  Truth'
<1>1. CASE MasterAlarms
  BY <1>1, AlarmMSGKeepsTruth, AlarmFSKeepsTruth, DelayKeepsTruth DEF MasterAlarms
<1> QED
  BY <1>1, BeginKeepsTruth, CommandKeepsTruth, BreakOffKeepsTruth, AnswerKeepsTruth, SlaveKeepsTruth,
     SlaveStaysInTruth, StutterKeepsTruth DEF Next

(***************************************************************************)
(* Without losses the masks of a slave hold what is true of it, and a scan *)
(* narrows down to one identity.                                           *)
(***************************************************************************)
THEOREM AnswerIsInvariant == Spec => []AnswerInvariant
<1>1. Init => AnswerInvariant
  BY InitCommands, InitIsTrue DEF AnswerInvariant
<1>2. AnswerInvariant /\ [Next]_vars => AnswerInvariant'
  <2> SUFFICES ASSUME AnswerInvariant, [Next]_vars PROVE AnswerInvariant'
    OBVIOUS
  <2>1. CommandInvariant'
    BY BeginKeeps, CommandKeeps, BreakOffKeeps, AnswerKeeps, MasterAlarmsKeep, SlaveKeeps,
       SlaveAlarmsKeep, LoseKeeps, SendFailsKeeps, CommandStutters DEF Next, AnswerInvariant
  <2>2. ASSUME losses' = 0
        PROVE  Truth'
    <3>1. ~Lose /\ ~SendFails
      BY <2>2, LoseKeeps, SendFailsKeeps DEF AnswerInvariant
    <3>2. losses' = losses
      BY <3>1, LossesStay DEF AnswerInvariant
    <3> QED BY <2>2, <3>1, <3>2, StepKeepsTruth DEF AnswerInvariant
  <2> QED BY <2>1, <2>2 DEF AnswerInvariant
<1> QED BY <1>1, <1>2, PTL DEF Spec

(***************************************************************************)
(* Unless frames are lost, what the master takes for an answer is true:    *)
(* one slave of those looked for has been found, the one of that identity  *)
(* is selected, and there is one that passes what was asked.               *)
(***************************************************************************)
THEOREM AnswersAreRight == Spec => []AnswersAreTrue
<1>1. AnswerInvariant => AnswersAreTrue
  <2> SUFFICES ASSUME AnswerInvariant, losses = 0 PROVE ScanFindsOneSlave /\ AnswerNamesASlave
    BY DEF AnswersAreTrue
  <2>1. Truth
    BY DEF AnswerInvariant
  <2>2. ScanFindsOneSlave
    <3> SUFFICES ASSUME Answered("IDENT_FASTSCAN") PROVE OneFound
      BY DEF ScanFindsOneSlave, OneFound, Candidate
    <3>1. ScanStage /\ ~Busy
      BY <2>1, StatesDiffer DEF Truth, Scans, Answered, Busy
    <3> QED BY <3>1 DEF ScanStage, Starting, Narrowing, Confirming, ScanIsOver
  <2>3. AnswerNamesASlave
    BY <2>1 DEF Truth, Meant, IsMeant, Answered, AnswerNamesASlave, IdentTests
  <2> QED BY <2>2, <2>3
<1> QED BY <1>1, AnswerIsInvariant, PTL

-----------------------------------------------------------------------------
(***************************************************************************)
(* Who has which node id.                                                  *)
(***************************************************************************)
\* The node id of a slave and the one it will take.
OwnIds(d) == {d.id, d.nodeID} \cap (1 .. 127)

GivenIds == {InitialId[s] : s \in Slaves} \cup {NodeIds[i] : i \in 1 .. given}

CobFollows(d) == d.id # None => d.cob \in {d.id, Custom}

IdsOwned ==
  \A s \in Slaves : /\ OwnIds(slave[s]) \subseteq GivenIds
                    /\ \A r \in Slaves \ {s} : OwnIds(slave[s]) \cap OwnIds(slave[r]) = {}

\* An id on its way is new, and is for the one slave in configuration mode.
Gives(c, s) ==
  \/ slave[s].mode # LSS_CONFIGURATION_MODE /\ c.value \notin OwnIds(slave[s])
  \/ Configuring = {s}

IdsOnTheirWay ==
  /\ asked = <<>> =>
       \A s \in Slaves : toSlave[s] = <<>> \/ Head(toSlave[s]).cs # "CONF_NODE_ID"
  /\ asked # <<>> /\ Last(asked).cs = "CONF_NODE_ID" =>
       Last(asked).value \in GivenIds /\ \A s \in Slaves : Gives(Last(asked), s)

GivesWell(q) ==
  \A i \in DOMAIN q : q[i].cs = "CONF_NODE_ID" =>
    AfterScan(q, i) \/ (MaxExtras <= 1 /\ AfterSelection(q, i))

Selects(q) == \E i \in DOMAIN q : q[i].cs = "SM_SELECTIVE"
Scanned(q) == \E i \in DOMAIN q : q[i].cs = "IDENT_FASTSCAN"

\* The slave has been asked whether it has this in the field.
AskedFor(s, f, i) == Had(s, i) /\ asked[i].cs = "SM_SELECTIVE" /\ asked[i].sub = f

\* The only selection there is: no mask is of an earlier one.
FirstSelection ==
  /\ extras = 0 => ~Selects(Course) /\ \A s \in Slaves : slave[s].addr_sel_match = {}
  /\ Selects(Course) /\ ~Scanned(Course) =>
       \A s \in Slaves :
         /\ \A f \in slave[s].addr_sel_match : \E i \in 1 .. Len(asked) : AskedFor(s, f, i)
         /\ asked # <<>> /\ Last(asked).cs # "SM_GLOBAL" /\ s \in Configuring =>
              \A f \in Subs : \E i \in 1 .. Len(asked) :
                AskedFor(s, f, i) /\ asked[i].value = Identity[s][f]

ScanEnds ==
  asked # <<>> /\ Last(asked).cs = "IDENT_FASTSCAN" /\ ~Busy =>
    master.state \in {LSS_FINISHED, LSS_ABORTED_INTERNAL}

Ids ==
  IdsOwned /\ IdsOnTheirWay /\ GivesWell(Course) /\ ScanEnds /\ (MaxExtras <= 1 => FirstSelection)

IdInvariant ==
  /\ AnswerInvariant /\ extras \in Nat
  /\ \A s \in Slaves : CobFollows(slave[s])
  /\ losses = 0 => Ids

-----------------------------------------------------------------------------
(***************************************************************************)
(* What a slave does with node ids.                                        *)
(***************************************************************************)
OwnsNoMore(d, e) == OwnIds(e) \subseteq OwnIds(d) /\ (CobFollows(d) => CobFollows(e))

LEMMA SameIds ==
  ASSUME NEW d, NEW e, e.id = d.id, e.cob = d.cob, e.nodeID \in {d.nodeID, d.id}
  PROVE  OwnsNoMore(d, e)
BY DEF OwnsNoMore, OwnIds, CobFollows

\* The id that waits is taken, and the COB-ids follow it.
LEMMA IdIsTaken ==
  ASSUME NEW d, NEW x, DOMAIN x = SlaveFields, x.id = None, x.nodeID = d.nodeID,
         NEW e, e = setNodeId(x, d.nodeID)
  PROVE  OwnsNoMore(d, e) /\ DOMAIN e = SlaveFields
<1>1. CASE d.nodeID \in 1 .. 127
  <2>1. e.id = d.nodeID /\ e.nodeID = d.nodeID /\ e.cob = d.nodeID /\ DOMAIN e = SlaveFields
    BY <1>1 DEF setNodeId, Follows, SlaveFields
  <2> QED BY <2>1 DEF OwnsNoMore, OwnIds, CobFollows
<1>2. CASE d.nodeID \notin 1 .. 127
  <2>1. e.id = None /\ e.nodeID = d.nodeID /\ DOMAIN e = SlaveFields
    BY <1>2 DEF setNodeId, SlaveFields
  <2>2. None \notin 1 .. 127
    BY DEF None
  <2> QED BY <1>2, <2>1, <2>2 DEF OwnsNoMore, OwnIds, CobFollows
<1> QED BY <1>1, <1>2

LEMMA SwitchOwns ==
  ASSUME CommandInvariant, NEW s \in Slaves, SwitchMode(s)
  PROVE  OwnsNoMore(slave[s], slave'[s])
<1> DEFINE f == Head(toSlave[s])
           d == slave[s]
           e == slave'[s]
<1>1. DOMAIN d = SlaveFields
  BY DEF CommandInvariant, SlavesKept, IsSlave
<1>2. e = IF f.value = d.mode THEN d
          ELSE IF f.value = LSS_CONFIGURATION_MODE THEN [d EXCEPT !.mode = f.value]
          ELSE LeavesForMode(d, f.value)
  BY SaysNothing DEF SwitchMode
<1> HIDE DEF f, d, e
<1>3. CASE e \in {d, [d EXCEPT !.mode = f.value]}
  <2>1. e.id = d.id /\ e.cob = d.cob /\ e.nodeID = d.nodeID
    BY <1>1, <1>3 DEF SlaveFields
  <2>2. OwnsNoMore(d, e)
    BY <2>1, SameIds
  <2> QED BY <2>2 DEF d, e
<1>4. CASE e = LeavesForMode(d, f.value) /\ d.id # None
  <2>1. e.id = d.id /\ e.cob = d.cob /\ e.nodeID = d.nodeID
    BY <1>1, <1>4 DEF SlaveFields, LeavesForMode, NewIdOnWaiting
  <2>2. OwnsNoMore(d, e)
    BY <2>1, SameIds
  <2> QED BY <2>2 DEF d, e
<1>5. CASE e = LeavesForMode(d, f.value) /\ d.id = None
  <2> DEFINE x == setNodeId(d, d.nodeID)
  <2>1. OwnsNoMore(d, x) /\ DOMAIN x = SlaveFields
    BY <1>1, <1>5, IdIsTaken
  <2>2. e = [x EXCEPT !.mode = f.value]
    BY <1>5 DEF LeavesForMode, NewIdOnWaiting
  <2> HIDE DEF x
  <2>3. e.id = x.id /\ e.cob = x.cob /\ e.nodeID = x.nodeID
    BY <2>1, <2>2 DEF SlaveFields
  <2>4. OwnsNoMore(d, e)
    BY <2>1, <2>3 DEF OwnsNoMore, OwnIds, CobFollows
  <2> QED BY <2>4 DEF d, e
<1> QED BY <1>2, <1>3, <1>4, <1>5

\* Only a slave in configuration mode gets an id it did not have.
LEMMA SlaveOwns ==
  ASSUME CommandInvariant, NEW s \in Slaves, proceedLSS_Slave(s)
  PROVE  LET f == Head(toSlave[s])
             d == slave[s]
             e == slave'[s]
         IN  /\ CobFollows(d) => CobFollows(e)
             /\ \/ OwnIds(e) \subseteq OwnIds(d)
                \/ /\ f.cs = "CONF_NODE_ID" /\ d.mode = LSS_CONFIGURATION_MODE
                   /\ OwnIds(e) \subseteq OwnIds(d) \cup {f.value}
<1> DEFINE f == Head(toSlave[s])
           d == slave[s]
           e == slave'[s]
<1>1. DOMAIN d = SlaveFields
  BY DEF CommandInvariant, SlavesKept, IsSlave
<1>2. ASSUME NEW x, NEW answers, SlaveDoes(s, x, answers)
      PROVE  e = x
  BY <1>2, SaysNothing
<1>3. CASE SwitchMode(s)
  BY <1>3, SwitchOwns DEF OwnsNoMore
<1>4. CASE Configure(s)
  <2>1. \/ e \in {d, [d EXCEPT !.baudRate = f.value]}
        \/ /\ e = [d EXCEPT !.nodeID = f.value]
           /\ f.cs = "CONF_NODE_ID" /\ d.mode = LSS_CONFIGURATION_MODE
    BY <1>2, <1>4 DEF Configure, BitTimingChosen, SlaveGets
  <2> HIDE DEF f, d, e
  <2>2. /\ e.id = d.id /\ e.cob = d.cob
        /\ \/ e.nodeID = d.nodeID
           \/ e.nodeID = f.value /\ f.cs = "CONF_NODE_ID" /\ d.mode = LSS_CONFIGURATION_MODE
    BY <1>1, <2>1 DEF SlaveFields
  <2>3. CobFollows(d) => CobFollows(e)
    BY <2>2 DEF CobFollows
  <2>4. \/ OwnIds(e) \subseteq OwnIds(d)
        \/ /\ f.cs = "CONF_NODE_ID" /\ d.mode = LSS_CONFIGURATION_MODE
           /\ OwnIds(e) \subseteq OwnIds(d) \cup {f.value}
    BY <2>2 DEF OwnIds
  <2> QED BY <2>3, <2>4 DEF f, d, e
<1>5. CASE \/ AnswerInquiry(s) \/ ActivateBitTiming(s) \/ IdentifyNonConfigured(s)
           \/ SelectMode(s) \/ IdentifyRemote(s) \/ FastScanAnswer(s)
  <2>1. e.id = d.id /\ e.cob = d.cob /\ e.nodeID \in {d.nodeID, d.id}
    <3>1. CASE AnswerInquiry(s) \/ ActivateBitTiming(s) \/ IdentifyNonConfigured(s)
      <4>1. e \in {d, [PutAside(d) EXCEPT !.switchDelay = f.value, !.switchDelayState = SDELAY_FIRST]}
        BY <1>2, <3>1 DEF AnswerInquiry, ActivateBitTiming, IdentifyNonConfigured
      <4> HIDE DEF f, d, e
      <4> QED BY <1>1, <4>1 DEF SlaveFields, PutAside
    <3>2. CASE SelectMode(s)
      <4> DEFINE match == Match(d.addr_sel_match, f.value = Identity[s][f.sub], f.sub)
      <4>1. e \in {d, [d EXCEPT !.addr_sel_match = match],
                   [d EXCEPT !.addr_sel_match = {}, !.nodeID = d.id, !.mode = LSS_CONFIGURATION_MODE]}
        BY <1>2, <3>2 DEF SelectMode
      <4> HIDE DEF f, d, e, match
      <4> QED BY <1>1, <4>1 DEF SlaveFields
    <3>3. CASE IdentifyRemote(s)
      <4> DEFINE match == Match(d.addr_ident_match, Passes(f.cs, f.value, Identity[s][f.sub]),
                                <<f.cs, f.sub>>)
      <4>1. e \in {[d EXCEPT !.addr_ident_match = match], [d EXCEPT !.addr_ident_match = {}]}
        BY <1>2, <3>3 DEF IdentifyRemote
      <4> HIDE DEF f, d, e, match
      <4> QED BY <1>1, <4>1 DEF SlaveFields
    <3>4. CASE FastScanAnswer(s)
      <4>1. ScanSteps(s, d, e, f)
        BY <3>4, FastScanSteps
      <4> HIDE DEF f, d, e
      <4>2. \/ e = d
            \/ e = [d EXCEPT !.LSSPos = 0, !.FastScan_SM = LSS_FS_PROCESSING]
            \/ e = [d EXCEPT !.LSSPos = f.next, !.FastScan_SM = LSS_FS_PROCESSING]
            \/ e = [d EXCEPT !.FastScan_SM = IF f.bit = 0 THEN LSS_FS_CONFIRMATION ELSE @]
            \/ e = [d EXCEPT !.nodeID = d.id, !.mode = LSS_CONFIGURATION_MODE,
                             !.FastScan_SM = LSS_FS_RESET, !.LSSPos = 255]
        BY <4>1 DEF ScanSteps
      <4> QED BY <1>1, <4>2 DEF SlaveFields
    <3> QED BY <1>5, <3>1, <3>2, <3>3, <3>4
  <2>2. OwnsNoMore(d, e)
    BY <2>1, SameIds
  <2> QED BY <2>2 DEF OwnsNoMore
<1> QED BY <1>3, <1>4, <1>5 DEF proceedLSS_Slave

LEMMA StaysOwner ==
  ASSUME CommandInvariant, NEW s \in Slaves,
         LssAlarmSDELAY_Slave(s) \/ ResetCommunication(s)
  PROVE  OwnsNoMore(slave[s], slave'[s])
<1> DEFINE d == slave[s]
           e == slave'[s]
<1>1. DOMAIN slave = Slaves /\ DOMAIN d = SlaveFields
  BY DEF CommandInvariant, SlavesKept, IsSlave
<1>2. \/ e \in {[d EXCEPT !.switchDelayState = SDELAY_SECOND, !.rate = d.baudRate],
                [d EXCEPT !.switchDelayState = SDELAY_OFF, !.canHandle = d.canHandle_t]}
      \/ e = setNodeId([d EXCEPT !.id = None], d.nodeID)
  BY <1>1 DEF LssAlarmSDELAY_Slave, ResetCommunication
<1> HIDE DEF d, e
<1>3. CASE e \in {[d EXCEPT !.switchDelayState = SDELAY_SECOND, !.rate = d.baudRate],
                  [d EXCEPT !.switchDelayState = SDELAY_OFF, !.canHandle = d.canHandle_t]}
  <2>1. e.id = d.id /\ e.cob = d.cob /\ e.nodeID = d.nodeID
    BY <1>1, <1>3 DEF SlaveFields
  <2>2. OwnsNoMore(d, e)
    BY <2>1, SameIds
  <2> QED BY <2>2 DEF d, e
<1>4. CASE e = setNodeId([d EXCEPT !.id = None], d.nodeID)
  <2> DEFINE x == [d EXCEPT !.id = None]
  <2>1. DOMAIN x = SlaveFields /\ x.id = None /\ x.nodeID = d.nodeID
    BY <1>1 DEF SlaveFields
  <2> HIDE DEF x
  <2>2. OwnsNoMore(d, e)
    BY <1>4, <2>1, IdIsTaken DEF x
  <2> QED BY <2>2 DEF d, e
<1> QED BY <1>2, <1>3, <1>4

-----------------------------------------------------------------------------
(***************************************************************************)
(* What the user does about node ids.                                      *)
(***************************************************************************)
LEMMA SameServices ==
  ASSUME NEW q, NEW r, NEW n \in Nat, DOMAIN q = 1 .. n, DOMAIN r = DOMAIN q,
         \A i \in DOMAIN q : r[i].cs = q[i].cs /\ r[i].sub = q[i].sub
  PROVE  /\ GivesWell(q) => GivesWell(r)
         /\ Selects(q) <=> Selects(r)
         /\ Scanned(q) <=> Scanned(r)
<1>1. ASSUME NEW i \in DOMAIN q
      PROVE  /\ AfterScan(q, i) => AfterScan(r, i)
             /\ AfterSelection(q, i) => AfterSelection(r, i)
  <2>1. i \in 1 .. n /\ (i = 2 => 1 \in DOMAIN q) /\ 1 .. i - 1 \subseteq DOMAIN q
    OBVIOUS
  <2>2. AfterScan(q, i) => AfterScan(r, i)
    BY <2>1 DEF AfterScan
  <2>3. AfterSelection(q, i) => AfterSelection(r, i)
    BY <2>1 DEF AfterSelection
  <2> QED BY <2>2, <2>3
<1>2. GivesWell(q) => GivesWell(r)
  BY <1>1 DEF GivesWell
<1> QED BY <1>2 DEF Selects, Scanned

\* An id is given after a service that changes the mode, and before its end.
LEMMA IdIsNotLast ==
  ASSUME NEW q, NEW n \in Nat, DOMAIN q = 1 .. n, IsSession(q), GivesWell(q),
         NEW i \in DOMAIN q, q[i].cs = "CONF_NODE_ID"
  PROVE  i < n /\ Releases(q[n])
<1>1. \E j \in DOMAIN q : q[j].cs \in ModeServices
  <2>1. CASE AfterScan(q, i)
    <3>1. 1 \in DOMAIN q
      BY <2>1 DEF AfterScan
    <3> QED BY <2>1, <3>1 DEF AfterScan, ModeServices
  <2>2. CASE AfterSelection(q, i)
    <3>1. PICK j \in 1 .. i - 1 : q[j].cs = "SM_SELECTIVE"
      BY <2>2, Constants DEF AfterSelection
    <3>2. j \in DOMAIN q
      OBVIOUS
    <3> QED BY <3>1, <3>2 DEF ModeServices
  <2> QED BY <2>1, <2>2 DEF GivesWell
<1>2. PICK j \in DOMAIN q : IsEnd(q, j) /\ Releases(q[j])
  BY <1>1 DEF IsSession
<1>3. j = n
  BY <1>2 DEF IsEnd
<1>4. i # n
  BY <1>2, <1>3 DEF Releases
<1> QED BY <1>2, <1>3, <1>4

LEMMA ScanGivesWell == GivesWell(ScanAndConfigure) /\ ~Selects(ScanAndConfigure)
<1> DEFINE q == ScanAndConfigure
<1>1. /\ DOMAIN q = 1 .. 4
      /\ q[1].cs = "IDENT_FASTSCAN" /\ q[2].cs = "CONF_NODE_ID" /\ q[3].cs = "CONF_STORE"
      /\ q[4].cs = "SM_GLOBAL"
  <2>1. DOMAIN ScanAndConfigure = 1 .. 4
    BY DEF ScanAndConfigure
  <2> QED BY <2>1, ScanIsCommands, TheCommands
<1> HIDE DEF q
<1>2. \A i \in DOMAIN q : i \in {1, 2, 3, 4}
  BY <1>1
<1>3. GivesWell(q) /\ ~Selects(q)
  BY <1>1, <1>2 DEF GivesWell, Selects, AfterScan
<1> QED BY <1>3 DEF q

LEMMA InitOwns ==
  ASSUME IdsAreGivenOnce, Init
  PROVE  extras \in Nat /\ (\A s \in Slaves : CobFollows(slave[s])) /\ Ids
<1>1. /\ asked = <<>> /\ plan = <<>> /\ extras = 0 /\ \A s \in Slaves : toSlave[s] = <<>>
  BY DEF Init
<1>2. \A s \in Slaves : /\ slave[s].id = InitialId[s] /\ slave[s].cob = InitialCob[s]
                        /\ slave[s].nodeID = IF InitialId[s] = None THEN 0 ELSE InitialId[s]
                        /\ slave[s].addr_sel_match = {}
  BY DEF Init, InitialSlave
<1>3. \A s \in Slaves : InitialCob[s] \in {InitialId[s], Custom}
  BY LSSAssumption
<1>4. \A s \in Slaves : CobFollows(slave[s])
  BY <1>2, <1>3 DEF CobFollows
<1>5. \A s \in Slaves : OwnIds(slave[s]) = IF InitialId[s] = None THEN {} ELSE {InitialId[s]} \cap (1 .. 127)
  <2>1. 0 \notin 1 .. 127 /\ None \notin 1 .. 127
    BY DEF None
  <2> QED BY <1>2, <2>1 DEF OwnIds
<1>6. IdsOwned
  BY <1>5 DEF IdsAreGivenOnce, IdsOwned, GivenIds
<1>7. DOMAIN Course = {}
  BY <1>1 DEF Course, CourseOf
<1> QED BY <1>1, <1>2, <1>4, <1>6, <1>7
        DEF Ids, IdsOnTheirWay, GivesWell, Selects, ScanEnds, FirstSelection

LEMMA BeginKeepsIds ==
  ASSUME IdsAreGivenOnce, CommandInvariant, Truth, Ids, extras \in Nat, Begin
  PROVE  Ids' /\ extras' \in Nat /\ slave' = slave
<1>1. /\ plan = <<>> /\ asked' = <<>> /\ UNCHANGED <<master, slave, toSlave, toMaster, given>>
      /\ \/ plan' = ScanAndConfigure /\ extras' = extras
         \/ plan' \in Extras /\ extras < MaxExtras /\ extras' = extras + 1
  BY DEF Begin
<1>2. Plans /\ Plans'
  BY BeginKeeps DEF CommandInvariant
<1>3. DOMAIN Course' = DOMAIN plan' /\ \A i \in DOMAIN plan' : Course'[i] = plan'[i]
  <2>1. /\ Len(asked') = 0 /\ Len(plan') \in Nat
        /\ DOMAIN Course' = 1 .. Len(asked') + Len(plan')
        /\ \A i \in 1 .. Len(plan') : Course'[Len(asked') + i] = plan'[i]
    BY <1>1, <1>2, TheCourse DEF Plans, Course
  <2>2. DOMAIN plan' = 1 .. Len(plan')
    BY <1>2, LengthOfCommands DEF Plans
  <2> QED BY <2>1, <2>2
<1>4. Len(plan') \in Nat /\ DOMAIN plan' = 1 .. Len(plan')
  BY <1>2, LengthOfCommands DEF Plans
<1>5. GivesWell(plan')
  BY <1>1, ScanGivesWell DEF IdsAreGivenOnce, GivesWell
<1>6. GivesWell(Course') /\ (Selects(Course') <=> Selects(plan'))
  BY <1>3, <1>4, <1>5, SameServices
<1>7. IdsOwned'
  BY <1>1 DEF Ids, IdsOwned, GivenIds
<1>8. IdsOnTheirWay'
  <2> SUFFICES ASSUME NEW s \in Slaves, toSlave[s] # <<>>, Head(toSlave[s]).cs = "CONF_NODE_ID"
               PROVE  FALSE
    BY <1>1 DEF IdsOnTheirWay
  <2>1. asked # <<>>
    BY DEF Ids, IdsOnTheirWay
  <2>2. Last(asked).cs = "CONF_NODE_ID"
    <3>1. Head(toSlave[s]) = Current
      BY <2>1, FrameOnItsWay DEF CommandInvariant
    <3> QED BY <3>1 DEF Current, Frame, FastScanFrame
  <2> DEFINE n == Len(asked)
  <2>3. /\ n \in Nat /\ n # 0 /\ Last(asked) = asked[n] /\ Len(plan) = 0
        /\ DOMAIN Course = 1 .. n + Len(plan)
        /\ \A i \in 1 .. n : Course[i] = asked[i]
    BY <1>1, <1>2, <2>1, TheCourse DEF Plans, Course
  <2> HIDE DEF n
  <2>4. DOMAIN Course = 1 .. n /\ n \in DOMAIN Course /\ Course[n].cs = "CONF_NODE_ID"
    BY <2>2, <2>3
  <2>5. IsSession(Course) /\ GivesWell(Course)
    BY DEF Truth, Sessions, Ids
  <2>6. n < n
    BY <2>3, <2>4, <2>5, IdIsNotLast
  <2> QED BY <2>3, <2>6
<1>9. ScanEnds'
  BY <1>1 DEF ScanEnds
<1>10. ASSUME MaxExtras <= 1
       PROVE  FirstSelection'
  <2>1. FirstSelection
    BY <1>10 DEF Ids
  <2>2. CASE plan' = ScanAndConfigure /\ extras' = extras
    <3>1. ~Selects(Course')
      BY <1>6, <2>2, ScanGivesWell
    <3> QED BY <1>1, <2>1, <2>2, <3>1 DEF FirstSelection
  <2>3. CASE extras < MaxExtras /\ extras' = extras + 1
    <3>1. extras = 0 /\ extras' # 0
      <4>1. MaxExtras \in Nat
        BY LSSAssumption
      <4> QED BY <1>10, <2>3, <4>1
    <3>2. \A s \in Slaves : slave'[s].addr_sel_match = {}
      BY <1>1, <2>1, <3>1 DEF FirstSelection
    <3> QED BY <1>1, <3>1, <3>2 DEF FirstSelection
  <2> QED BY <1>1, <2>2, <2>3
<1> QED BY <1>1, <1>6, <1>7, <1>8, <1>9, <1>10 DEF Ids

LEMMA BreakOffKeepsIds ==
  ASSUME CommandInvariant, Truth, Ids, BreakOff
  PROVE  Ids' /\ extras' = extras /\ slave' = slave
<1>1. /\ plan' = <<SMGlobal(LSS_WAITING_MODE)>> /\ asked' = asked /\ asked # <<>>
      /\ UNCHANGED <<master, slave, toSlave, toMaster, given, extras>>
  BY DEF BreakOff, Failed, bounds
<1>2. Plans /\ Plans'
  BY BreakOffKeeps DEF CommandInvariant
<1> DEFINE n == Len(asked)
           leave == SMGlobal(LSS_WAITING_MODE)
           q == Course
           r == Course'
<1>3. /\ n \in Nat /\ n # 0 /\ Len(plan) \in Nat /\ DOMAIN q = 1 .. n + Len(plan)
      /\ \A i \in 1 .. n : q[i] = asked[i]
  BY <1>1, <1>2, TheCourse DEF Plans, Course
<1>4. Len(plan') = 1 /\ plan'[1] = leave
  <2>1. Len(<<leave>>) = 1 /\ <<leave>>[1] = leave
    BY OneCommand, TheCommands
  <2> QED BY <1>1, <2>1
<1>5. /\ DOMAIN r = 1 .. n + 1
      /\ \A i \in 1 .. n : r[i] = asked[i]
      /\ r[n + 1] = leave
  <2>1. /\ DOMAIN r = 1 .. Len(asked') + Len(plan')
        /\ \A i \in 1 .. Len(asked') : r[i] = asked'[i]
        /\ \A i \in 1 .. Len(plan') : r[Len(asked') + i] = plan'[i]
    BY <1>2, TheCourse DEF Plans, Course
  <2> HIDE DEF r, leave
  <2> QED BY <1>1, <1>3, <1>4, <2>1
<1>6. leave.cs = "SM_GLOBAL"
  BY TheCommands
<1>7. IsSession(q) /\ GivesWell(q)
  BY DEF Truth, Sessions, Ids
<1> HIDE DEF n, leave, q, r
<1>8. \A i \in 1 .. n : i \in DOMAIN q /\ i \in DOMAIN r /\ r[i] = q[i] /\ r[i].cs = q[i].cs
  BY <1>3, <1>5
<1>9. \A i \in DOMAIN r : i \in 1 .. n \/ (i = n + 1 /\ r[i].cs = "SM_GLOBAL")
  BY <1>3, <1>5, <1>6
<1>10. GivesWell(r)
  <2> SUFFICES ASSUME NEW i \in DOMAIN r, r[i].cs = "CONF_NODE_ID"
               PROVE  AfterScan(r, i) \/ (MaxExtras <= 1 /\ AfterSelection(r, i))
    BY DEF GivesWell
  <2>1. i \in 1 .. n /\ q[i].cs = "CONF_NODE_ID" /\ i \in DOMAIN q
    BY <1>8, <1>9
  <2>2. CASE AfterScan(q, i)
    <3>1. i = 2 /\ 1 \in 1 .. n
      BY <1>3, <2>1, <2>2 DEF AfterScan
    <3> QED BY <1>8, <2>2, <3>1 DEF AfterScan
  <2>3. CASE MaxExtras <= 1 /\ AfterSelection(q, i)
    <3>1. \A j \in DOMAIN r : r[j].cs # "IDENT_FASTSCAN"
      BY <1>8, <1>9, <2>3 DEF AfterSelection
    <3>2. \A j \in 1 .. i - 1 : j \in 1 .. n
      BY <1>3, <2>1
    <3> QED BY <1>8, <2>3, <3>1, <3>2 DEF AfterSelection
  <2> QED BY <1>7, <2>1, <2>2, <2>3 DEF GivesWell
<1>11. Selects(r) => Selects(q)
  BY <1>8, <1>9 DEF Selects
<1>12. Scanned(q) => Scanned(r)
  <2> SUFFICES ASSUME NEW i \in DOMAIN q, q[i].cs = "IDENT_FASTSCAN" PROVE Scanned(r)
    BY DEF Scanned
  <2>1. i = 1
    BY <1>7 DEF IsSession
  <2>2. i \in 1 .. n
    BY <1>3, <2>1
  <2> QED BY <1>8, <2>2 DEF Scanned
<1>13. IdsOwned' /\ IdsOnTheirWay' /\ ScanEnds'
  BY <1>1 DEF Ids, IdsOwned, IdsOnTheirWay, GivenIds, Gives, Configuring, ScanEnds, Busy
<1>14. FirstSelection => FirstSelection'
  <2> SUFFICES ASSUME FirstSelection PROVE FirstSelection'
    OBVIOUS
  <2>1. extras' = 0 => ~Selects(r) /\ \A s \in Slaves : slave'[s].addr_sel_match = {}
    BY <1>1, <1>11 DEF FirstSelection, q
  <2>2. Selects(r) /\ ~Scanned(r) => Selects(q) /\ ~Scanned(q)
    BY <1>11, <1>12
  <2>3. UNCHANGED <<slave, asked, Configuring>>
        /\ \A s, f, i : AskedFor(s, f, i)' = AskedFor(s, f, i)
    BY <1>1 DEF Configuring, AskedFor, Had
  <2> QED BY <2>1, <2>2, <2>3 DEF FirstSelection, q, r
<1> QED BY <1>1, <1>10, <1>13, <1>14 DEF Ids, r

\* Of those that were selected by all fields there is one.
LEMMA OneIsSelected ==
  ASSUME CommandInvariant, Truth, FirstSelection, Selects(Course), ~Scanned(Course),
         asked # <<>>, Last(asked).cs # "SM_GLOBAL",
         NEW s \in Configuring, NEW r \in Configuring
  PROVE  s = r
<1>1. s \in Slaves /\ r \in Slaves
  BY DEF Configuring
<1>2. \A i \in 1 .. Len(asked) : i \in DOMAIN Course /\ Course[i] = asked[i]
  BY TheCourse DEF CommandInvariant, Plans, Course
<1>3. IsSession(Course)
  BY DEF Truth, Sessions
<1>4. ASSUME NEW f \in Subs
      PROVE  Identity[s][f] = Identity[r][f]
  <2>1. PICK i \in 1 .. Len(asked) : AskedFor(s, f, i) /\ asked[i].value = Identity[s][f]
    BY <1>1 DEF FirstSelection
  <2>2. PICK j \in 1 .. Len(asked) : AskedFor(r, f, j) /\ asked[j].value = Identity[r][f]
    BY <1>1 DEF FirstSelection
  <2>3. /\ i \in DOMAIN Course /\ Course[i].cs = "SM_SELECTIVE" /\ Course[i].sub = f
        /\ j \in DOMAIN Course /\ Course[j].cs = "SM_SELECTIVE" /\ Course[j].sub = f
    BY <1>2, <2>1, <2>2 DEF AskedFor
  <2>4. i = j
    BY <1>3, <2>3 DEF IsSession
  <2> QED BY <2>1, <2>2, <2>4
<1> QED BY <1>1, <1>4, Constants

\* When an id is given there is at most one slave in configuration mode.
LEMMA OneConfiguring ==
  ASSUME CommandInvariant, Truth, Ids, configNetworkNode, Head(plan).cs = "CONF_NODE_ID",
         NEW s \in Configuring
  PROVE  Configuring = {s}
<1> DEFINE n == Len(asked)
           N == n + Len(plan)
<1>1. /\ ~Busy /\ plan # <<>> /\ Head(plan) = plan[1]
      /\ (Failed => Len(plan) = 1)
  BY CommandIsGiven DEF configNetworkNode
<1>2. /\ n \in Nat /\ Len(plan) \in Nat /\ Len(plan) # 0 /\ DOMAIN Course = 1 .. N
      /\ \A i \in 1 .. n : i \in DOMAIN Course /\ Course[i] = asked[i]
      /\ \A i \in 1 .. Len(plan) : Course[n + i] = plan[i]
      /\ (asked = <<>> <=> n = 0) /\ Last(asked) = asked[n]
  BY <1>1, TheCourse DEF CommandInvariant, Plans, Course
<1>3. IsSession(Course) /\ GivesWell(Course)
  BY DEF Truth, Sessions, Ids
<1> HIDE DEF n
<1>4. /\ N \in Nat /\ n + 1 \in DOMAIN Course /\ Course[n + 1].cs = "CONF_NODE_ID"
  <2>1. 1 \in 1 .. Len(plan)
    BY <1>2
  <2> QED BY <1>1, <1>2, <2>1
<1>5. n + 1 < N
  <2> HIDE DEF N
  <2> QED BY <1>2, <1>3, <1>4, IdIsNotLast
<1>6. CASE AfterScan(Course, n + 1)
  <2>1. n = 1
    BY <1>2, <1>6 DEF AfterScan
  <2>2. asked # <<>> /\ Last(asked).cs = "IDENT_FASTSCAN"
    BY <1>2, <1>6, <2>1 DEF AfterScan
  <2>3. ~Failed
    BY <1>1, <1>2, <1>5
  <2>4. HasResponse(Last(asked))
    BY <2>2 DEF HasResponse
  <2>5. master.state # LSS_ABORTED_INTERNAL /\ master.dat1 = 0
    BY <2>2, <2>3, <2>4 DEF Failed
  <2>6. master.state = LSS_FINISHED
    BY <1>1, <2>2, <2>5 DEF Ids, ScanEnds
  <2>7. Answered("IDENT_FASTSCAN")
    BY <2>2, <2>4, <2>5, <2>6 DEF Answered
  <2>8. ScanIsOver
    BY <1>1, <2>2 DEF Truth, Scans, ScanStage, Starting, Narrowing, Confirming
  <2> QED BY <2>7, <2>8 DEF ScanIsOver, OneFound
<1>7. CASE MaxExtras <= 1 /\ AfterSelection(Course, n + 1)
  <2>1. ~Scanned(Course)
    BY <1>7 DEF AfterSelection, Scanned
  <2>2. PICK j \in 1 .. n : Course[j].cs = "SM_SELECTIVE"
    <3>1. 0 \in Subs
      BY Constants
    <3>2. \A f \in Subs : \E j \in 1 .. (n + 1) - 1 : Course[j].cs = "SM_SELECTIVE"
      BY <1>7 DEF AfterSelection
    <3>3. (n + 1) - 1 = n
      BY <1>2
    <3> QED BY <3>1, <3>2, <3>3
  <2>3. j \in DOMAIN Course /\ Selects(Course) /\ asked # <<>> /\ n \in 1 .. n
    <3>1. j \in DOMAIN Course /\ n \in 1 .. n /\ n # 0
      BY <1>2, <2>2
    <3> QED BY <1>2, <2>2, <3>1 DEF Selects
  <2>4. Last(asked).cs # "SM_GLOBAL"
    <3> SUFFICES ASSUME Course[n].cs = "SM_GLOBAL" PROVE FALSE
      BY <1>2, <2>3
    <3>1. IsEnd(Course, n)
      BY <1>2, <1>3, <2>2, <2>3 DEF IsSession
    <3> QED BY <1>2, <1>4, <3>1 DEF IsEnd
  <2>5. FirstSelection
    BY <1>7 DEF Ids
  <2>6. \A r \in Configuring : r = s
    BY <2>1, <2>3, <2>4, <2>5, OneIsSelected
  <2> QED BY <2>6
<1> QED BY <1>3, <1>4, <1>6, <1>7 DEF GivesWell

LEMMA NewIdIsGiven ==
  ASSUME IdsAreGivenOnce, CommandInvariant, Ids, configNetworkNode, Head(plan).cs = "CONF_NODE_ID"
  PROVE  LET v == Filled(Head(plan)).value IN
         v \in GivenIds' /\ \A s \in Slaves : v \notin OwnIds(slave[s])
<1>1. IsCommand(Head(plan)) /\ given \in Nat
  BY CommandIsGiven DEF CommandInvariant, Plans
<1>2. /\ Filled(Head(plan)).value = NodeIds[given + 1] /\ given' = given + 1
      /\ given < Len(NodeIds)
  BY <1>1, FilledIsCommand DEF configNetworkNode
<1>3. given + 1 \in DOMAIN NodeIds /\ \A i \in 1 .. given : i \in DOMAIN NodeIds
  <2> DEFINE X == 1 .. 127
  <2>1. NodeIds \in Seq(X)
    BY LSSAssumption
  <2> HIDE DEF X
  <2>2. DOMAIN NodeIds = 1 .. Len(NodeIds) /\ Len(NodeIds) \in Nat
    BY <2>1
  <2> QED BY <1>1, <1>2, <2>2
<1>4. NodeIds[given + 1] \notin GivenIds
  <2>1. \A s \in Slaves : NodeIds[given + 1] # InitialId[s]
    BY <1>3 DEF IdsAreGivenOnce
  <2>2. ASSUME NEW i \in 1 .. given
        PROVE  NodeIds[given + 1] # NodeIds[i]
    <3>1. i # given + 1
      BY <1>1
    <3> QED BY <1>3, <3>1 DEF IdsAreGivenOnce
  <2> QED BY <2>1, <2>2 DEF GivenIds
<1>5. NodeIds[given + 1] \in GivenIds'
  <2>1. given + 1 \in 1 .. given'
    BY <1>1, <1>2
  <2> QED BY <2>1 DEF GivenIds
<1> QED BY <1>2, <1>4, <1>5 DEF Ids, IdsOwned

LEMMA CommandKeepsIds ==
  ASSUME IdsAreGivenOnce, CommandInvariant, Truth, Ids, configNetworkNode
  PROVE  Ids' /\ extras' = extras /\ slave' = slave
<1> DEFINE n == Len(asked)
           c == Filled(Head(plan))
<1>1. /\ n \in Nat /\ Len(asked') = n + 1 /\ Last(asked') = c /\ asked' # <<>>
      /\ \A i \in 1 .. n : asked'[i] = asked[i]
      /\ DOMAIN Course' = DOMAIN Course /\ n + 1 \in DOMAIN Course
      /\ \A i \in 1 .. n : i \in DOMAIN Course /\ Course[i] = asked[i]
      /\ n > 0 => Last(asked) = asked[n]
      /\ \A i \in DOMAIN Course : Course'[i].cs = Course[i].cs /\ Course'[i].sub = Course[i].sub
      /\ c.cs = Head(plan).cs
  BY CommandIsNext, CommandIsGiven
<1>2. /\ slave' = slave /\ extras' = extras /\ \A s \in Slaves : toSlave[s] = <<>>
      /\ sendMasterLSSMessage(c) /\ DOMAIN master = MasterFields /\ master.FastScan_SM = LSS_FS_RESET
      /\ given \in Nat /\ given' \in {given, given + 1}
  <2>1. given' \in {given, given + 1}
    <3>1. given \in Nat
      BY DEF CommandInvariant, Plans
    <3> QED BY <3>1 DEF configNetworkNode
  <2>2. extras' = extras
    BY DEF configNetworkNode, bounds
  <2> QED BY <2>1, <2>2, CommandIsGiven DEF CommandInvariant, MasterWaits, Plans
<1>3. asked = <<>> <=> n = 0
  BY LengthOfCommands DEF CommandInvariant, Plans
<1>4. c.cs = "CONF_NODE_ID" => /\ c.value \in GivenIds'
                               /\ \A s \in Slaves : c.value \notin OwnIds(slave[s])
                               /\ \A s \in Configuring : Configuring = {s}
  BY <1>1, NewIdIsGiven, OneConfiguring
<1>5. IsSession(Course) /\ GivesWell(Course)
  BY DEF Truth, Sessions, Ids
<1>6. /\ GivesWell(Course')
      /\ Selects(Course) <=> Selects(Course')
      /\ Scanned(Course) <=> Scanned(Course')
  <2> DEFINE N == n + Len(plan)
  <2>1. N \in Nat /\ DOMAIN Course = 1 .. N
    BY TheCourse DEF CommandInvariant, Plans, Course
  <2> HIDE DEF N, n, c
  <2> QED BY <1>1, <1>5, <2>1, SameServices
<1> HIDE DEF n, c
<1>7. IdsOwned'
  <2>1. GivenIds \subseteq GivenIds'
    BY <1>2 DEF GivenIds
  <2> QED BY <1>2, <2>1 DEF Ids, IdsOwned
<1>8. IdsOnTheirWay'
  <2> SUFFICES ASSUME c.cs = "CONF_NODE_ID", NEW s \in Slaves
               PROVE  \/ slave'[s].mode # LSS_CONFIGURATION_MODE /\ c.value \notin OwnIds(slave'[s])
                      \/ Configuring' = {s}
    BY <1>1, <1>4 DEF IdsOnTheirWay, Gives
  <2>1. Configuring' = Configuring
    BY <1>2 DEF Configuring
  <2>2. s \in Configuring <=> slave[s].mode = LSS_CONFIGURATION_MODE
    BY DEF Configuring
  <2> QED BY <1>2, <1>4, <2>1, <2>2
<1>9. ScanEnds'
  <2> SUFFICES ASSUME c.cs = "IDENT_FASTSCAN" PROVE Busy'
    BY <1>1 DEF ScanEnds
  <2>1. master' = [Started(c) EXCEPT !.IDNumber = 0, !.BitChecked = 128, !.LSSSub = 0,
                                     !.LSSNext = 0, !.timerMSG = TRUE,
                                     !.state = LSS_TRANS_IN_PROGRESS]
    BY <1>2 DEF sendMasterLSSMessage, Started, MasterFields
  <2> QED BY <1>2, <2>1 DEF Busy, Started, MasterFields
<1>10. ASSUME FirstSelection
       PROVE  FirstSelection'
  <2>1. extras' = 0 => ~Selects(Course') /\ \A s \in Slaves : slave'[s].addr_sel_match = {}
    BY <1>2, <1>6, <1>10 DEF FirstSelection
  <2> SUFFICES ASSUME Selects(Course'), ~Scanned(Course'), NEW s \in Slaves
               PROVE  /\ \A f \in slave'[s].addr_sel_match : \E i \in 1 .. Len(asked') : AskedFor(s, f, i)'
                      /\ asked' # <<>> /\ Last(asked').cs # "SM_GLOBAL" /\ s \in Configuring' =>
                           \A f \in Subs : \E i \in 1 .. Len(asked') :
                             AskedFor(s, f, i)' /\ asked'[i].value = Identity[s][f]
    BY <2>1 DEF FirstSelection
  <2>2. \A f : \A i \in 1 .. n : AskedFor(s, f, i) => i \in 1 .. n + 1 /\ AskedFor(s, f, i)'
    BY <1>1, <1>2 DEF AskedFor, Had
  <2>3. Selects(Course) /\ ~Scanned(Course)
    BY <1>6
  <2>4. \A f \in slave'[s].addr_sel_match : \E i \in 1 .. Len(asked') : AskedFor(s, f, i)'
    <3>1. \A f \in slave[s].addr_sel_match : \E i \in 1 .. n : AskedFor(s, f, i)
      BY <1>10, <2>3 DEF FirstSelection, n
    <3> QED BY <1>1, <1>2, <2>2, <3>1
  <2>5. ASSUME s \in Configuring'
        PROVE  \A f \in Subs : \E i \in 1 .. Len(asked') :
                 AskedFor(s, f, i)' /\ asked'[i].value = Identity[s][f]
    <3>1. s \in Configuring /\ ~Waits(s)
      BY <1>2, <2>5, StatesDiffer DEF Configuring, Waits
    <3>2. asked # <<>>
      <4> SUFFICES ASSUME asked = <<>> PROVE FALSE
        OBVIOUS
      <4>1. NoModeAsked
        BY <1>3 DEF NoModeAsked, n
      <4> QED BY <1>2, <3>1, <4>1 DEF Truth, Sessions, Released
    <3>3. Last(asked).cs # "SM_GLOBAL"
      <4> SUFFICES ASSUME Last(asked).cs = "SM_GLOBAL" PROVE FALSE
        OBVIOUS
      <4>1. n \in 1 .. n /\ Course[n].cs = "SM_GLOBAL" /\ n \in DOMAIN Course
        BY <1>1, <1>3, <3>2
      <4>2. IsEnd(Course, n)
        BY <1>5, <2>3, <4>1 DEF IsSession, Selects
      <4> QED BY <1>1, <4>2 DEF IsEnd
    <3>4. \A f \in Subs : \E i \in 1 .. n : AskedFor(s, f, i) /\ asked[i].value = Identity[s][f]
      BY <1>10, <2>3, <3>1, <3>2, <3>3 DEF FirstSelection, n
    <3> QED BY <1>1, <2>2, <3>4
  <2> QED BY <2>4, <2>5
<1> QED BY <1>2, <1>6, <1>7, <1>8, <1>9, <1>10 DEF Ids

-----------------------------------------------------------------------------
(***************************************************************************)
(* The steps of master and slaves and node ids.                            *)
(***************************************************************************)
LEMMA MasterEnds ==
  ASSUME CommandInvariant, proceedLSS_Master \/ MasterAlarms
  PROVE  master'.state \in {master.state, LSS_FINISHED, LSS_ABORTED_INTERNAL}
<1>1. DOMAIN master = MasterFields
  BY DEF CommandInvariant, MasterWaits
<1>2. CASE proceedLSS_Master
  <2>1. PICK x : \/ master' \in {master, [master EXCEPT !.LSSanswer = 1]}
                 \/ master' = [Finishes(master, x) EXCEPT !.timerMSG = FALSE]
    BY <1>2, AnswerIsTaken
  <2> QED BY <1>1, <2>1 DEF Finishes, MasterFields
<1>3. CASE LssAlarmMSG
  <2> DEFINE m == [master EXCEPT !.timerMSG = FALSE]
  <2>1. m.state = master.state /\ DOMAIN m = MasterFields /\ m.state = LSS_TRANS_IN_PROGRESS
    BY <1>1, <1>3 DEF MasterFields, CommandInvariant, MasterWaits, LssAlarmMSG, Busy
  <2>2. master' \in {Field(m, 0), Finishes(m, 1), Aborts(m)}
    BY <1>3 DEF LssAlarmMSG, MasterSends
  <2> HIDE DEF m
  <2> QED BY <2>1, <2>2 DEF Field, Finishes, Aborts, MasterFields
<1>4. CASE LssAlarmFS
  <2> DEFINE m == [master EXCEPT !.timerFS = FALSE]
             next == [NextBit(BitFound(m)) EXCEPT !.LSSanswer = 0, !.timerFS = TRUE]
             over == [m EXCEPT !.FastScan_SM = LSS_FS_RESET, !.IDNumber = 0, !.BitChecked = 128,
                               !.LSSSub = 0, !.LSSNext = 0, !.LSSanswer = 0]
  <2>1. m.state = master.state /\ DOMAIN m = MasterFields
    BY <1>1 DEF MasterFields
  <2>2. master' \in {m, next, Aborts(m), Finishes(over, 0), Field(m, m.LSSSub + 1)}
    BY <1>4, StatesDiffer DEF LssAlarmFS, MasterSends, CommandInvariant, MasterWaits, MasterFields
  <2> HIDE DEF m
  <2>3. next.state = m.state
    BY <2>1 DEF NextBit, BitFound, MasterFields
  <2>4. over.state = m.state /\ DOMAIN over = MasterFields
    BY <2>1 DEF MasterFields
  <2> HIDE DEF next, over
  <2> QED BY <2>1, <2>2, <2>3, <2>4 DEF Finishes, Aborts, Field, MasterFields
<1>5. CASE LssAlarmSDELAY_Master
  <2>1. \/ master' = [master EXCEPT !.switchDelayState = SDELAY_SECOND, !.rate = master.baudRate]
        \/ master' = Finishes([master EXCEPT !.switchDelayState = SDELAY_OFF], 0)
    BY <1>5 DEF LssAlarmSDELAY_Master
  <2> QED BY <1>1, <2>1 DEF Finishes, MasterFields
<1> QED BY <1>2, <1>3, <1>4, <1>5 DEF MasterAlarms

\* A step that gives nothing and changes no mode and no mask.
LEMMA IdsStay ==
  ASSUME CommandInvariant, Ids, UNCHANGED <<plan, asked, given, extras>>,
         \/ toSlave' = toSlave
         \/ asked # <<>> /\ Last(asked).cs = "IDENT_FASTSCAN",
         master'.state \in {master.state, LSS_FINISHED, LSS_ABORTED_INTERNAL},
         \A s \in Slaves : /\ OwnIds(slave'[s]) \subseteq OwnIds(slave[s])
                           /\ slave'[s].mode = slave[s].mode
                           /\ slave'[s].addr_sel_match = slave[s].addr_sel_match
  PROVE  Ids'
<1>1. Configuring' = Configuring
  BY DEF Configuring
<1>2. GivenIds' = GivenIds /\ Course' = Course
  BY DEF GivenIds, Course
<1>3. IdsOwned'
  BY <1>2 DEF Ids, IdsOwned
<1>4. IdsOnTheirWay'
  BY <1>1, <1>2 DEF Ids, IdsOnTheirWay, Gives
<1>5. GivesWell(Course')
  BY <1>2 DEF Ids
<1>6. ScanEnds'
  BY DEF Ids, ScanEnds, Busy
<1>7. ASSUME FirstSelection
      PROVE  FirstSelection'
  <2>1. CASE toSlave' = toSlave
    <3>1. \A s, f, i : AskedFor(s, f, i)' = AskedFor(s, f, i)
      BY <2>1 DEF AskedFor, Had
    <3> QED BY <1>1, <1>2, <1>7, <3>1 DEF FirstSelection
  <2>2. CASE asked # <<>> /\ Last(asked).cs = "IDENT_FASTSCAN"
    <3> DEFINE n == Len(asked)
    <3>1. /\ n \in Nat /\ (asked = <<>> <=> n = 0) /\ Last(asked) = asked[n]
          /\ \A i \in 1 .. n : i \in DOMAIN Course /\ Course[i] = asked[i]
      <4>1. n \in Nat /\ (asked = <<>> <=> n = 0) /\ Last(asked) = asked[n]
        BY LengthOfCommands DEF CommandInvariant, Plans
      <4>2. \A i \in 1 .. n : i \in DOMAIN Course /\ Course[i] = asked[i]
        BY TheCourse DEF CommandInvariant, Plans, Course
      <4> QED BY <4>1, <4>2
    <3>2. n \in 1 .. n
      BY <2>2, <3>1
    <3>3. Scanned(Course)
      BY <2>2, <3>1, <3>2 DEF Scanned
    <3> QED BY <1>2, <1>7, <3>3 DEF FirstSelection
  <2> QED BY <2>1, <2>2
<1> QED BY <1>3, <1>4, <1>5, <1>6, <1>7 DEF Ids

LEMMA MasterKeepsIds ==
  ASSUME CommandInvariant, Ids, proceedLSS_Master \/ MasterAlarms
  PROVE  Ids' /\ extras' = extras /\ slave' = slave
<1>1. UNCHANGED <<slave, plan, asked, given, extras>>
  BY DEF proceedLSS_Master, MasterAlarms, LssAlarmMSG, LssAlarmFS, LssAlarmSDELAY_Master,
         userVars, bounds
<1>2. toSlave' = toSlave \/ (asked # <<>> /\ Last(asked).cs = "IDENT_FASTSCAN")
  <2>1. CASE LssAlarmSDELAY_Master
    BY <2>1 DEF LssAlarmSDELAY_Master
  <2> QED BY <2>1, MasterKeepsRate DEF MasterAlarms
<1> QED BY <1>1, <1>2, MasterEnds, IdsStay

LEMMA StaysKeepsIds ==
  ASSUME CommandInvariant, Truth, Ids, NEW s \in Slaves,
         LssAlarmSDELAY_Slave(s) \/ ResetCommunication(s)
  PROVE  Ids'
<1>1. /\ UNCHANGED <<master, toSlave, plan, asked, given>>
      /\ \A r \in Slaves \ {s} : slave'[r] = slave[r]
  BY SlaveChanges DEF userVars
<1>2. extras' = extras
  BY DEF LssAlarmSDELAY_Slave, ResetCommunication, bounds
<1>3. \A r \in Slaves : /\ OwnIds(slave'[r]) \subseteq OwnIds(slave[r])
                        /\ slave'[r].mode = slave[r].mode
                        /\ slave'[r].addr_sel_match = slave[r].addr_sel_match
  BY <1>1, StaysOwner, SlaveStays DEF OwnsNoMore
<1> QED BY <1>1, <1>2, <1>3, IdsStay

LEMMA StutterKeepsIds ==
  ASSUME CommandInvariant, Ids, UNCHANGED vars
  PROVE  Ids' /\ extras' = extras /\ slave' = slave
<1>1. UNCHANGED <<master, slave, toSlave, plan, asked, given, extras>>
  BY DEF vars, userVars, bounds
<1> QED BY <1>1, IdsStay

\* An id is taken by the one slave it is for.
LEMMA SlaveKeepsOwned ==
  ASSUME CommandInvariant, Ids, NEW s \in Slaves, proceedLSS_Slave(s)
  PROVE  IdsOwned' /\ IdsOnTheirWay'
<1> DEFINE f == Head(toSlave[s])
           d == slave[s]
           e == slave'[s]
           v == Last(asked).value
<1>1. /\ UNCHANGED <<asked, given>> /\ toSlave[s] # <<>> /\ toSlave'[s] = <<>>
      /\ \A r \in Slaves \ {s} : toSlave'[r] = toSlave[r] /\ slave'[r] = slave[r]
      /\ asked # <<>> => f.cs = Last(asked).cs
      /\ asked # <<>> /\ f.cs # "IDENT_FASTSCAN" => f.value = v
  BY FrameIsTaken, SlaveTakesFrame DEF userVars
<1>2. GivenIds' = GivenIds
  BY <1>1 DEF GivenIds
<1>3. \/ OwnIds(e) \subseteq OwnIds(d)
      \/ /\ f.cs = "CONF_NODE_ID" /\ d.mode = LSS_CONFIGURATION_MODE
         /\ OwnIds(e) \subseteq OwnIds(d) \cup {f.value}
  BY SlaveOwns
<1>4. f.cs = "CONF_NODE_ID" => asked # <<>> /\ Last(asked).cs = "CONF_NODE_ID" /\ f.value = v
  BY <1>1 DEF Ids, IdsOnTheirWay
<1>5. f.cs = "CONF_NODE_ID" => v \in GivenIds /\ \A r \in Slaves : Gives(Last(asked), r)
  BY <1>4 DEF Ids, IdsOnTheirWay
<1>6. f.cs = "CONF_NODE_ID" => e.mode = d.mode
  BY SlaveSteps DEF Steps, ModeServices
<1> HIDE DEF f, d, e, v
<1>7. IdsOwned'
  <2>1. CASE OwnIds(e) \subseteq OwnIds(d)
    <3>1. \A r \in Slaves : OwnIds(slave'[r]) \subseteq OwnIds(slave[r])
      BY <1>1, <2>1 DEF d, e
    <3> QED BY <1>2, <3>1 DEF Ids, IdsOwned
  <2>2. CASE /\ f.cs = "CONF_NODE_ID" /\ d.mode = LSS_CONFIGURATION_MODE
             /\ OwnIds(e) \subseteq OwnIds(d) \cup {f.value}
    <3>1. s \in Configuring
      BY <2>2 DEF Configuring, d
    <3>2. \A r \in Slaves \ {s} : v \notin OwnIds(slave[r])
      <4> SUFFICES ASSUME NEW r \in Slaves \ {s} PROVE v \notin OwnIds(slave[r])
        OBVIOUS
      <4>1. Gives(Last(asked), r)
        BY <1>5, <2>2
      <4> QED BY <3>1, <4>1 DEF Gives, v
    <3>3. v \in GivenIds /\ f.value = v
      BY <1>4, <1>5, <2>2
    <3>4. OwnIds(e) \subseteq GivenIds
      BY <2>2, <3>3 DEF Ids, IdsOwned, d
    <3>5. \A r \in Slaves \ {s} : OwnIds(e) \cap OwnIds(slave[r]) = {}
      BY <2>2, <3>2, <3>3 DEF Ids, IdsOwned, d
    <3>6. \A r \in Slaves \ {s} : slave'[r] = slave[r]
      BY <1>1
    <3> QED BY <1>2, <3>4, <3>5, <3>6 DEF Ids, IdsOwned, e
  <2> QED BY <1>3, <2>1, <2>2
<1>8. IdsOnTheirWay'
  <2>1. asked' = <<>> => \A r \in Slaves : toSlave'[r] = <<>> \/ Head(toSlave'[r]).cs # "CONF_NODE_ID"
    BY <1>1 DEF Ids, IdsOnTheirWay
  <2>2. ASSUME asked # <<>>, Last(asked).cs = "CONF_NODE_ID", NEW r \in Slaves
        PROVE  Gives(Last(asked), r)'
    <3>1. f.cs = "CONF_NODE_ID"
      BY <1>1, <2>2
    <3>2. Configuring' = Configuring
      BY <1>1, <1>6, <3>1 DEF Configuring, d, e
    <3>3. Gives(Last(asked), r)
      BY <1>5, <3>1
    <3>4. CASE Configuring = {r}
      BY <3>2, <3>4 DEF Gives
    <3>5. CASE r # s
      BY <1>1, <3>2, <3>3, <3>5 DEF Gives
    <3>6. CASE r = s /\ d.mode # LSS_CONFIGURATION_MODE
      <4>1. e.mode # LSS_CONFIGURATION_MODE /\ OwnIds(e) \subseteq OwnIds(d)
        BY <1>3, <1>6, <3>1, <3>6
      <4>2. v \notin OwnIds(d) \/ Configuring = {r}
        BY <3>3, <3>6 DEF Gives, v, d
      <4> QED BY <1>1, <3>2, <3>6, <4>1, <4>2 DEF Gives, v, e
    <3>7. r = s /\ d.mode = LSS_CONFIGURATION_MODE => Configuring = {r}
      BY <3>3 DEF Gives, d
    <3> QED BY <3>4, <3>5, <3>6, <3>7
  <2>3. asked # <<>> /\ Last(asked).cs = "CONF_NODE_ID" => v \in GivenIds
    BY DEF Ids, IdsOnTheirWay, v
  <2> QED BY <1>1, <1>2, <2>1, <2>2, <2>3 DEF IdsOnTheirWay, v
<1> QED BY <1>7, <1>8

LEMMA SlaveKeepsSelection ==
  ASSUME CommandInvariant, Truth, FirstSelection, NEW s \in Slaves, proceedLSS_Slave(s),
         extras' = extras
  PROVE  FirstSelection'
<1> DEFINE f == Head(toSlave[s])
           d == slave[s]
           e == slave'[s]
           n == Len(asked)
<1>1. /\ asked' = asked /\ Course' = Course
      /\ toSlave[s] # <<>> /\ toSlave'[s] = <<>>
      /\ \A r \in Slaves \ {s} : toSlave'[r] = toSlave[r] /\ slave'[r] = slave[r]
      /\ n \in Nat /\ (asked # <<>> <=> n > 0) /\ Last(asked) = asked[n]
      /\ asked # <<>> =>
           /\ f.cs = Last(asked).cs
           /\ f.cs # "IDENT_FASTSCAN" => f.sub = Last(asked).sub /\ f.value = Last(asked).value
  BY FrameIsTaken DEF Course
<1>2. Steps(d, e, f)
  BY SlaveSteps
<1>3. \A i \in 1 .. n : i \in DOMAIN Course /\ Course[i] = asked[i]
  BY TheCourse DEF CommandInvariant, Plans, Course
<1>4. f.cs = "SM_SELECTIVE" =>
        /\ e.addr_sel_match \subseteq d.addr_sel_match \cup {f.sub}
        /\ d.mode # LSS_CONFIGURATION_MODE /\ e.mode = LSS_CONFIGURATION_MODE =>
             Subs = d.addr_sel_match \cup {f.sub} /\ f.value = Identity[s][f.sub]
  BY ServiceOfFrame, SelectSteps
<1>5. asked = <<>> => f.cs # "SM_SELECTIVE"
  <2> SUFFICES ASSUME asked = <<>>, f.cs = "SM_SELECTIVE" PROVE FALSE
    OBVIOUS
  <2>1. NoModeAsked
    <3>1. Len(asked) = 0
      OBVIOUS
    <3> QED BY <3>1 DEF NoModeAsked
  <2>2. Released(s)
    BY <2>1 DEF Truth, Sessions
  <2> QED BY <1>1, <2>2 DEF Released, Releases, ModeServices
<1> HIDE DEF f, d, e, n
<1>6. n > 0 => n \in 1 .. n /\ asked[n] = Course[n] /\ n \in DOMAIN Course
  BY <1>1, <1>3
<1>7. f.cs = "SM_SELECTIVE" => Selects(Course) /\ n \in 1 .. n /\ asked[n].cs = "SM_SELECTIVE"
                               /\ asked[n].sub = f.sub /\ asked[n].value = f.value
  BY <1>1, <1>5, <1>6 DEF Selects
<1>8. extras' = 0 => ~Selects(Course') /\ \A r \in Slaves : slave'[r].addr_sel_match = {}
  <2> SUFFICES ASSUME extras = 0 PROVE e.addr_sel_match = {}
    BY <1>1 DEF FirstSelection, e
  <2>1. d.addr_sel_match = {} /\ f.cs # "SM_SELECTIVE"
    BY <1>7 DEF FirstSelection, d
  <2> QED BY <1>2, <2>1 DEF Steps
<1>9. ASSUME NEW r \in Slaves \ {s}, NEW g, NEW i \in 1 .. n
      PROVE  AskedFor(r, g, i)' <=> AskedFor(r, g, i)
  BY <1>1 DEF AskedFor, Had
<1>10. ASSUME NEW g, NEW i \in 1 .. n, AskedFor(s, g, i)
       PROVE  AskedFor(s, g, i)'
  BY <1>1, <1>10 DEF AskedFor, Had
<1>11. ASSUME f.cs = "SM_SELECTIVE", NEW g, g = f.sub, NEW i, i = n
       PROVE  AskedFor(s, g, i)'
  BY <1>1, <1>7, <1>11 DEF AskedFor, Had, n
<1>12. ASSUME Selects(Course), ~Scanned(Course)
       PROVE  /\ \A g \in e.addr_sel_match : \E i \in 1 .. n : AskedFor(s, g, i)'
              /\ asked # <<>> /\ Last(asked).cs # "SM_GLOBAL" /\ s \in Configuring' =>
                   \A g \in Subs : \E i \in 1 .. n :
                     AskedFor(s, g, i)' /\ asked[i].value = Identity[s][g]
  <2>1. /\ \A g \in d.addr_sel_match : \E i \in 1 .. n : AskedFor(s, g, i)
        /\ asked # <<>> /\ Last(asked).cs # "SM_GLOBAL" /\ s \in Configuring =>
             \A g \in Subs : \E i \in 1 .. n :
               AskedFor(s, g, i) /\ asked[i].value = Identity[s][g]
    BY <1>12 DEF FirstSelection, n, d
  <2>2. \A g \in e.addr_sel_match : \E i \in 1 .. n : AskedFor(s, g, i)'
    <3>1. CASE f.cs # "SM_SELECTIVE"
      <4>1. e.addr_sel_match = d.addr_sel_match
        BY <1>2, <3>1 DEF Steps
      <4> QED BY <1>10, <2>1, <4>1
    <3>2. CASE f.cs = "SM_SELECTIVE"
      <4>1. \A g \in e.addr_sel_match : g \in d.addr_sel_match \/ g = f.sub
        BY <1>4, <3>2
      <4>2. ASSUME NEW g, g = f.sub
            PROVE  \E i \in 1 .. n : AskedFor(s, g, i)'
        <5>1. PICK i \in 1 .. n : i = n
          BY <1>7, <3>2
        <5> QED BY <1>11, <3>2, <4>2, <5>1
      <4> QED BY <1>10, <2>1, <4>1, <4>2
    <3> QED BY <3>1, <3>2
  <2>3. ASSUME asked # <<>>, Last(asked).cs # "SM_GLOBAL", s \in Configuring', NEW g \in Subs
        PROVE  \E i \in 1 .. n : AskedFor(s, g, i)' /\ asked[i].value = Identity[s][g]
    <3>1. e.mode = LSS_CONFIGURATION_MODE
      BY <2>3 DEF Configuring, e
    <3>2. CASE d.mode = LSS_CONFIGURATION_MODE
      <4>1. s \in Configuring
        BY <3>2 DEF Configuring, d
      <4> QED BY <1>10, <2>1, <2>3, <4>1
    <3>3. CASE d.mode # LSS_CONFIGURATION_MODE
      <4>1. f.cs \in ModeServices /\ f.cs # "SM_GLOBAL"
        BY <1>1, <1>2, <2>3, <3>1, <3>3 DEF Steps
      <4>2. f.cs # "IDENT_FASTSCAN"
        <5>1. Last(asked).cs = "IDENT_FASTSCAN" => Scanned(Course)
          BY <1>1, <1>6, <2>3 DEF Scanned
        <5> QED BY <1>1, <1>12, <2>3, <5>1
      <4>3. f.cs = "SM_SELECTIVE"
        BY <4>1, <4>2 DEF ModeServices
      <4>4. Subs = d.addr_sel_match \cup {f.sub} /\ f.value = Identity[s][f.sub]
        BY <1>4, <3>1, <3>3, <4>3
      <4>5. CASE g = f.sub
        <5>1. PICK i \in 1 .. n : i = n
          BY <1>7, <4>3
        <5>2. AskedFor(s, g, i)'
          BY <1>11, <4>3, <4>5, <5>1
        <5>3. asked[i].value = Identity[s][g]
          BY <1>7, <4>3, <4>4, <4>5, <5>1
        <5> QED BY <5>2, <5>3
      <4>6. CASE g \in d.addr_sel_match
        <5>1. PICK i \in 1 .. n : AskedFor(s, g, i)
          BY <2>1, <4>6
        <5>2. Had(s, i) /\ Selected(s, i) /\ asked[i].sub = g
          BY <2>3, <3>3, <4>6, <5>1 DEF AskedFor, Selected, d
        <5>3. asked[i].value = Identity[s][g]
          BY <5>2 DEF Truth, Masks, n
        <5> QED BY <1>10, <5>1, <5>3
      <4> QED BY <4>4, <4>5, <4>6
    <3> QED BY <3>2, <3>3
  <2> QED BY <2>2, <2>3
<1>13. ASSUME Selects(Course), ~Scanned(Course), NEW r \in Slaves \ {s}
       PROVE  /\ \A g \in slave'[r].addr_sel_match : \E i \in 1 .. n : AskedFor(r, g, i)'
              /\ asked # <<>> /\ Last(asked).cs # "SM_GLOBAL" /\ r \in Configuring' =>
                   \A g \in Subs : \E i \in 1 .. n :
                     AskedFor(r, g, i)' /\ asked[i].value = Identity[r][g]
  <2>1. slave'[r] = slave[r] /\ (r \in Configuring' <=> r \in Configuring)
    BY <1>1 DEF Configuring
  <2>2. /\ \A g \in slave[r].addr_sel_match : \E i \in 1 .. n : AskedFor(r, g, i)
        /\ asked # <<>> /\ Last(asked).cs # "SM_GLOBAL" /\ r \in Configuring =>
             \A g \in Subs : \E i \in 1 .. n :
               AskedFor(r, g, i) /\ asked[i].value = Identity[r][g]
    BY <1>13 DEF FirstSelection, n
  <2> QED BY <1>9, <2>1, <2>2
<1>14. ASSUME Selects(Course), ~Scanned(Course), NEW r \in Slaves
       PROVE  /\ \A g \in slave'[r].addr_sel_match : \E i \in 1 .. n : AskedFor(r, g, i)'
              /\ asked # <<>> /\ Last(asked).cs # "SM_GLOBAL" /\ r \in Configuring' =>
                   \A g \in Subs : \E i \in 1 .. n :
                     AskedFor(r, g, i)' /\ asked[i].value = Identity[r][g]
  BY <1>12, <1>13, <1>14 DEF e
<1> QED BY <1>1, <1>8, <1>14 DEF FirstSelection, n

LEMMA SlaveKeepsIds ==
  ASSUME CommandInvariant, Truth, Ids, NEW s \in Slaves, proceedLSS_Slave(s)
  PROVE  Ids' /\ extras' = extras
<1>1. UNCHANGED <<master, plan, asked, extras>>
  BY SlaveTakesFrame DEF userVars, bounds
<1>2. Course' = Course
  BY <1>1 DEF Course
<1>3. GivesWell(Course') /\ ScanEnds'
  BY <1>1, <1>2 DEF Ids, ScanEnds, Busy
<1>4. MaxExtras <= 1 => FirstSelection'
  BY <1>1, SlaveKeepsSelection DEF Ids
<1> QED BY <1>1, <1>3, <1>4, SlaveKeepsOwned DEF Ids

LEMMA StepKeepsIds ==
  ASSUME IdsAreGivenOnce, CommandInvariant, Truth, Ids, extras \in Nat, [Next]_vars, ~Lose, ~SendFails
  PROVE  Ids'
BY BeginKeepsIds, CommandKeepsIds, BreakOffKeepsIds, MasterKeepsIds, SlaveKeepsIds, StaysKeepsIds,
   StutterKeepsIds DEF Next

LEMMA CobsGoOn ==
  ASSUME CommandInvariant, [Next]_vars, \A s \in Slaves : CobFollows(slave[s])
  PROVE  \A s \in Slaves : CobFollows(slave'[s])
<1>1. ASSUME NEW s \in Slaves, \A r \in Slaves \ {s} : slave'[r] = slave[r],
             CobFollows(slave[s]) => CobFollows(slave'[s])
      PROVE  \A r \in Slaves : CobFollows(slave'[r])
  BY <1>1
<1>2. ASSUME NEW s \in Slaves, proceedLSS_Slave(s)
      PROVE  \A r \in Slaves : CobFollows(slave'[r])
  <2>1. \A r \in Slaves \ {s} : slave'[r] = slave[r]
    BY <1>2, SlaveTakesFrame
  <2>2. CobFollows(slave[s]) => CobFollows(slave'[s])
    BY <1>2, SlaveOwns
  <2> QED BY <1>1, <2>1, <2>2
<1>3. ASSUME NEW s \in Slaves, LssAlarmSDELAY_Slave(s) \/ ResetCommunication(s)
      PROVE  \A r \in Slaves : CobFollows(slave'[r])
  <2>1. \A r \in Slaves \ {s} : slave'[r] = slave[r]
    BY <1>3, SlaveChanges
  <2>2. CobFollows(slave[s]) => CobFollows(slave'[s])
    BY <1>3, StaysOwner DEF OwnsNoMore
  <2> QED BY <1>1, <2>1, <2>2
<1>4. CASE \/ Begin \/ configNetworkNode \/ BreakOff \/ proceedLSS_Master \/ MasterAlarms \/ Lose
           \/ SendFails \/ UNCHANGED vars
  <2>1. slave' = slave
    BY <1>4 DEF Begin, configNetworkNode, BreakOff, proceedLSS_Master, MasterAlarms, LssAlarmMSG,
                LssAlarmFS, LssAlarmSDELAY_Master, Lose, SendFails, vars
  <2> QED BY <2>1
<1> QED BY <1>2, <1>3, <1>4 DEF Next

LEMMA ExtrasAreCounted ==
  ASSUME CommandInvariant, [Next]_vars, extras \in Nat
  PROVE  extras' \in Nat
<1>1. ASSUME NEW s \in Slaves, proceedLSS_Slave(s)
      PROVE  extras' = extras
  BY <1>1, SlaveTakesFrame DEF bounds
<1>2. ASSUME NEW s \in Slaves, LssAlarmSDELAY_Slave(s) \/ ResetCommunication(s)
      PROVE  extras' = extras
  BY <1>2 DEF LssAlarmSDELAY_Slave, ResetCommunication, bounds
<1>3. CASE \/ Begin \/ configNetworkNode \/ BreakOff \/ proceedLSS_Master \/ MasterAlarms \/ Lose
           \/ SendFails \/ UNCHANGED vars
  <2>1. extras' \in {extras, extras + 1}
    BY <1>3 DEF Begin, configNetworkNode, BreakOff, proceedLSS_Master, MasterAlarms, LssAlarmMSG,
                LssAlarmFS, LssAlarmSDELAY_Master, Lose, SendFails, vars, bounds
  <2> QED BY <2>1
<1> QED BY <1>1, <1>2, <1>3 DEF Next

(***************************************************************************)
(* Without losses every id has one owner, and one on its way is new and    *)
(* for the only slave in configuration mode.                               *)
(***************************************************************************)
THEOREM IdIsInvariant ==
  ASSUME IdsAreGivenOnce
  PROVE  Spec => []IdInvariant
<1>1. Init => IdInvariant
  BY InitCommands, InitIsTrue, InitOwns DEF IdInvariant, AnswerInvariant
<1>2. IdInvariant /\ AnswerInvariant' /\ [Next]_vars => IdInvariant'
  <2> SUFFICES ASSUME IdInvariant, AnswerInvariant', [Next]_vars PROVE IdInvariant'
    OBVIOUS
  <2>1. CommandInvariant
    BY DEF IdInvariant, AnswerInvariant
  <2>2. extras' \in Nat /\ \A s \in Slaves : CobFollows(slave'[s])
    BY <2>1, CobsGoOn, ExtrasAreCounted DEF IdInvariant
  <2>3. ASSUME losses' = 0
        PROVE  Ids'
    <3>1. ~Lose /\ ~SendFails
      BY <2>1, <2>3, LoseKeeps, SendFailsKeeps
    <3>2. losses = 0
      BY <2>1, <2>3, <3>1, LossesStay
    <3> QED BY <2>1, <3>1, <3>2, StepKeepsIds DEF IdInvariant, AnswerInvariant
  <2> QED BY <2>2, <2>3 DEF IdInvariant
<1> QED BY <1>1, <1>2, AnswerIsInvariant, PTL DEF Spec

(***************************************************************************)
(* No two slaves ever have the same node id, unless frames are lost, and   *)
(* none has COB-ids of another node id than its own.                       *)
(***************************************************************************)
THEOREM IdsAreDistinct ==
  ASSUME IdsAreGivenOnce
  PROVE  Spec => []NodeIdsDistinct
<1>1. IdInvariant => NodeIdsDistinct
  <2> SUFFICES ASSUME IdInvariant PROVE NodeIdsDistinct
    OBVIOUS
  <2>1. ASSUME losses = 0, NEW s \in Slaves, NEW r \in Slaves, s # r, slave[s].id # None
        PROVE  slave[s].id # slave[r].id
    <3>1. slave[s].id \in 1 .. 127
      BY <2>1 DEF IdInvariant, AnswerInvariant, Truth, NodeIdsKept
    <3>2. slave[s].id \in OwnIds(slave[s]) /\ (slave[r].id = slave[s].id => slave[r].id \in OwnIds(slave[r]))
      BY <3>1 DEF OwnIds
    <3>3. OwnIds(slave[s]) \cap OwnIds(slave[r]) = {}
      BY <2>1 DEF IdInvariant, Ids, IdsOwned
    <3> QED BY <3>2, <3>3
  <2> QED BY <2>1 DEF IdInvariant, CobFollows, NodeIdsDistinct
<1> QED BY <1>1, IdIsInvariant, PTL

=============================================================================
