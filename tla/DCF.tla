-------------------------------- MODULE DCF --------------------------------
(***************************************************************************)
(* Concise DCF (src/src/dcf.c): when a slave has booted, the master reads  *)
(* the objects its DCF lists; if one of them differs it writes them all,   *)
(* and then it starts the slave.  Slaves that boot meanwhile wait.         *)
(*                                                                         *)
(* d is the master's CO_Data, which every function changes, so that an     *)
(* action is one call: post_SlaveBootup, or the callback of an SDO         *)
(* transfer.  A client entry of the dictionary has at most one line on use *)
(* (OneLinePerPeer of SDO); the frames of a transfer are abstracted to a   *)
(* request that the slave serves once or that is lost, and an answer.      *)
(* The SDO client may take no request, and may end a transfer by itself,   *)
(* both without the callback that dcf.c waits for (dropped).               *)
(***************************************************************************)
EXTENDS Integers, Sequences

CONSTANTS
  NMT_MAX_NODE_ID,   \* length of NMTable, 128
  Slaves,            \* their node ids
  NbClients,         \* client entries 0x1280 ... of the master
  Preset,            \* the server each entry is for at first, NoNode if free
  Indexes, Values,
  Size,              \* bytes of each value
  Cut,               \* what the cast (UNS8) of its size leaves of each value
  SDO_MAX_LENGTH_TRANSFER,
  ConciseDCF,        \* 0x1F22: the entries [index, value] of each slave
  Factories,         \* what may be the objects of the slaves before they have saved
  Lacks,             \* the objects each slave has not got, or will not write
  HeartbeatProducers,
  SavingBuilds,      \* whether DCF_SAVE_NODE may be defined
  MaxLosses,         \* bound: frames that are lost, or come late or twice
  MaxCrashes,        \* bound: slaves that crash
  MaxRefusals        \* bound: times at which the SDO client begins to refuse

NoNode == 0
StoreIndex == 4112  \* 0x1010

\* The bytes a transfer of (UNS8)size bytes brings: one of 0 bytes is sent as one of 4.
CastSize(size) == IF size % 256 = 0 THEN 4 ELSE size % 256

ASSUME DCFAssumption ==
  /\ NMT_MAX_NODE_ID \in Nat \ {0}
  /\ Slaves \subseteq 1 .. NMT_MAX_NODE_ID - 1
  /\ NbClients \in Nat
  /\ Preset \in [0 .. NbClients - 1 -> Slaves \cup {NoNode}]
  /\ \A e, f \in 0 .. NbClients - 1 : Preset[e] = Preset[f] => e = f \/ Preset[e] = NoNode
  /\ Size \in [Values -> Nat \ {0}]
  /\ Cut \in [Values -> Values]
  /\ \A v \in Values : IF Size[v] < 256 THEN Cut[v] = v ELSE Size[Cut[v]] = CastSize(Size[v])
  /\ SDO_MAX_LENGTH_TRANSFER \in Nat \ 0 .. 3
  /\ ConciseDCF \in [Slaves -> Seq([index : Indexes, value : Values])]
  /\ \A n \in Slaves : \A i, j \in DOMAIN ConciseDCF[n] :
       ConciseDCF[n][i].index = ConciseDCF[n][j].index => ConciseDCF[n][i] = ConciseDCF[n][j]
  /\ Factories \subseteq [Slaves -> [Indexes -> Values]]
  /\ Lacks \in [Slaves -> SUBSET (Indexes \cup {StoreIndex})]
  /\ HeartbeatProducers \subseteq Slaves
  /\ SavingBuilds \subseteq BOOLEAN
  /\ MaxLosses \in Nat /\ MaxCrashes \in Nat /\ MaxRefusals \in Nat

VARIABLES
  d,         \* the master's CO_Data
  saving,    \* DCF_SAVE_NODE is defined
  refusing,  \* no line is free, or canSend fails: the SDO client takes no request
  slave,     \* every slave: its state, its objects and those it saved
  bootups,   \* boot-up frames on their way
  commands,  \* NMT commands on their way
  disturbed, \* history: the slaves that booted while the master was at them
  losses, crashes, refusals

vars == <<d, saving, refusing, slave, bootups, commands, disturbed, losses, crashes, refusals>>

-----------------------------------------------------------------------------
Initialisation == "initialisation"
Connecting == "connecting"
Unknown_state == "unknown"

INIT == "init"
READ_CHECK == "read check"
WRITE == "write"
SAVED == "saved"

NMT_Start_Node == "start"
NMT_Reset_Node == "reset"

Off == "off"
Pre_operational == "pre-operational"
Operational == "operational"

READ == "read"
STORE == "save"  \* a write of "save" to StoreIndex

FREE == "free"
ASKED == "asked"
ANSWERED == "answered"
LOST == "lost"
FINISHED == "finished"
ABORTED_RCV == "aborted by peer"
ABORTED_INTERNAL == "aborted by the client"

NoLine == [state |-> FREE, op |-> READ, index |-> NoNode, value |-> NoNode]

BUFFER == 4  \* bytes CheckSDOAndContinue has for what it reads

Clients == 0 .. NbClients - 1
None == -1

Init ==
  /\ d = [dcf_status |-> INIT, dcf_entries_count |-> 0,
          NMTable |-> [n \in Slaves |-> Unknown_state],
          clients |-> Preset, lines |-> [e \in Clients |-> NoLine], sent |-> <<>>,
          dropped |-> FALSE]
  /\ saving \in SavingBuilds /\ refusing = FALSE
  /\ \E f \in Factories :
       slave = [n \in Slaves |-> [state |-> Off, objects |-> f[n], saved |-> f[n]]]
  /\ bootups = {} /\ commands = <<>> /\ disturbed = {}
  /\ losses = 0 /\ crashes = 0 /\ refusals = 0

-----------------------------------------------------------------------------
(***************************************************************************)
(* The SDO calls of the master.                                            *)
(***************************************************************************)
LowestClient(S) == IF S = {} THEN None ELSE CHOOSE e \in S : \A f \in S : e <= f

GetSDOClientFromNodeId(c, node) == LowestClient({e \in Clients : c.clients[e] = node})

\* A request comes to nothing, and nobody is called back.
Dropped(c) == [c EXCEPT !.dropped = TRUE]

\* _writeNetworkDict and _readNetworkDict on the client entry found.
OnClient(c, e, op, entry) ==
  IF c.lines[e].state # FREE THEN c
  ELSE IF refusing THEN Dropped(c)
  ELSE [c EXCEPT !.lines[e] = [state |-> ASKED, op |-> op,
                               index |-> entry.index, value |-> entry.value]]

(***************************************************************************)
(* writeNetworkDictCallBackAI and readNetworkDictCallbackAI: what is too   *)
(* long is not written; without an entry for the node the first free one   *)
(* becomes the node's.  What they return is logged by their callers and    *)
(* otherwise ignored.                                                      *)
(***************************************************************************)
NetworkDictAI(c, node, op, entry) ==
  LET e == GetSDOClientFromNodeId(c, node)
      free == GetSDOClientFromNodeId(c, NoNode)
  IN  IF op = WRITE /\ Size[entry.value] > SDO_MAX_LENGTH_TRANSFER THEN Dropped(c)
      ELSE IF e # None THEN OnClient(c, e, op, entry)
      ELSE IF free = None THEN c
      ELSE OnClient([c EXCEPT !.clients[free] = node], free, op, entry)

\* Mutant of resetClientSDOLineFromNodeId: a finished line stays.
ResetsUnfinished(c, node) ==
  LET e == GetSDOClientFromNodeId(c, node)
  IN  IF e = None \/ c.lines[e].state = FINISHED THEN c ELSE [c EXCEPT !.lines[e] = NoLine]

resetClientSDOLineFromNodeId(c, node) ==
  LET e == GetSDOClientFromNodeId(c, node)
  IN  IF e = None THEN c ELSE [c EXCEPT !.lines[e] = NoLine]

\* The line getReadResultNetworkDict and getWriteResultNetworkDict look at.
LineFor(c, node) ==
  LET e == GetSDOClientFromNodeId(c, node) IN IF e = None THEN NoLine ELSE c.lines[e]

\* A read that fits the buffer, and a write, release the line.
HasResult(l) == l.state = FINISHED /\ (l.op = READ => Size[l.value] <= BUFFER)

-----------------------------------------------------------------------------
(***************************************************************************)
(* The cursor over the entries of a DCF.                                   *)
(***************************************************************************)
init_consise_dcf(c, node) == [c EXCEPT !.dcf_entries_count = 0, !.dcf_status = INIT]

HasDCF(node) == ConciseDCF[node] # <<>>

\* get_next_DCF_data has an entry.
HasNext(c, node) == c.dcf_entries_count < Len(ConciseDCF[node])

NextEntry(c, node, op, entry) ==
  NetworkDictAI([c EXCEPT !.dcf_entries_count = @ + 1], node, op, entry)

read_consise_dcf_next_entry(c, node) ==
  NextEntry(c, node, READ, ConciseDCF[node][c.dcf_entries_count + 1])

\* The size is cast to UNS8.
CastEntry(entry) == [entry EXCEPT !.value = Cut[@]]

write_consise_dcf_next_entry(c, node) ==
  NextEntry(c, node, WRITE, CastEntry(ConciseDCF[node][c.dcf_entries_count + 1]))

\* dcf_data and dcf_size: those of the entry last fetched.
dcf_data(c, node) == ConciseDCF[node][c.dcf_entries_count].value

SaveNode(c, node) == NetworkDictAI(c, node, STORE, [index |-> StoreIndex, value |-> NoNode])

Commanded(c, node, cs) == [c EXCEPT !.sent = Append(@, [cs |-> cs, node |-> node])]

start_node(c, node) ==
  [Commanded(c, node, NMT_Start_Node) EXCEPT !.NMTable[node] = Connecting]

(***************************************************************************)
(* check_and_start_node; checks says whether it returns 2.                 *)
(***************************************************************************)
CheckAndStart(c, node) ==
  IF c.dcf_status # INIT \/ NbClients = 0 THEN [d |-> c, checks |-> FALSE]
  ELSE LET a == [c EXCEPT !.clients[0] = NoNode]
           i == init_consise_dcf(a, node)
       IN  IF ~HasDCF(node) THEN [d |-> start_node(a, node), checks |-> FALSE]
           ELSE [d |-> [read_consise_dcf_next_entry(i, node) EXCEPT !.dcf_status = READ_CHECK],
                 checks |-> TRUE]

\* Mutant of Seek: nobody is looked for.
SeekNobody(c) == [c EXCEPT !.dcf_status = INIT]

Visit(s, node) ==
  IF ~s.checks /\ node \in Slaves /\ s.d.NMTable[node] = Initialisation
  THEN CheckAndStart(s.d, node) ELSE s

(***************************************************************************)
(* start_and_seek_node.  The status is INIT at its end, unless a check has *)
(* been started; while it seeks the status is what it was.                 *)
(***************************************************************************)
Seek(c) ==
  LET upTo[node \in 0 .. NMT_MAX_NODE_ID - 1] ==
        IF node = 0 THEN [d |-> c, checks |-> FALSE] ELSE Visit(upTo[node - 1], node)
      found == upTo[NMT_MAX_NODE_ID - 1]
  IN  IF found.checks THEN found.d ELSE [found.d EXCEPT !.dcf_status = INIT]

start_and_seek_node(c, node) == Seek(start_node(c, node))

\* The label dcferror.
dcferror(c, node) ==
  Seek([resetClientSDOLineFromNodeId(c, node)
        EXCEPT !.NMTable[node] = Unknown_state, !.dcf_status = INIT])

\* Mutant of Matches: what was read is not compared.
MatchesAnything(c, node) == TRUE

Matches(c, node) == LineFor(c, node).value = dcf_data(c, node)

\* Mutant of AfterRead: rewriting goes on as a check.
AfterReadStillChecking(c, node) ==
  LET r == resetClientSDOLineFromNodeId(c, node)
  IN  IF Matches(c, node)
      THEN IF HasNext(r, node) THEN read_consise_dcf_next_entry(r, node)
           ELSE start_and_seek_node(r, node)
      ELSE [write_consise_dcf_next_entry(init_consise_dcf(r, node), node)
            EXCEPT !.dcf_status = READ_CHECK]

AfterRead(c, node) ==
  LET r == resetClientSDOLineFromNodeId(c, node)
  IN  IF Matches(c, node)
      THEN IF HasNext(r, node) THEN read_consise_dcf_next_entry(r, node)
           ELSE start_and_seek_node(r, node)
      ELSE [write_consise_dcf_next_entry(init_consise_dcf(r, node), node)
            EXCEPT !.dcf_status = WRITE]

AfterWrite(c, node) ==
  LET r == resetClientSDOLineFromNodeId(c, node)
  IN  IF HasNext(r, node) THEN write_consise_dcf_next_entry(r, node)
      ELSE IF saving THEN [SaveNode(r, node) EXCEPT !.dcf_status = SAVED]
      ELSE start_and_seek_node([r EXCEPT !.dcf_status = INIT], node)

AfterSave(c, node) ==
  [Commanded(resetClientSDOLineFromNodeId(c, node), node, NMT_Reset_Node)
   EXCEPT !.dcf_status = INIT, !.NMTable[node] = Unknown_state]

CheckSDOAndContinue(c, node) ==
  IF c.dcf_status = INIT THEN c
  ELSE IF ~HasResult(LineFor(c, node)) THEN dcferror(c, node)
  ELSE CASE c.dcf_status = READ_CHECK -> AfterRead(c, node)
         [] c.dcf_status = WRITE -> AfterWrite(c, node)
         [] c.dcf_status = SAVED -> AfterSave(c, node)

-----------------------------------------------------------------------------
(***************************************************************************)
(* The master's actions.  What a call sends is on its way when it returns. *)
(***************************************************************************)
MasterBecomes(c) ==
  /\ d' = [c EXCEPT !.sent = <<>>]
  /\ commands' = commands \o c.sent

\* proceedNODE_GUARD gets a boot-up frame and calls check_and_start_node.
post_SlaveBootup(n) ==
  /\ n \in bootups
  /\ bootups' = bootups \ {n}
  /\ MasterBecomes(CheckAndStart([d EXCEPT !.NMTable[n] = Initialisation], n).d)
  /\ UNCHANGED <<saving, refusing, slave, disturbed, losses, crashes, refusals>>

\* An object that does not fit the line.
TooLong(l) ==
  l.state = ANSWERED /\ l.op = READ /\ Size[l.value] > SDO_MAX_LENGTH_TRANSFER

(***************************************************************************)
(* The end of a transfer: an answer, whose COB-id must be that of a client *)
(* entry, or an abort, and the watchdog, for what is lost or not answered. *)
(* The callback gets the node the entry is for by now.  A line that timed  *)
(* out is not on use and reset after the callback.                         *)
(***************************************************************************)
ProceedSDO(e) ==
  /\ d.lines[e].state \in {ANSWERED, ABORTED_RCV}
  /\ ~TooLong(d.lines[e])
  /\ MasterBecomes(CheckSDOAndContinue(
       IF d.lines[e].state = ANSWERED THEN [d EXCEPT !.lines[e].state = FINISHED] ELSE d,
       d.clients[e]))
  /\ UNCHANGED <<saving, refusing, slave, bootups, disturbed, losses, crashes, refusals>>

\* failedSDO: the client aborts the transfer itself, stops the timer and calls nobody.
failedSDO(e) ==
  d' = [Dropped(d) EXCEPT !.lines[e].state = ABORTED_INTERNAL]

ReceiveTooLong(e) ==
  /\ TooLong(d.lines[e])
  /\ failedSDO(e)
  /\ UNCHANGED <<saving, refusing, slave, bootups, commands, disturbed, losses, crashes, refusals>>

NobodyServes(e) ==
  \/ d.lines[e].state = LOST
  \/ d.lines[e].state = ASKED /\ slave[d.clients[e]].state = Off

SDOTimeoutAlarm(e) ==
  /\ NobodyServes(e)
  /\ MasterBecomes(CheckSDOAndContinue([d EXCEPT !.lines[e] = NoLine], d.clients[e]))
  /\ UNCHANGED <<saving, refusing, slave, bootups, disturbed, losses, crashes, refusals>>

-----------------------------------------------------------------------------
(***************************************************************************)
(* The slaves, which are what dcf.c expects of them: they do what an SDO   *)
(* asks or abort it, keep over a reset what they saved, and obey NMT.      *)
(***************************************************************************)
\* The master is at a slave: it waits for it or has told it to start.
AtSlave(n) ==
  \/ \E e \in Clients : d.clients[e] = n /\ d.lines[e].state # FREE
  \/ \E i \in DOMAIN commands : commands[i] = [cs |-> NMT_Start_Node, node |-> n]

Boot(n) ==
  /\ slave[n].state = Off
  /\ slave' = [slave EXCEPT ![n].state = Pre_operational, ![n].objects = slave[n].saved]
  /\ bootups' = bootups \cup {n}
  /\ disturbed' = IF AtSlave(n) THEN disturbed \cup {n} ELSE disturbed \ {n}
  /\ UNCHANGED <<d, saving, refusing, commands, losses, crashes, refusals>>

Served(n, l) ==
  CASE l.op = READ -> slave[n]
    [] l.op = WRITE -> [slave[n] EXCEPT !.objects[l.index] = l.value]
    [] l.op = STORE -> [slave[n] EXCEPT !.saved = slave[n].objects]

Serve(e) ==
  LET l == d.lines[e]
      n == d.clients[e]
  IN  /\ l.state = ASKED
      /\ slave[n].state # Off
      /\ IF l.index \in Lacks[n]
         THEN /\ d' = [d EXCEPT !.lines[e].state = ABORTED_RCV]
              /\ UNCHANGED slave
         ELSE /\ d' = [d EXCEPT !.lines[e].state = ANSWERED,
                                !.lines[e].value = IF l.op = READ THEN slave[n].objects[l.index]
                                                   ELSE @]
              /\ slave' = [slave EXCEPT ![n] = Served(n, l)]
  /\ UNCHANGED <<saving, refusing, bootups, commands, disturbed, losses, crashes, refusals>>

Obey ==
  /\ commands # <<>>
  /\ commands' = Tail(commands)
  /\ LET m == Head(commands)
     IN  slave' = IF slave[m.node].state = Off THEN slave
                  ELSE [slave EXCEPT ![m.node].state =
                          IF m.cs = NMT_Start_Node THEN Operational ELSE Off]
  /\ UNCHANGED <<d, saving, refusing, bootups, disturbed, losses, crashes, refusals>>

\* The heartbeat of a slave: proceedNODE_GUARD stores its state.
Heartbeat(n) ==
  /\ n \in HeartbeatProducers
  /\ slave[n].state # Off /\ n \notin bootups
  /\ d' = [d EXCEPT !.NMTable[n] = slave[n].state]
  /\ UNCHANGED <<saving, refusing, slave, bootups, commands, disturbed, losses, crashes, refusals>>

(***************************************************************************)
(* A request or an answer is lost; or a frame of an earlier transfer comes *)
(* late or a second time and does not fit the one in progress.             *)
(***************************************************************************)
Lose(e) ==
  /\ losses < MaxLosses
  /\ losses' = losses + 1
  /\ d.lines[e].state \in {ASKED, ANSWERED}
  /\ d' = [d EXCEPT !.lines[e].state = LOST]
  /\ UNCHANGED <<saving, refusing, slave, bootups, commands, disturbed, crashes, refusals>>

Stray(e) ==
  /\ losses < MaxLosses
  /\ losses' = losses + 1
  /\ d.lines[e].state \in {ASKED, ANSWERED}
  /\ failedSDO(e)
  /\ UNCHANGED <<saving, refusing, slave, bootups, commands, disturbed, crashes, refusals>>

\* A command is lost, or was not sent: nobody looks at what masterSendNMTstateChange returns.
LoseCommand ==
  /\ losses < MaxLosses
  /\ losses' = losses + 1
  /\ commands # <<>>
  /\ commands' = Tail(commands)
  /\ UNCHANGED <<d, saving, refusing, slave, bootups, disturbed, crashes, refusals>>

\* Other transfers take the last line or give one back, the CAN port stops sending or goes on.
Refuse ==
  /\ refusing' = ~refusing
  /\ refusals < MaxRefusals \/ refusing
  /\ refusals' = IF refusing THEN refusals ELSE refusals + 1
  /\ UNCHANGED <<d, saving, slave, bootups, commands, disturbed, losses, crashes>>

Crash(n) ==
  /\ crashes < MaxCrashes
  /\ crashes' = crashes + 1
  /\ slave[n].state # Off
  /\ slave' = [slave EXCEPT ![n].state = Off]
  /\ UNCHANGED <<d, saving, refusing, bootups, commands, disturbed, losses, refusals>>

Next ==
  \/ \E n \in Slaves : post_SlaveBootup(n) \/ Boot(n) \/ Heartbeat(n) \/ Crash(n)
  \/ \E e \in Clients : ProceedSDO(e) \/ ReceiveTooLong(e) \/ SDOTimeoutAlarm(e)
  \/ \E e \in Clients : Serve(e) \/ Lose(e) \/ Stray(e)
  \/ Obey \/ LoseCommand \/ Refuse

(***************************************************************************)
(* Requests are served or time out, and the master handles what came of    *)
(* them: WF_vars(Proceeds), with its ENABLED written out for TLC's sake.   *)
(***************************************************************************)
Proceeds ==
  \E e \in Clients : Serve(e) \/ ProceedSDO(e) \/ ReceiveTooLong(e) \/ SDOTimeoutAlarm(e)

MayProceed == \E e \in Clients : d.lines[e].state \in {ASKED, LOST, ANSWERED, ABORTED_RCV}

Spec == Init /\ [][Next]_vars /\ ([]<>(~MayProceed) \/ []<><<Proceeds>>_vars)

-----------------------------------------------------------------------------
(***************************************************************************)
(* A slave with a DCF gets operational only with every object as its DCF   *)
(* says, or as the cast of its size to UNS8 leaves it (dcf.c:255), whether *)
(* the check found that or the master wrote it (dcf.c:118), unless the     *)
(* slave booted in the middle of that, which the master does not notice.   *)
(***************************************************************************)
StartedMeansConfigured ==
  \A n \in Slaves \ disturbed :
    slave[n].state = Operational =>
      \A i \in DOMAIN ConciseDCF[n] :
        slave[n].objects[ConciseDCF[n][i].index]
          \in {ConciseDCF[n][i].value, Cut[ConciseDCF[n][i].value]}

(***************************************************************************)
(* dcf_status, which keeps every other slave waiting (dcf.c:73), says that *)
(* a transfer is in progress and does not outlive it, whatever was lost,   *)
(* aborted or too long for the check: there is exactly one line then, and  *)
(* none else.  Only where the SDO client refuses a request or fails by     *)
(* itself, and calls nobody (dcf.c:261, sdo.c:427), may the status stay    *)
(* behind, and at most the line that failed with it.  An entry of 0x1280   *)
(* is used for one slave, and a slave has one at most.                     *)
(***************************************************************************)
OnUse == {e \in Clients : d.lines[e].state # FREE}

StatusFollowsTransfer ==
  /\ IF d.dcf_status = INIT THEN OnUse = {}
     ELSE IF d.dropped THEN \A e \in OnUse : OnUse = {e} /\ d.lines[e].state = ABORTED_INTERNAL
     ELSE \E e \in Clients : OnUse = {e} /\ d.lines[e].state # ABORTED_INTERNAL
  /\ \A e, f \in Clients : d.clients[e] = d.clients[f] => e = f \/ d.clients[e] = NoNode

(***************************************************************************)
(* When the objects have been written, or an error broke the check off,    *)
(* the slaves that booted meanwhile are looked for (dcf.c:98): the next    *)
(* check has begun, or nobody waits.  After a check that found everything  *)
(* as it should be, and after a save, the code does not do so.             *)
(***************************************************************************)
BrokenOff ==
  \E e \in Clients : /\ d.lines[e].state # FREE
                     /\ d.dcf_status # SAVED
                     /\ d'.NMTable[d.clients[e]] = Unknown_state
                     /\ d.NMTable[d.clients[e]] # Unknown_state

NobodyForgotten ==
  [][(d.dcf_status = WRITE \/ BrokenOff) /\ d'.dcf_status = INIT
       => \A n \in Slaves : d'.NMTable[n] # Initialisation]_vars

(***************************************************************************)
(* A check comes to its end, with the slave started or given up, also when *)
(* the slave crashes or refuses or an object is longer than the check can  *)
(* read (dcf.c:160), and the master is free for others; unless the SDO     *)
(* client dropped a transfer without a callback, which dcf.c does not      *)
(* notice (dcf.c:261).                                                     *)
(***************************************************************************)
EveryCheckEnds == d.dcf_status # INIT ~> (d.dcf_status = INIT \/ d.dropped)

=============================================================================
