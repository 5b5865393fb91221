---------------------------- MODULE DCF_proofs ----------------------------
(***************************************************************************)
(* Proofs about DCF: dcf_status is left without its transfer only where    *)
(* the SDO client drops one without a callback, a slave that is started    *)
(* has what its DCF says, and slaves that wait are looked for.             *)
(*                                                                         *)
(* c is the master before a function, y the one after it.                  *)
(***************************************************************************)
EXTENDS DCF, WellFoundedInduction, TLAPS

-----------------------------------------------------------------------------
(***************************************************************************)
(* Loops.                                                                  *)
(***************************************************************************)
\* Induction over a loop that counts up to n.
LEMMA LoopInduction ==
  ASSUME NEW n \in Nat, NEW T, 0 \in T, \A k \in 1 .. n : k - 1 \in T => k \in T
  PROVE  \A k \in 0 .. n : k \in T
<1> DEFINE S == (0 .. n) \ T
<1> SUFFICES ASSUME S # {} PROVE FALSE
  OBVIOUS
<1>1. S \subseteq Nat
  OBVIOUS
<1>2. IsWellFoundedOn(OpToRel(<, Nat), Nat)
  BY NatLessThanWellFounded, Zenon
<1>3. PICK k \in S : \A q \in S : ~(<<q, k>> \in OpToRel(<, Nat))
  <2> HIDE DEF S
  <2> QED BY <1>1, <1>2, WFMin, Zenon
<1>4. \A q \in S : ~(q < k)
  BY <1>1, <1>3, Zenon DEF OpToRel
<1>5. k \in 1 .. n /\ k - 1 \in 0 .. n
  <2>1. k \in 0 .. n /\ k # 0
    BY <1>3
  <2> HIDE DEF S
  <2> QED BY <2>1
<1>6. k - 1 \notin S
  BY <1>4, <1>5
<1> QED BY <1>3, <1>5, <1>6

\* A loop of n steps within S: F[i] is its i-th.
Steps(F, n, S) == n \in Nat /\ F \in [1 .. n -> [S -> S]]

\* The states it takes x through.
Run(F, n, S, x) ==
  \E g \in [0 .. n -> S] : g[0] = x /\ \A i \in 1 .. n : g[i] = F[i][g[i - 1]]

\* There are such states.
LEMMA LoopIsDefined ==
  ASSUME NEW n, NEW S, NEW x \in S, NEW F, Steps(F, n, S)
  PROVE  Run(F, n, S, x)
<1>0. n \in Nat /\ F \in [1 .. n -> [S -> S]]
  BY DEF Steps
<1> DEFINE T == {k \in 0 .. n : \E g \in [0 .. k -> S] :
                   g[0] = x /\ \A i \in 1 .. k : g[i] = F[i][g[i - 1]]}
<1>1. 0 \in T
  <2> DEFINE g == [i \in 0 .. 0 |-> x]
  <2>1. g \in [0 .. 0 -> S] /\ g[0] = x /\ \A i \in 1 .. 0 : g[i] = F[i][g[i - 1]]
    OBVIOUS
  <2> HIDE DEF g
  <2> QED BY <1>0, <2>1
<1>2. ASSUME NEW k \in 1 .. n, k - 1 \in T PROVE k \in T
  <2>1. PICK g \in [0 .. k - 1 -> S] :
          g[0] = x /\ \A i \in 1 .. k - 1 : g[i] = F[i][g[i - 1]]
    BY <1>2
  <2> DEFINE h == [i \in 0 .. k |-> IF i = k THEN F[k][g[k - 1]] ELSE g[i]]
  <2>2. g[k - 1] \in S /\ F[k] \in [S -> S]
    <3>1. k - 1 \in 0 .. k - 1
      OBVIOUS
    <3> QED BY <1>0, <2>1, <3>1
  <2>3. h \in [0 .. k -> S]
    <3>1. ASSUME NEW i \in 0 .. k, i # k PROVE g[i] \in S
      <4>1. i \in 0 .. k - 1
        BY <3>1
      <4> QED BY <2>1, <4>1
    <3> QED BY <2>2, <3>1
  <2>4. h[0] = x
    BY <2>1
  <2>5. ASSUME NEW i \in 1 .. k PROVE h[i] = F[i][h[i - 1]]
    <3>1. h[i - 1] = g[i - 1]
      OBVIOUS
    <3>2. CASE i = k
      BY <3>1, <3>2
    <3>3. CASE i # k
      <4>1. i \in 1 .. k - 1 /\ h[i] = g[i]
        BY <3>3
      <4> HIDE DEF h
      <4> QED BY <2>1, <3>1, <4>1
    <3> QED BY <3>2, <3>3
  <2> HIDE DEF h
  <2>6. \E f \in [0 .. k -> S] : f[0] = x /\ \A i \in 1 .. k : f[i] = F[i][f[i - 1]]
    BY <2>3, <2>4, <2>5
  <2>7. k \in 0 .. n
    BY <1>0
  <2> QED BY <2>6, <2>7
<1>3. n \in T
  <2> HIDE DEF T
  <2>1. \A k \in 1 .. n : k - 1 \in T => k \in T
    BY <1>2
  <2>2. \A k \in 0 .. n : k \in T
    BY <1>0, <1>1, <2>1, LoopInduction
  <2>3. n \in 0 .. n
    BY <1>0
  <2> QED BY <2>2, <2>3
<1> QED BY <1>3 DEF Run

-----------------------------------------------------------------------------
LineStates == {FREE, ASKED, ANSWERED, LOST, FINISHED, ABORTED_RCV, ABORTED_INTERNAL}
Lines ==
  [state : LineStates, op : {READ, WRITE, STORE},
   index : Indexes \cup {StoreIndex, NoNode}, value : Values \cup {NoNode}]

Heard == {Unknown_state, Initialisation, Connecting, Pre_operational, Operational}
Told == [cs : {NMT_Start_Node, NMT_Reset_Node}, node : Slaves]

Masters ==
  [dcf_status : {INIT, READ_CHECK, WRITE, SAVED}, dcf_entries_count : Nat,
   NMTable : [Slaves -> Heard], clients : [Clients -> Slaves \cup {NoNode}],
   lines : [Clients -> Lines], sent : Seq(Told), dropped : BOOLEAN]

\* A client entry is used for one slave, and a slave has one at most.
Owned(c) ==
  \A e, f \in Clients : c.clients[e] = c.clients[f] => e = f \/ c.clients[e] = NoNode

NoLineOnUse(c) == \A e \in Clients : c.lines[e].state = FREE

Idle(c) == NoLineOnUse(c) /\ c.dropped = FALSE

Only(c, e) == \A f \in Clients \ {e} : c.lines[f].state = FREE

\* A transfer that will come to its end.
Live(l) == l.state \notin {FREE, ABORTED_INTERNAL}

\* Entry e is at work for the status, on the entry of the DCF last fetched.
Busy(c, e) ==
  LET node == c.clients[e]
      line == c.lines[e]
      entry == ConciseDCF[node][c.dcf_entries_count]
  IN  /\ Live(line) /\ Only(c, e) /\ c.dropped = FALSE
      /\ node \in Slaves
      /\ c.dcf_entries_count \in 1 .. Len(ConciseDCF[node])
      /\ c.dcf_status = READ_CHECK => line.op = READ /\ line.index = entry.index
      /\ c.dcf_status = WRITE =>
           line.op = WRITE /\ line.index = entry.index /\ line.value = Cut[entry.value]
      /\ c.dcf_status = SAVED => line.op = STORE

\* No transfer is in progress, and no callback will come.
Stuck(c) ==
  /\ c.dropped = TRUE
  /\ \A e \in Clients : c.lines[e].state # FREE =>
       Only(c, e) /\ c.lines[e].state = ABORTED_INTERNAL

MasterInOrder(c) ==
  /\ c \in Masters /\ Owned(c)
  /\ c.dcf_status = INIT => Idle(c)
  /\ c.dcf_status # INIT => Stuck(c) \/ \E e \in Clients : Busy(c, e)

\* An object is as an entry of the DCF says, or as far as its cast size goes.
AsEntry(x, entry) == x \in {entry.value, Cut[entry.value]}

\* Slave n, with objects o[n], has what the first k entries of its DCF say.
Agrees(o, n, k) == \A i \in 1 .. k : AsEntry(o[n][ConciseDCF[n][i].index], ConciseDCF[n][i])

Configured(o, n) == Agrees(o, n, Len(ConciseDCF[n]))

\* What the master has found or written of slave n, through entry e.
Progress(c, e, o, n) ==
  /\ Agrees(o, n, c.dcf_entries_count - 1)
  /\ c.dcf_status = READ_CHECK /\ c.lines[e].state = ANSWERED =>
       c.lines[e].value = o[n][c.lines[e].index]
  /\ c.dcf_status = WRITE /\ c.lines[e].state = ANSWERED => Agrees(o, n, c.dcf_entries_count)
  /\ c.dcf_status = SAVED => Configured(o, n)

\* Of the slaves that are not disturbed (D) that is still true.
Truthful(c, o, D) ==
  \A e \in Clients : Live(c.lines[e]) /\ c.clients[e] \notin D =>
    Progress(c, e, o, c.clients[e])

\* The slaves that commands q tell to start.
Starts(q) == {n \in Slaves : \E i \in DOMAIN q : q[i] = [cs |-> NMT_Start_Node, node |-> n]}

Objects == [n \in Slaves |-> slave[n].objects]

DCFInvariant ==
  /\ MasterInOrder(d) /\ d.sent = <<>>
  /\ slave \in [Slaves -> [state : {Off, Pre_operational, Operational},
                           objects : [Indexes -> Values], saved : [Indexes -> Values]]]
  /\ bootups \subseteq Slaves /\ commands \in Seq(Told)
  /\ Truthful(d, Objects, disturbed)
  /\ \A n \in Slaves \ disturbed :
       slave[n].state = Operational \/ n \in Starts(commands) => Configured(Objects, n)

-----------------------------------------------------------------------------
(***************************************************************************)
(* Entries of a DCF and client entries.                                    *)
(***************************************************************************)
\* The entries of a DCF.
LEMMA EntriesOfDCF ==
  ASSUME NEW n \in Slaves
  PROVE  /\ Len(ConciseDCF[n]) \in Nat
         /\ HasDCF(n) <=> Len(ConciseDCF[n]) # 0
         /\ DOMAIN ConciseDCF[n] = 1 .. Len(ConciseDCF[n])
         /\ \A i \in 1 .. Len(ConciseDCF[n]) : /\ ConciseDCF[n][i].index \in Indexes
                                               /\ ConciseDCF[n][i].value \in Values
<1> DEFINE R == [index : Indexes, value : Values]
           q == ConciseDCF[n]
<1>1. q \in Seq(R)
  BY DCFAssumption
<1>2. \A r \in R : r.index \in Indexes /\ r.value \in Values
  OBVIOUS
<1> HIDE DEF R, q
<1>3. Len(q) \in Nat /\ DOMAIN q = 1 .. Len(q) /\ (q # <<>> <=> Len(q) # 0)
      /\ \A i \in 1 .. Len(q) : q[i] \in R
  BY <1>1
<1> QED BY <1>2, <1>3 DEF HasDCF, q

\* Of some client entries one is the lowest.
LEMMA LowestOfSome ==
  ASSUME NEW S, S \subseteq Clients, S # {}
  PROVE  LowestClient(S) \in S
<1>1. S \subseteq Nat
  BY DCFAssumption DEF Clients
<1>2. IsWellFoundedOn(OpToRel(<, Nat), Nat)
  BY NatLessThanWellFounded, Zenon
<1>3. PICK e \in S : \A f \in S : ~(<<f, e>> \in OpToRel(<, Nat))
  BY <1>1, <1>2, WFMin, Zenon
<1>4. \A f \in S : ~(f < e)
  BY <1>1, <1>3, Zenon DEF OpToRel
<1>5. ASSUME NEW f \in S PROVE e <= f
  <2>1. e \in Nat /\ f \in Nat
    BY <1>1
  <2> QED BY <1>4, <2>1
<1> QED BY <1>5, Zenon DEF LowestClient

\* GetSDOClientFromNodeId finds an entry if there is one.
LEMMA ClientFound ==
  ASSUME NEW c, NEW node
  PROVE  LET e == GetSDOClientFromNodeId(c, node)
         IN  \/ e \in Clients /\ e # None /\ c.clients[e] = node
             \/ e = None /\ \A f \in Clients : c.clients[f] # node
<1> DEFINE S == {e \in Clients : c.clients[e] = node}
<1>1. CASE S = {}
  BY <1>1 DEF GetSDOClientFromNodeId, LowestClient
<1>2. CASE S # {}
  <2>1. LowestClient(S) \in S
    BY <1>2, LowestOfSome
  <2>2. None \notin Clients
    BY DCFAssumption DEF None, Clients
  <2> QED BY <2>1, <2>2 DEF GetSDOClientFromNodeId
<1> QED BY <1>1, <1>2

\* It is the only one.
LEMMA ClientOfSlave ==
  ASSUME NEW c, Owned(c), NEW e \in Clients, c.clients[e] \in Slaves
  PROVE  GetSDOClientFromNodeId(c, c.clients[e]) = e
<1>1. NoNode \notin Slaves
  BY DCFAssumption DEF NoNode
<1> QED BY <1>1, ClientFound DEF Owned

-----------------------------------------------------------------------------
(***************************************************************************)
(* The SDO calls of the master.                                            *)
(***************************************************************************)
\* Nothing but lines and their owners differs.
SameCursor(c, y) ==
  /\ y.dcf_status = c.dcf_status /\ y.dcf_entries_count = c.dcf_entries_count
  /\ y.NMTable = c.NMTable /\ y.sent = c.sent

WithLines(c, clients, lines) == [c EXCEPT !.clients = clients, !.lines = lines]

\* New lines, or owners.
LEMMA LinesSet ==
  ASSUME NEW c \in Masters, NEW clients \in [Clients -> Slaves \cup {NoNode}],
         NEW lines \in [Clients -> Lines]
  PROVE  /\ WithLines(c, clients, lines) \in Masters
         /\ WithLines(c, clients, lines).clients = clients
         /\ WithLines(c, clients, lines).lines = lines
         /\ SameCursor(c, WithLines(c, clients, lines))
         /\ WithLines(c, clients, lines).dropped = c.dropped
BY DEF Masters, WithLines, SameCursor

NewLine(op, entry) == [state |-> ASKED, op |-> op, index |-> entry.index, value |-> entry.value]

\* Entry e, and no other, has a request for node.
Asking(y, e, node, op, entry) ==
  /\ y \in Masters /\ Owned(y) /\ Only(y, e) /\ y.dropped = FALSE
  /\ y.clients[e] = node /\ y.lines[e] = NewLine(op, entry)

\* A request has been made, or refused without a callback.
Refused(y) == y \in Masters /\ Owned(y) /\ NoLineOnUse(y) /\ y.dropped = TRUE

Asked(y, node, op, entry) == Refused(y) \/ \E e \in Clients : Asking(y, e, node, op, entry)

\* A request is refused.
LEMMA RequestIsDropped ==
  ASSUME NEW c \in Masters, NEW y, y = Dropped(c)
  PROVE  /\ y \in Masters /\ SameCursor(c, y) /\ y.dropped = TRUE
         /\ y.clients = c.clients /\ y.lines = c.lines
BY DEF Dropped, Masters, SameCursor

\* A request is made on an entry that is the node's by now.
LEMMA RequestOnClient ==
  ASSUME NEW c \in Masters, Owned(c), Idle(c), NEW e \in Clients, NEW node,
         c.clients[e] = node,
         NEW op \in {READ, WRITE, STORE}, NEW entry,
         entry.index \in Indexes \cup {StoreIndex, NoNode}, entry.value \in Values \cup {NoNode},
         NEW y, y = OnClient(c, e, op, entry)
  PROVE  SameCursor(c, y) /\ Asked(y, node, op, entry)
<1> DEFINE line == NewLine(op, entry)
           lines == [c.lines EXCEPT ![e] = line]
<1>1. line \in Lines /\ line = [state |-> ASKED, op |-> op, index |-> entry.index,
                                value |-> entry.value]
  BY DEF NewLine, Lines, LineStates
<1>2. c.lines[e].state = FREE /\ c.dropped = FALSE
  BY DEF Idle, NoLineOnUse
<1>3. CASE refusing
  <2>1. y = Dropped(c)
    BY <1>2, <1>3 DEF OnClient
  <2>2. /\ y \in Masters /\ SameCursor(c, y) /\ y.dropped = TRUE
        /\ y.clients = c.clients /\ y.lines = c.lines
    BY <2>1, RequestIsDropped
  <2> QED BY <2>2 DEF Asked, Refused, Owned, Idle, NoLineOnUse
<1>4. CASE ~refusing
  <2>1. y = [c EXCEPT !.lines[e] = line]
    BY <1>1, <1>2, <1>4 DEF OnClient
  <2> HIDE DEF line
  <2>2. y = WithLines(c, c.clients, lines)
    BY <2>1 DEF WithLines, Masters
  <2>3. /\ lines \in [Clients -> Lines] /\ c.clients \in [Clients -> Slaves \cup {NoNode}]
        /\ lines[e] = line /\ \A f \in Clients \ {e} : lines[f] = c.lines[f]
    BY <1>1 DEF Masters
  <2> HIDE DEF lines
  <2>4. /\ y \in Masters /\ y.clients = c.clients /\ y.lines = lines /\ SameCursor(c, y)
        /\ y.dropped = c.dropped
    BY <2>2, <2>3, LinesSet
  <2>5. Asking(y, e, node, op, entry)
    BY <1>2, <2>3, <2>4 DEF Owned, Only, Idle, NoLineOnUse, Asking, line
  <2> QED BY <2>4, <2>5 DEF Asked
<1> QED BY <1>3, <1>4

\* A request is made or refused, if a client entry is the node's or free.
LEMMA RequestIsMade ==
  ASSUME NEW c \in Masters, Owned(c), Idle(c), NEW node \in Slaves,
         \E e \in Clients : c.clients[e] \in {node, NoNode},
         NEW op \in {READ, WRITE, STORE}, NEW entry,
         entry.index \in Indexes \cup {StoreIndex, NoNode}, entry.value \in Values \cup {NoNode},
         NEW y, y = NetworkDictAI(c, node, op, entry)
  PROVE  SameCursor(c, y) /\ Asked(y, node, op, entry)
<1> DEFINE e == GetSDOClientFromNodeId(c, node)
           free == GetSDOClientFromNodeId(c, NoNode)
<1>1. NoNode \notin Slaves
  BY DCFAssumption DEF NoNode
<1>2. CASE op = WRITE /\ Size[entry.value] > SDO_MAX_LENGTH_TRANSFER
  <2>1. y = Dropped(c)
    BY <1>2 DEF NetworkDictAI
  <2>2. /\ y \in Masters /\ SameCursor(c, y) /\ y.dropped = TRUE
        /\ y.clients = c.clients /\ y.lines = c.lines
    BY <2>1, RequestIsDropped
  <2> QED BY <2>2 DEF Asked, Refused, Owned, Idle, NoLineOnUse
<1>3. CASE e # None /\ ~(op = WRITE /\ Size[entry.value] > SDO_MAX_LENGTH_TRANSFER)
  <2>1. e \in Clients /\ c.clients[e] = node
    BY <1>3, ClientFound
  <2>2. y = OnClient(c, e, op, entry)
    BY <1>3 DEF NetworkDictAI
  <2> HIDE DEF e
  <2> QED BY <2>1, <2>2, RequestOnClient
<1>4. CASE e = None /\ ~(op = WRITE /\ Size[entry.value] > SDO_MAX_LENGTH_TRANSFER)
  <2>1. \A f \in Clients : c.clients[f] # node
    BY <1>4, ClientFound
  <2>2. free \in Clients /\ free # None /\ c.clients[free] = NoNode
    BY <2>1, ClientFound
  <2>3. y = OnClient([c EXCEPT !.clients[free] = node], free, op, entry)
    BY <1>4, <2>2 DEF NetworkDictAI
  <2> HIDE DEF e, free
  <2> DEFINE clients == [c.clients EXCEPT ![free] = node]
             z == WithLines(c, clients, c.lines)
  <2>4. y = OnClient(z, free, op, entry)
    BY <2>3 DEF WithLines, Masters
  <2>5. /\ c.lines \in [Clients -> Lines] /\ clients \in [Clients -> Slaves \cup {NoNode}]
        /\ clients[free] = node
        /\ \A f \in Clients \ {free} : clients[f] = c.clients[f]
    BY <2>2 DEF Masters
  <2> HIDE DEF clients
  <2>6. /\ z \in Masters /\ z.clients = clients /\ z.lines = c.lines /\ SameCursor(c, z)
        /\ z.dropped = c.dropped
    BY <2>5, LinesSet
  <2> HIDE DEF z
  <2>7. Owned(z) /\ Idle(z)
    BY <2>1, <2>5, <2>6 DEF Owned, Idle, NoLineOnUse
  <2>8. SameCursor(z, y) /\ Asked(y, node, op, entry)
    BY <2>2, <2>4, <2>5, <2>6, <2>7, RequestOnClient
  <2> QED BY <2>6, <2>8 DEF SameCursor
<1> QED BY <1>2, <1>3, <1>4

\* resetClientSDOLineFromNodeId ends the transfer, however it ended itself.
LEMMA LineIsReset ==
  ASSUME NEW c \in Masters, Owned(c), NEW e \in Clients, Only(c, e), c.clients[e] \in Slaves,
         c.dropped = FALSE,
         NEW y, y = resetClientSDOLineFromNodeId(c, c.clients[e])
  PROVE  y \in Masters /\ Owned(y) /\ Idle(y) /\ SameCursor(c, y) /\ y.clients = c.clients
<1>1. GetSDOClientFromNodeId(c, c.clients[e]) = e
  BY ClientOfSlave
<1>2. e # None
  BY DCFAssumption DEF None, Clients
<1>3. y = [c EXCEPT !.lines[e] = NoLine]
  BY <1>1, <1>2 DEF resetClientSDOLineFromNodeId
<1>4. NoLine \in Lines /\ NoLine.state = FREE
  BY DEF NoLine, Lines, LineStates
<1> DEFINE lines == [c.lines EXCEPT ![e] = NoLine]
<1>5. y = WithLines(c, c.clients, lines)
  BY <1>3 DEF WithLines, Masters
<1>6. /\ lines \in [Clients -> Lines] /\ c.clients \in [Clients -> Slaves \cup {NoNode}]
      /\ lines[e] = NoLine /\ \A f \in Clients \ {e} : lines[f] = c.lines[f]
  BY <1>4 DEF Masters
<1> HIDE DEF lines
<1>7. /\ y \in Masters /\ y.clients = c.clients /\ y.lines = lines /\ SameCursor(c, y)
      /\ y.dropped = c.dropped
  BY <1>5, <1>6, LinesSet
<1> QED BY <1>4, <1>6, <1>7 DEF Owned, Idle, NoLineOnUse, Only

-----------------------------------------------------------------------------
(***************************************************************************)
(* Commands.                                                               *)
(***************************************************************************)
\* A command more.
LEMMA StartsOfAppend ==
  ASSUME NEW q \in Seq(Told), NEW m \in Told
  PROVE  /\ Append(q, m) \in Seq(Told)
         /\ Starts(Append(q, m)) = Starts(q) \cup (IF m.cs = NMT_Start_Node THEN {m.node} ELSE {})
<1> DEFINE r == Append(q, m)
<1>1. /\ r \in Seq(Told) /\ Len(q) \in Nat /\ DOMAIN q = 1 .. Len(q)
      /\ DOMAIN r = 1 .. Len(q) + 1 /\ r[Len(q) + 1] = m
      /\ \A i \in 1 .. Len(q) : r[i] = q[i]
  OBVIOUS
<1> HIDE DEF r
<1>2. ASSUME NEW n \in Starts(r) 
      PROVE  n \in Starts(q) \/ (m.cs = NMT_Start_Node /\ n = m.node)
  <2>1. PICK i \in 1 .. Len(q) + 1 : r[i] = [cs |-> NMT_Start_Node, node |-> n]
    BY <1>1 DEF Starts
  <2>2. i \in 1 .. Len(q) \/ i = Len(q) + 1
    BY <1>1
  <2>3. n \in Slaves
    BY DEF Starts
  <2>4. CASE i \in 1 .. Len(q)
    <3>1. i \in DOMAIN q /\ q[i] = [cs |-> NMT_Start_Node, node |-> n]
      BY <1>1, <2>1, <2>4
    <3> QED BY <2>3, <3>1 DEF Starts
  <2>5. CASE i = Len(q) + 1
    BY <1>1, <2>1, <2>5
  <2> QED BY <2>2, <2>4, <2>5
<1>3. ASSUME NEW n \in Starts(q) PROVE n \in Starts(r)
  <2>1. PICK i \in 1 .. Len(q) : q[i] = [cs |-> NMT_Start_Node, node |-> n] /\ n \in Slaves
    BY <1>1 DEF Starts
  <2>2. i \in DOMAIN r
    BY <1>1
  <2> QED BY <1>1, <2>1, <2>2 DEF Starts
<1>4. ASSUME m.cs = NMT_Start_Node PROVE m.node \in Starts(r)
  <2>1. m = [cs |-> NMT_Start_Node, node |-> m.node] /\ m.node \in Slaves
    BY <1>4 DEF Told
  <2>2. Len(q) + 1 \in DOMAIN r
    BY <1>1
  <2> QED BY <1>1, <2>1, <2>2 DEF Starts
<1> QED BY <1>1, <1>2, <1>3, <1>4 DEF r

\* Commands that follow others.
LEMMA StartsOfConcat ==
  ASSUME NEW q \in Seq(Told), NEW r \in Seq(Told)
  PROVE  q \o r \in Seq(Told) /\ Starts(q \o r) \subseteq Starts(q) \cup Starts(r)
<1> DEFINE s == q \o r
<1>1. /\ s \in Seq(Told) /\ Len(q) \in Nat /\ Len(r) \in Nat
      /\ DOMAIN q = 1 .. Len(q) /\ DOMAIN r = 1 .. Len(r)
      /\ DOMAIN s = 1 .. Len(q) + Len(r)
      /\ \A i \in 1 .. Len(q) + Len(r) : s[i] = IF i <= Len(q) THEN q[i] ELSE r[i - Len(q)]
  OBVIOUS
<1> HIDE DEF s
<1>2. ASSUME NEW n \in Starts(s) PROVE n \in Starts(q) \cup Starts(r)
  <2>1. PICK i \in 1 .. Len(q) + Len(r) : s[i] = [cs |-> NMT_Start_Node, node |-> n]
    BY <1>1 DEF Starts
  <2>2. n \in Slaves
    BY DEF Starts
  <2>3. CASE i <= Len(q)
    <3>1. i \in DOMAIN q /\ q[i] = [cs |-> NMT_Start_Node, node |-> n]
      BY <1>1, <2>1, <2>3
    <3> QED BY <2>2, <3>1 DEF Starts
  <2>4. CASE ~(i <= Len(q))
    <3>1. i - Len(q) \in DOMAIN r /\ r[i - Len(q)] = [cs |-> NMT_Start_Node, node |-> n]
      BY <1>1, <2>1, <2>4
    <3> QED BY <2>2, <3>1 DEF Starts
  <2> QED BY <2>3, <2>4
<1> QED BY <1>1, <1>2 DEF s

\* The first is obeyed.
LEMMA StartsOfTail ==
  ASSUME NEW q \in Seq(Told), q # <<>>
  PROVE  /\ Head(q) \in Told /\ Tail(q) \in Seq(Told)
         /\ Starts(Tail(q)) \subseteq Starts(q)
         /\ Head(q).cs = NMT_Start_Node => Head(q).node \in Starts(q)
<1>1. /\ Head(q) \in Told /\ Tail(q) \in Seq(Told) /\ Head(q) = q[1]
      /\ Len(q) \in Nat /\ Len(q) # 0 /\ DOMAIN q = 1 .. Len(q)
      /\ DOMAIN Tail(q) = 1 .. Len(q) - 1
      /\ \A i \in 1 .. Len(q) - 1 : Tail(q)[i] = q[i + 1]
  OBVIOUS
<1>2. ASSUME NEW n \in Starts(Tail(q)) PROVE n \in Starts(q)
  <2>1. PICK i \in 1 .. Len(q) - 1 : Tail(q)[i] = [cs |-> NMT_Start_Node, node |-> n]
    BY <1>1 DEF Starts
  <2>2. i + 1 \in DOMAIN q /\ q[i + 1] = [cs |-> NMT_Start_Node, node |-> n]
    BY <1>1, <2>1
  <2> QED BY <2>2 DEF Starts
<1>3. ASSUME Head(q).cs = NMT_Start_Node PROVE Head(q).node \in Starts(q)
  <2>1. Head(q) = [cs |-> NMT_Start_Node, node |-> Head(q).node] /\ Head(q).node \in Slaves
    BY <1>1, <1>3 DEF Told
  <2>2. 1 \in DOMAIN q
    BY <1>1
  <2> QED BY <1>1, <2>1, <2>2 DEF Starts
<1> QED BY <1>1, <1>2, <1>3

WithNews(c, table, sent) == [c EXCEPT !.NMTable = table, !.sent = sent]

\* Another state of a slave, or a command more.
LEMMA NewsSet ==
  ASSUME NEW c \in Masters, NEW table \in [Slaves -> Heard], NEW sent \in Seq(Told)
  PROVE  /\ WithNews(c, table, sent) \in Masters
         /\ WithNews(c, table, sent).NMTable = table /\ WithNews(c, table, sent).sent = sent
         /\ WithNews(c, table, sent).dcf_status = c.dcf_status
         /\ WithNews(c, table, sent).dcf_entries_count = c.dcf_entries_count
         /\ WithNews(c, table, sent).clients = c.clients
         /\ WithNews(c, table, sent).lines = c.lines
         /\ WithNews(c, table, sent).dropped = c.dropped
BY DEF Masters, WithNews

\* start_node.
LEMMA NodeIsStarted ==
  ASSUME NEW c \in Masters, NEW node \in Slaves, NEW y, y = start_node(c, node)
  PROVE  /\ y \in Masters
         /\ y.dcf_status = c.dcf_status /\ y.dcf_entries_count = c.dcf_entries_count
         /\ y.clients = c.clients /\ y.lines = c.lines /\ y.dropped = c.dropped
         /\ y.NMTable = [c.NMTable EXCEPT ![node] = Connecting]
         /\ Starts(y.sent) = Starts(c.sent) \cup {node}
<1> DEFINE m == [cs |-> NMT_Start_Node, node |-> node]
           table == [c.NMTable EXCEPT ![node] = Connecting]
           sent == Append(c.sent, m)
<1>1. m \in Told /\ m.cs = NMT_Start_Node /\ m.node = node
  BY DEF Told
<1>2. table \in [Slaves -> Heard] /\ c.sent \in Seq(Told)
  BY DEF Masters, Heard
<1>3. y = WithNews(c, table, sent)
  BY DEF start_node, Commanded, WithNews, Masters
<1> HIDE DEF m
<1>4. sent \in Seq(Told) /\ Starts(sent) = Starts(c.sent) \cup {node}
  BY <1>1, <1>2, StartsOfAppend
<1> HIDE DEF table, sent
<1> QED BY <1>2, <1>3, <1>4, NewsSet DEF table

-----------------------------------------------------------------------------
(***************************************************************************)
(* check_and_start_node.                                                   *)
(***************************************************************************)
WithCursor(c, count, status) == [c EXCEPT !.dcf_entries_count = count, !.dcf_status = status]

\* The cursor or the status moves.
LEMMA CursorSet ==
  ASSUME NEW c \in Masters, NEW count \in Nat, NEW status \in {INIT, READ_CHECK, WRITE, SAVED}
  PROVE  /\ WithCursor(c, count, status) \in Masters
         /\ WithCursor(c, count, status).dcf_entries_count = count
         /\ WithCursor(c, count, status).dcf_status = status
         /\ WithCursor(c, count, status).clients = c.clients
         /\ WithCursor(c, count, status).lines = c.lines
         /\ WithCursor(c, count, status).NMTable = c.NMTable
         /\ WithCursor(c, count, status).sent = c.sent
         /\ WithCursor(c, count, status).dropped = c.dropped
BY DEF Masters, WithCursor

\* The status names differ.
LEMMA StatusesDiffer ==
  /\ INIT \notin {READ_CHECK, WRITE, SAVED} /\ READ_CHECK \notin {WRITE, SAVED} /\ WRITE # SAVED
  /\ FREE \notin {ASKED, ANSWERED, LOST, FINISHED, ABORTED_RCV, ABORTED_INTERNAL}
  /\ ASKED \notin {ANSWERED, LOST, FINISHED, ABORTED_RCV, ABORTED_INTERNAL}
  /\ ANSWERED \notin {LOST, FINISHED, ABORTED_RCV, ABORTED_INTERNAL}
  /\ ABORTED_INTERNAL \notin {LOST, FINISHED, ABORTED_RCV}
  /\ Initialisation \notin {Unknown_state, Connecting, Pre_operational, Operational}
  /\ Unknown_state \notin {Connecting, Pre_operational, Operational}
  /\ NMT_Start_Node # NMT_Reset_Node /\ Off \notin {Pre_operational, Operational}
BY DEF INIT, READ_CHECK, WRITE, SAVED, FREE, ASKED, ANSWERED, LOST, FINISHED, ABORTED_RCV,
       ABORTED_INTERNAL,
       Initialisation, Unknown_state, Connecting, Pre_operational, Operational,
       NMT_Start_Node, NMT_Reset_Node, Off

\* What is asked for, or written, for entry k of a DCF.
Fetched(node, k, op) ==
  IF op = WRITE THEN CastEntry(ConciseDCF[node][k]) ELSE ConciseDCF[node][k]

\* It is an entry like any.
LEMMA FetchedEntry ==
  ASSUME NEW node \in Slaves, NEW k \in 1 .. Len(ConciseDCF[node]), NEW op
  PROVE  /\ Fetched(node, k, op).index = ConciseDCF[node][k].index
         /\ Fetched(node, k, op).value =
              IF op = WRITE THEN Cut[ConciseDCF[node][k].value] ELSE ConciseDCF[node][k].value
         /\ Fetched(node, k, op).index \in Indexes /\ Fetched(node, k, op).value \in Values
<1> DEFINE entry == ConciseDCF[node][k]
<1>1. entry \in [index : Indexes, value : Values]
  <2> DEFINE R == [index : Indexes, value : Values]
             q == ConciseDCF[node]
  <2>1. q \in Seq(R) /\ k \in 1 .. Len(q)
    BY DCFAssumption
  <2> HIDE DEF R, q
  <2>2. q[k] \in R
    BY <2>1
  <2> QED BY <2>2 DEF R, q
<1>2. \A v \in Values : Cut[v] \in Values
  BY DCFAssumption
<1> HIDE DEF entry
<1>3. /\ CastEntry(entry).index = entry.index /\ CastEntry(entry).value = Cut[entry.value]
      /\ entry.index \in Indexes /\ entry.value \in Values
  BY <1>1 DEF CastEntry
<1> QED BY <1>2, <1>3 DEF Fetched, entry

\* The next entry of a DCF is asked for, or written.
LEMMA NextEntryIsMade ==
  ASSUME NEW c \in Masters, Owned(c), Idle(c), NEW node \in Slaves,
         \E e \in Clients : c.clients[e] \in {node, NoNode},
         NEW op \in {READ, WRITE}, HasNext(c, node),
         NEW y, y = NextEntry(c, node, op, Fetched(node, c.dcf_entries_count + 1, op))
  PROVE  /\ y.dcf_status = c.dcf_status /\ y.dcf_entries_count = c.dcf_entries_count + 1
         /\ y.NMTable = c.NMTable /\ y.sent = c.sent
         /\ c.dcf_entries_count + 1 \in 1 .. Len(ConciseDCF[node])
         /\ Asked(y, node, op, Fetched(node, c.dcf_entries_count + 1, op))
<1> DEFINE k == c.dcf_entries_count + 1
           z == WithCursor(c, k, c.dcf_status)
           entry == Fetched(node, k, op)
<1>1. k \in Nat /\ c.dcf_status \in {INIT, READ_CHECK, WRITE, SAVED} /\ k \in 1 .. Len(ConciseDCF[node])
  BY EntriesOfDCF DEF Masters, HasNext
<1>2. entry.index \in Indexes /\ entry.value \in Values
  BY <1>1, FetchedEntry
<1>3. y = NetworkDictAI(z, node, op, entry)
  BY DEF NextEntry, WithCursor, Masters
<1> HIDE DEF k, z, entry
<1>4. /\ z \in Masters /\ z.dcf_entries_count = k /\ z.dcf_status = c.dcf_status
      /\ z.clients = c.clients /\ z.lines = c.lines /\ z.NMTable = c.NMTable /\ z.sent = c.sent
      /\ z.dropped = c.dropped
  BY <1>1, CursorSet DEF z
<1>5. Owned(z) /\ Idle(z) /\ \E e \in Clients : z.clients[e] \in {node, NoNode}
  BY <1>4 DEF Owned, Idle, NoLineOnUse
<1>6. SameCursor(z, y) /\ Asked(y, node, op, entry)
  BY <1>2, <1>3, <1>4, <1>5, RequestIsMade
<1> QED BY <1>1, <1>4, <1>6 DEF SameCursor, k, entry

\* That is what the functions do.
LEMMA NextEntryOf ==
  ASSUME NEW c, NEW node
  PROVE  /\ read_consise_dcf_next_entry(c, node)
              = NextEntry(c, node, READ, Fetched(node, c.dcf_entries_count + 1, READ))
         /\ write_consise_dcf_next_entry(c, node)
              = NextEntry(c, node, WRITE, Fetched(node, c.dcf_entries_count + 1, WRITE))
BY DEF read_consise_dcf_next_entry, write_consise_dcf_next_entry, Fetched, READ, WRITE

\* A check that has just begun.
Checking(y) ==
  /\ MasterInOrder(y) /\ y.dcf_status = READ_CHECK /\ y.dcf_entries_count = 1
  /\ \A e \in Clients : y.lines[e].state \in {FREE, ASKED}

\* Slaves without a DCF.
Unlisted == {n \in Slaves : ~HasDCF(n)}

\* A free master starts a slave without DCF, and a check of one with a DCF.
LEMMA CheckedOrStarted ==
  ASSUME NEW c \in Masters, Owned(c), Idle(c), c.dcf_status = INIT, NbClients # 0,
         NEW node \in Slaves, NEW r, r = CheckAndStart(c, node)
  PROVE  \/ /\ r = [d |-> r.d, checks |-> FALSE] /\ node \in Unlisted
            /\ r.d \in Masters /\ Owned(r.d) /\ Idle(r.d) /\ r.d.dcf_status = INIT
            /\ r.d.NMTable = [c.NMTable EXCEPT ![node] = Connecting]
            /\ Starts(r.d.sent) = Starts(c.sent) \cup {node}
         \/ /\ r = [d |-> r.d, checks |-> TRUE]
            /\ Checking(r.d) /\ r.d.sent = c.sent
<1> DEFINE clients == [c.clients EXCEPT ![0] = NoNode]
           a == [c EXCEPT !.clients[0] = NoNode]
           i == init_consise_dcf(a, node)
           z == read_consise_dcf_next_entry(i, node)
           y == [z EXCEPT !.dcf_status = READ_CHECK]
<1>1. 0 \in Clients
  BY DCFAssumption DEF Clients
<1>2. /\ clients \in [Clients -> Slaves \cup {NoNode}] /\ c.lines \in [Clients -> Lines]
      /\ clients[0] = NoNode /\ \A f \in Clients \ {0} : clients[f] = c.clients[f]
  BY <1>1 DEF Masters
<1>3. a = WithLines(c, clients, c.lines)
  BY DEF WithLines, Masters
<1>4. r = IF ~HasDCF(node) THEN [d |-> start_node(a, node), checks |-> FALSE]
          ELSE [d |-> y, checks |-> TRUE]
  BY DEF CheckAndStart
<1>5. i = init_consise_dcf(a, node) /\ y = [z EXCEPT !.dcf_status = READ_CHECK]
  OBVIOUS
<1>6. z = NextEntry(i, node, READ, Fetched(node, i.dcf_entries_count + 1, READ))
  BY NextEntryOf
<1> HIDE DEF clients, a, i, z, y
<1>7. /\ a \in Masters /\ a.clients = clients /\ a.lines = c.lines /\ SameCursor(c, a)
      /\ a.dropped = c.dropped
  BY <1>2, <1>3, LinesSet
<1>8. Owned(a) /\ Idle(a)
  BY <1>2, <1>7 DEF Owned, Idle, NoLineOnUse
<1>9. CASE ~HasDCF(node)
  <2> DEFINE b == start_node(a, node)
  <2>1. b = start_node(a, node) /\ r = [d |-> b, checks |-> FALSE]
    BY <1>4, <1>9
  <2> HIDE DEF b
  <2>2. /\ b \in Masters /\ b.dcf_status = a.dcf_status
        /\ b.clients = a.clients /\ b.lines = a.lines /\ b.dropped = a.dropped
        /\ b.NMTable = [a.NMTable EXCEPT ![node] = Connecting]
        /\ Starts(b.sent) = Starts(a.sent) \cup {node}
    BY <1>7, <2>1, NodeIsStarted
  <2>3. Owned(b) /\ Idle(b)
    BY <1>8, <2>2 DEF Owned, Idle, NoLineOnUse
  <2>4. r.d = b
    BY <2>1
  <2> QED BY <1>7, <1>9, <2>1, <2>2, <2>3, <2>4 DEF SameCursor, Unlisted
<1>10. CASE HasDCF(node)
  <2>1. i = WithCursor(a, 0, INIT) /\ 0 \in Nat
    BY <1>5, <1>7 DEF init_consise_dcf, WithCursor, Masters
  <2>2. /\ i \in Masters /\ i.dcf_entries_count = 0 /\ i.dcf_status = INIT
        /\ i.clients = a.clients /\ i.lines = a.lines /\ i.NMTable = a.NMTable
        /\ i.sent = a.sent /\ i.dropped = a.dropped
    BY <1>7, <2>1, CursorSet
  <2>3. Owned(i) /\ Idle(i) /\ \E e \in Clients : i.clients[e] \in {node, NoNode}
    BY <1>1, <1>2, <1>7, <1>8, <2>2 DEF Owned, Idle, NoLineOnUse
  <2>4. HasNext(i, node)
    BY <1>10, <2>2, EntriesOfDCF DEF HasNext
  <2>5. /\ z.dcf_entries_count = 0 + 1 /\ z.sent = i.sent
        /\ 0 + 1 \in 1 .. Len(ConciseDCF[node])
        /\ Asked(z, node, READ, Fetched(node, 0 + 1, READ))
    BY <1>6, <2>2, <2>3, <2>4, NextEntryIsMade
  <2>6. 0 + 1 = 1
    OBVIOUS
  <2>7. Fetched(node, 1, READ).index = ConciseDCF[node][1].index
    BY <2>5, <2>6, FetchedEntry
  <2>8. z \in Masters
    BY <2>5 DEF Asked, Refused, Asking
  <2>9. y = WithCursor(z, 1, READ_CHECK)
    <3>1. z.dcf_entries_count = 1
      BY <2>5, <2>6
    <3>2. z = [z EXCEPT !.dcf_entries_count = z.dcf_entries_count]
      BY <2>8 DEF Masters
    <3> QED BY <1>5, <2>8, <3>1, <3>2 DEF WithCursor, Masters
  <2>10. /\ y \in Masters /\ y.dcf_entries_count = 1 /\ y.dcf_status = READ_CHECK
         /\ y.clients = z.clients /\ y.lines = z.lines /\ y.sent = z.sent
         /\ y.dropped = z.dropped
    BY <2>8, <2>9, CursorSet
  <2>11. ASSUME Refused(z) PROVE Checking(y)
    <3>1. Owned(y) /\ Stuck(y) /\ \A f \in Clients : y.lines[f].state = FREE
      BY <2>10, <2>11 DEF Refused, Owned, NoLineOnUse, Stuck
    <3> QED BY <2>10, <3>1, StatusesDiffer DEF Checking, MasterInOrder
  <2>12. ASSUME NEW e \in Clients, Asking(z, e, node, READ, Fetched(node, 1, READ))
         PROVE  Checking(y)
    <3>1. Owned(y) /\ Only(y, e) /\ y.dropped = FALSE
      BY <2>10, <2>12 DEF Asking, Owned, Only
    <3>2. /\ y.clients[e] = node /\ y.lines[e].state = ASKED /\ y.lines[e].op = READ
          /\ y.lines[e].index = ConciseDCF[node][1].index
      BY <2>7, <2>10, <2>12 DEF Asking, NewLine
    <3>3. Busy(y, e)
      BY <2>5, <2>6, <2>10, <3>1, <3>2, StatusesDiffer DEF Busy, Live
    <3>4. \A f \in Clients : y.lines[f].state \in {FREE, ASKED}
      BY <3>1, <3>2 DEF Only
    <3> QED BY <2>10, <3>1, <3>3, <3>4, StatusesDiffer DEF Checking, MasterInOrder
  <2>13. Asked(z, node, READ, Fetched(node, 1, READ))
    BY <2>5, <2>6
  <2>14. Checking(y)
    BY <2>11, <2>12, <2>13 DEF Asked
  <2>15. r = [d |-> y, checks |-> TRUE] /\ r.d = y
    BY <1>4, <1>10
  <2> QED BY <1>7, <2>2, <2>5, <2>10, <2>14, <2>15 DEF SameCursor
<1> QED BY <1>9, <1>10

-----------------------------------------------------------------------------
(***************************************************************************)
(* start_and_seek_node.                                                    *)
(***************************************************************************)
\* What Seek has come to, having begun with c.
Seeking(c, s) ==
  /\ IF s.checks THEN Checking(s.d)
     ELSE Owned(s.d) /\ Idle(s.d) /\ s.d.dcf_status = c.dcf_status
  /\ Starts(s.d.sent) \subseteq Starts(c.sent) \cup Unlisted
  /\ c.dcf_status # INIT \/ NbClients = 0 => s = [d |-> c, checks |-> FALSE]

Seekers(c) == {s \in [d : Masters, checks : BOOLEAN] : Seeking(c, s)}

\* A slave is visited.
LEMMA VisitOne ==
  ASSUME NEW c \in Masters, NEW s \in Seekers(c), NEW node, NEW r, r = Visit(s, node)
  PROVE  r \in Seekers(c)
<1>1. s \in [d : Masters, checks : BOOLEAN] /\ Seeking(c, s)
  BY DEF Seekers
<1>2. CASE r = s
  BY <1>2
<1>3. CASE r # s
  <2>1. ~s.checks /\ node \in Slaves /\ r = CheckAndStart(s.d, node)
    BY <1>3 DEF Visit
  <2>2. Owned(s.d) /\ Idle(s.d) /\ s.d.dcf_status = c.dcf_status
    BY <1>1, <2>1 DEF Seeking
  <2>3. s = [d |-> s.d, checks |-> FALSE] /\ s.d \in Masters
    BY <1>1, <2>1
  <2>4. c.dcf_status = INIT /\ NbClients # 0
    BY <1>3, <2>1, <2>2, <2>3 DEF CheckAndStart
  <2>5. \/ /\ r = [d |-> r.d, checks |-> FALSE] /\ node \in Unlisted
           /\ r.d \in Masters /\ Owned(r.d) /\ Idle(r.d) /\ r.d.dcf_status = INIT
           /\ Starts(r.d.sent) = Starts(s.d.sent) \cup {node}
        \/ /\ r = [d |-> r.d, checks |-> TRUE]
           /\ Checking(r.d) /\ r.d.sent = s.d.sent
    BY <2>1, <2>2, <2>3, <2>4, CheckedOrStarted
  <2>6. r.d \in Masters
    BY <2>5 DEF Checking, MasterInOrder
  <2>7. r \in [d : Masters, checks : BOOLEAN]
    <3>1. ASSUME NEW x \in Masters, NEW b \in BOOLEAN
          PROVE  [d |-> x, checks |-> b] \in [d : Masters, checks : BOOLEAN]
      OBVIOUS
    <3>2. TRUE \in BOOLEAN /\ FALSE \in BOOLEAN
      OBVIOUS
    <3> QED BY <2>5, <2>6, <3>1, <3>2, Zenon
  <2>8. Starts(r.d.sent) \subseteq Starts(c.sent) \cup Unlisted
    BY <1>1, <2>5 DEF Seeking
  <2>9. r.checks = TRUE \/ r.checks = FALSE
    BY <2>5
  <2>10. IF r.checks THEN Checking(r.d)
         ELSE Owned(r.d) /\ Idle(r.d) /\ r.d.dcf_status = c.dcf_status
    BY <2>4, <2>5
  <2> QED BY <2>4, <2>7, <2>8, <2>10 DEF Seekers, Seeking
<1> QED BY <1>2, <1>3

\* Seek, step by step.
LEMMA LoopOfSeek ==
  ASSUME NEW c \in Masters, Owned(c), Idle(c)
  PROVE  LET N == NMT_MAX_NODE_ID - 1
         IN  \E f \in [0 .. N -> Seekers(c)] :
               /\ f[0] = [d |-> c, checks |-> FALSE]
               /\ \A k \in 1 .. N : f[k] = Visit(f[k - 1], k)
               /\ Seek(c) = IF f[N].checks THEN f[N].d ELSE [f[N].d EXCEPT !.dcf_status = INIT]
<1> DEFINE N == NMT_MAX_NODE_ID - 1
           S == Seekers(c)
           start == [d |-> c, checks |-> FALSE]
           F == [k \in 1 .. N |-> [s \in S |-> Visit(s, k)]]
           upTo[k \in 0 .. N] == IF k = 0 THEN start ELSE Visit(upTo[k - 1], k)
<1>1. N \in Nat
  BY DCFAssumption
<1>2. start \in S
  BY DEF Seekers, Seeking
<1>3. ASSUME NEW k \in 1 .. N, NEW s \in S PROVE Visit(s, k) \in S
  BY VisitOne
<1> HIDE DEF S, N, start
<1>4. PICK g \in [0 .. N -> S] : g[0] = start /\ \A k \in 1 .. N : g[k] = F[k][g[k - 1]]
  <2>1. Steps(F, N, S)
    BY <1>1, <1>3 DEF Steps
  <2> HIDE DEF F, upTo
  <2>2. Run(F, N, S, start)
    BY <1>2, <2>1, LoopIsDefined
  <2> QED BY <2>2 DEF Run
<1>5. \A k \in 1 .. N : g[k] = Visit(g[k - 1], k)
  <2>1. ASSUME NEW k \in 1 .. N PROVE g[k] = Visit(g[k - 1], k)
    <3>1. k - 1 \in 0 .. N
      BY <1>1
    <3>2. g[k - 1] \in S
      BY <1>4, <3>1
    <3>3. F[k] = [s \in S |-> Visit(s, k)]
      OBVIOUS
    <3> HIDE DEF F
    <3> QED BY <1>4, <3>2, <3>3
  <2> QED BY <2>1
<1>6. g = [k \in 0 .. N |-> IF k = 0 THEN start ELSE Visit(g[k - 1], k)]
  <2>1. ASSUME NEW k \in 0 .. N, k # 0 PROVE g[k] = Visit(g[k - 1], k)
    <3>1. k \in 1 .. N
      BY <1>1, <2>1
    <3> QED BY <1>5, <3>1
  <2> HIDE DEF F, upTo
  <2> QED BY <1>4, <2>1
<1>7. upTo = [k \in 0 .. N |-> IF k = 0 THEN start ELSE Visit(upTo[k - 1], k)]
  BY <1>6, Zenon
<1>8. Seek(c) = IF upTo[N].checks THEN upTo[N].d ELSE [upTo[N].d EXCEPT !.dcf_status = INIT]
  BY DEF Seek, N, start
<1> HIDE DEF upTo
<1>9. upTo[0] = start
  BY <1>1, <1>7
<1>10. ASSUME NEW k \in 1 .. N PROVE upTo[k] = Visit(upTo[k - 1], k)
  <2>1. k \in 0 .. N /\ k # 0
    BY <1>1
  <2> QED BY <1>7, <2>1
<1>11. upTo \in [0 .. N -> S]
  <2> DEFINE T == {k \in 0 .. N : upTo[k] \in S}
  <2>1. 0 \in T
    BY <1>1, <1>2, <1>9
  <2>2. ASSUME NEW k \in 1 .. N, k - 1 \in T PROVE k \in T
    BY <1>1, <1>3, <1>10, <2>2
  <2>3. \A k \in 0 .. N : k \in T
    <3> HIDE DEF T
    <3> QED BY <1>1, <2>1, <2>2, LoopInduction
  <2>4. upTo = [k \in 0 .. N |-> upTo[k]]
    BY <1>7, Zenon
  <2> QED BY <2>3, <2>4
<1>12. /\ upTo \in [0 .. N -> Seekers(c)] /\ upTo[0] = [d |-> c, checks |-> FALSE]
       /\ \A k \in 1 .. N : upTo[k] = Visit(upTo[k - 1], k)
  BY <1>9, <1>10, <1>11 DEF S, start
<1> HIDE DEF F
<1> QED BY <1>8, <1>12 DEF N

\* None of the first k slaves waits, unless a check has begun.
NobodyWaits(s, k) == ~s.checks => \A n \in Slaves : n <= k => s.d.NMTable[n] # Initialisation

\* One more is visited.
LEMMA NobodyWaitsNow ==
  ASSUME NEW c \in Masters, c.dcf_status = INIT, NbClients # 0, NEW s \in Seekers(c),
         NEW k \in Nat, NobodyWaits(s, k - 1), NEW r, r = Visit(s, k)
  PROVE  NobodyWaits(r, k)
<1>1. s \in [d : Masters, checks : BOOLEAN] /\ Seeking(c, s) /\ Slaves \subseteq Nat
  BY DCFAssumption DEF Seekers
<1>2. s.d \in Masters
  BY <1>1
<1>3. CASE ~(~s.checks /\ k \in Slaves /\ s.d.NMTable[k] = Initialisation)
  <2>1. r = s
    BY <1>3 DEF Visit
  <2> SUFFICES ASSUME ~s.checks, NEW n \in Slaves, n <= k
               PROVE  s.d.NMTable[n] # Initialisation
    BY <2>1 DEF NobodyWaits
  <2>2. n = k \/ n <= k - 1
    BY <1>1
  <2> QED BY <1>3, <2>2 DEF NobodyWaits
<1>4. CASE ~s.checks /\ k \in Slaves /\ s.d.NMTable[k] = Initialisation
  <2>1. r = CheckAndStart(s.d, k)
    BY <1>4 DEF Visit
  <2>2. Owned(s.d) /\ Idle(s.d) /\ s.d.dcf_status = INIT
    BY <1>1, <1>4 DEF Seeking
  <2>3. \/ r.checks
        \/ ~r.checks /\ r.d.NMTable = [s.d.NMTable EXCEPT ![k] = Connecting]
    <3>1. \/ r = [d |-> r.d, checks |-> FALSE]
             /\ r.d.NMTable = [s.d.NMTable EXCEPT ![k] = Connecting]
          \/ r = [d |-> r.d, checks |-> TRUE]
      BY <1>2, <1>4, <2>1, <2>2, CheckedOrStarted
    <3> QED BY <3>1
  <2> SUFFICES ASSUME ~r.checks, NEW n \in Slaves, n <= k
               PROVE  r.d.NMTable[n] # Initialisation
    BY DEF NobodyWaits
  <2>4. s.d.NMTable \in [Slaves -> Heard]
    BY <1>2 DEF Masters
  <2>5. r.d.NMTable[n] = IF n = k THEN Connecting ELSE s.d.NMTable[n]
    BY <1>4, <2>3, <2>4
  <2>6. n = k \/ n <= k - 1
    BY <1>1
  <2> QED BY <1>4, <2>5, <2>6, StatusesDiffer DEF NobodyWaits
<1> QED BY <1>3, <1>4

\* A check of another slave has begun, or nobody with a DCF waits; only slaves
\* without a DCF have been told to start.
LEMMA SeekEnds ==
  ASSUME NEW c \in Masters, Owned(c), Idle(c), NEW y, y = Seek(c)
  PROVE  /\ MasterInOrder(y)
         /\ Checking(y) \/ y.dcf_status = INIT
         /\ Starts(y.sent) \subseteq Starts(c.sent) \cup Unlisted
         /\ c.dcf_status = INIT /\ NbClients # 0 /\ y.dcf_status = INIT =>
              \A n \in Slaves : y.NMTable[n] # Initialisation
         /\ c.dcf_status # INIT => y.dcf_status = INIT /\ y.NMTable = c.NMTable
<1> DEFINE N == NMT_MAX_NODE_ID - 1
<1>1. N \in Nat /\ Slaves \subseteq 1 .. N
  BY DCFAssumption
<1>2. PICK f \in [0 .. N -> Seekers(c)] :
        /\ f[0] = [d |-> c, checks |-> FALSE]
        /\ \A k \in 1 .. N : f[k] = Visit(f[k - 1], k)
        /\ y = IF f[N].checks THEN f[N].d ELSE [f[N].d EXCEPT !.dcf_status = INIT]
  BY LoopOfSeek
<1> HIDE DEF N
<1>3. f[N] \in Seekers(c)
  BY <1>1, <1>2
<1>4. f[N].d \in Masters /\ Seeking(c, f[N])
  BY <1>3 DEF Seekers
<1>5. CASE f[N].checks
  <2>1. y = f[N].d /\ Checking(y)
    BY <1>2, <1>4, <1>5 DEF Seeking
  <2>2. c.dcf_status = INIT
    BY <1>4, <1>5 DEF Seeking
  <2> QED BY <1>4, <2>1, <2>2, StatusesDiffer DEF Checking, Seeking
<1>6. CASE ~f[N].checks
  <2>1. y = WithCursor(f[N].d, f[N].d.dcf_entries_count, INIT)
    BY <1>2, <1>4, <1>6 DEF WithCursor, Masters
  <2>2. f[N].d.dcf_entries_count \in Nat
    BY <1>4 DEF Masters
  <2>3. /\ y \in Masters /\ y.dcf_status = INIT /\ y.clients = f[N].d.clients
        /\ y.lines = f[N].d.lines /\ y.NMTable = f[N].d.NMTable /\ y.sent = f[N].d.sent
        /\ y.dropped = f[N].d.dropped
    <3> DEFINE b == f[N].d
               count == b.dcf_entries_count
    <3>1. b \in Masters /\ count \in Nat /\ INIT \in {INIT, READ_CHECK, WRITE, SAVED}
      BY <1>4, <2>2
    <3>2. y = WithCursor(b, count, INIT)
      BY <2>1
    <3> HIDE DEF b, count
    <3> DEFINE z == WithCursor(b, count, INIT)
    <3>3. /\ z \in Masters /\ z.dcf_status = INIT /\ z.clients = b.clients
          /\ z.lines = b.lines /\ z.NMTable = b.NMTable /\ z.sent = b.sent
          /\ z.dropped = b.dropped
      BY <3>1, CursorSet
    <3> QED BY <3>2, <3>3 DEF b
  <2>4. MasterInOrder(y)
    BY <1>4, <1>6, <2>3 DEF MasterInOrder, Seeking, Owned, Idle, NoLineOnUse
  <2>5. Starts(y.sent) \subseteq Starts(c.sent) \cup Unlisted
    BY <1>4, <2>3 DEF Seeking
  <2>6. ASSUME c.dcf_status = INIT, NbClients # 0
        PROVE  \A n \in Slaves : y.NMTable[n] # Initialisation
    <3> DEFINE T == {k \in 0 .. N : NobodyWaits(f[k], k)}
    <3>1. 0 \in T
      BY <1>1 DEF NobodyWaits
    <3>2. ASSUME NEW k \in 1 .. N, k - 1 \in T PROVE k \in T
      <4>1. /\ k \in Nat /\ k \in 0 .. N /\ k - 1 \in 0 .. N /\ NobodyWaits(f[k - 1], k - 1)
        BY <1>1, <3>2
      <4>2. f[k - 1] \in Seekers(c) /\ f[k] = Visit(f[k - 1], k)
        BY <1>2, <4>1
      <4>3. NobodyWaits(f[k], k)
        BY <2>6, <4>1, <4>2, NobodyWaitsNow
      <4> QED BY <4>1, <4>3
    <3>3. \A k \in 0 .. N : k \in T
      <4> HIDE DEF T
      <4> QED BY <1>1, <3>1, <3>2, LoopInduction
    <3>4. N \in 0 .. N
      BY <1>1
    <3>5. NobodyWaits(f[N], N)
      BY <3>3, <3>4
    <3>6. \A n \in Slaves : n <= N
      BY <1>1
    <3> HIDE DEF T
    <3> QED BY <1>6, <2>3, <3>5, <3>6 DEF NobodyWaits
  <2>7. c.dcf_status # INIT => y.NMTable = c.NMTable
    BY <1>4, <2>3 DEF Seeking
  <2> QED BY <2>3, <2>4, <2>5, <2>6, <2>7
<1> QED BY <1>5, <1>6

-----------------------------------------------------------------------------
(***************************************************************************)
(* CheckSDOAndContinue.  o are the objects of the slaves, D the slaves     *)
(* that are disturbed.                                                     *)
(***************************************************************************)
Good(o, D) == D \cup {n \in Slaves : Configured(o, n)}

\* The transfer of entry e is over.
Ended(c, e) ==
  /\ c \in Masters /\ Owned(c) /\ Only(c, e) /\ c.dropped = FALSE
  /\ c.clients[e] \in Slaves /\ c.dcf_status # INIT
  /\ c.dcf_entries_count \in 1 .. Len(ConciseDCF[c.clients[e]])

\* What the master may conclude from its end.
Known(c, e, o, D) ==
  LET node == c.clients[e]
      k == c.dcf_entries_count
  IN  node \notin D =>
        /\ Agrees(o, node, k - 1)
        /\ c.dcf_status = READ_CHECK /\ c.lines[e].state = FINISHED =>
             c.lines[e].value = o[node][ConciseDCF[node][k].index]
        /\ c.dcf_status = WRITE /\ c.lines[e].state = FINISHED => Agrees(o, node, k)
        /\ c.dcf_status = SAVED => Configured(o, node)

NooneWaits(y) == \A n \in Slaves : y.NMTable[n] # Initialisation

BreaksOff(c, y, node) ==
  c.dcf_status # SAVED /\ y.NMTable[node] = Unknown_state /\ c.NMTable[node] # Unknown_state

\* The master has gone on from c, for node, to y.
Continued(c, y, node, o, D) ==
  /\ MasterInOrder(y) /\ Truthful(y, o, D)
  /\ Starts(y.sent) \subseteq Starts(c.sent) \cup Good(o, D)
  /\ y.dcf_status = INIT /\ (c.dcf_status = WRITE \/ BreaksOff(c, y, node)) => NooneWaits(y)

\* A slave without DCF has nothing to be told.
LEMMA UnlistedAreGood ==
  ASSUME NEW o, NEW D
  PROVE  Unlisted \subseteq Good(o, D)
<1> SUFFICES ASSUME NEW n \in Slaves, ~HasDCF(n) PROVE Configured(o, n)
  BY DEF Unlisted, Good
<1>1. Len(ConciseDCF[n]) = 0
  BY EntriesOfDCF
<1> QED BY <1>1 DEF Configured, Agrees

\* A check that has just begun has found nothing yet.
LEMMA CheckingIsTruthful ==
  ASSUME NEW y, MasterInOrder(y), Checking(y) \/ y.dcf_status = INIT, NEW o, NEW D
  PROVE  Truthful(y, o, D)
<1> SUFFICES ASSUME NEW e \in Clients, Live(y.lines[e]) PROVE Progress(y, e, o, y.clients[e])
  BY DEF Truthful
<1>1. Checking(y) /\ y.lines[e].state # FREE
  BY DEF MasterInOrder, Idle, NoLineOnUse, Live
<1>2. /\ y.dcf_entries_count = 1 /\ y.dcf_status = READ_CHECK /\ y.lines[e].state = ASKED
  BY <1>1 DEF Checking
<1>3. Agrees(o, y.clients[e], y.dcf_entries_count - 1)
  BY <1>2 DEF Agrees
<1> QED BY <1>2, <1>3, StatusesDiffer DEF Progress

\* Where a request was refused nothing is concluded.
LEMMA StuckIsTruthful ==
  ASSUME NEW y, Stuck(y), NEW o, NEW D
  PROVE  Truthful(y, o, D)
BY DEF Stuck, Live, Truthful

\* A request that has just been made.
LEMMA AskingIsInOrder ==
  ASSUME NEW y, NEW e \in Clients, NEW node \in Slaves, NEW op, NEW entry,
         Asking(y, e, node, op, entry),
         y.dcf_entries_count \in 1 .. Len(ConciseDCF[node]),
         \/ y.dcf_status \in {READ_CHECK, WRITE}
            /\ op = (IF y.dcf_status = WRITE THEN WRITE ELSE READ)
            /\ entry = Fetched(node, y.dcf_entries_count, op)
         \/ y.dcf_status = SAVED /\ op = STORE,
         NEW o, NEW D,
         node \notin D => /\ Agrees(o, node, y.dcf_entries_count - 1)
                          /\ y.dcf_status = SAVED => Configured(o, node)
  PROVE  MasterInOrder(y) /\ Truthful(y, o, D)
<1>1. /\ y \in Masters /\ Owned(y) /\ Only(y, e) /\ y.clients[e] = node
      /\ y.lines[e].state = ASKED /\ y.lines[e].op = op /\ y.dropped = FALSE
      /\ y.lines[e].index = entry.index /\ y.lines[e].value = entry.value
  BY DEF Asking, NewLine
<1>2. y.dcf_status # INIT
  BY StatusesDiffer
<1>3. Busy(y, e)
  <2> DEFINE k == y.dcf_entries_count
  <2>1. /\ Fetched(node, k, op).index = ConciseDCF[node][k].index
        /\ op = WRITE => Fetched(node, k, op).value = Cut[ConciseDCF[node][k].value]
    BY FetchedEntry
  <2>2. Live(y.lines[e])
    BY <1>1, StatusesDiffer DEF Live
  <2>3. y.dcf_status = READ_CHECK =>
          y.lines[e].op = READ /\ y.lines[e].index = ConciseDCF[node][k].index
    BY <1>1, <2>1, StatusesDiffer
  <2>4. y.dcf_status = WRITE =>
          /\ y.lines[e].op = WRITE /\ y.lines[e].index = ConciseDCF[node][k].index
          /\ y.lines[e].value = Cut[ConciseDCF[node][k].value]
    BY <1>1, <2>1, StatusesDiffer
  <2>5. y.dcf_status = SAVED => y.lines[e].op = STORE
    BY <1>1, StatusesDiffer
  <2> QED BY <1>1, <2>2, <2>3, <2>4, <2>5 DEF Busy
<1>4. Truthful(y, o, D)
  <2> SUFFICES ASSUME NEW f \in Clients, Live(y.lines[f]), y.clients[f] \notin D
               PROVE  Progress(y, f, o, y.clients[f])
    BY DEF Truthful
  <2>1. f = e
    BY <1>1 DEF Only, Live
  <2> QED BY <1>1, <2>1, StatusesDiffer DEF Progress
<1> QED BY <1>1, <1>2, <1>3, <1>4 DEF MasterInOrder

\* The same, where it may have been refused.
LEMMA AskedIsInOrder ==
  ASSUME NEW y, NEW node \in Slaves, NEW op, NEW entry, Asked(y, node, op, entry),
         y.dcf_entries_count \in 1 .. Len(ConciseDCF[node]),
         \/ y.dcf_status \in {READ_CHECK, WRITE}
            /\ op = (IF y.dcf_status = WRITE THEN WRITE ELSE READ)
            /\ entry = Fetched(node, y.dcf_entries_count, op)
         \/ y.dcf_status = SAVED /\ op = STORE,
         NEW o, NEW D,
         node \notin D => /\ Agrees(o, node, y.dcf_entries_count - 1)
                          /\ y.dcf_status = SAVED => Configured(o, node)
  PROVE  MasterInOrder(y) /\ Truthful(y, o, D) /\ y.dcf_status # INIT
<1>1. y.dcf_status # INIT
  BY StatusesDiffer
<1>2. CASE Refused(y)
  <2>1. Stuck(y)
    BY <1>2 DEF Refused, NoLineOnUse, Stuck
  <2> QED BY <1>1, <1>2, <2>1, StuckIsTruthful DEF Refused, MasterInOrder
<1>3. ASSUME NEW e \in Clients, Asking(y, e, node, op, entry)
      PROVE  MasterInOrder(y) /\ Truthful(y, o, D)
  BY <1>3, AskingIsInOrder
<1> QED BY <1>1, <1>2, <1>3 DEF Asked

\* The status follows the request.
LEMMA StatusIsSet ==
  ASSUME NEW z, NEW node, NEW op, NEW entry, Asked(z, node, op, entry),
         NEW status \in {READ_CHECK, WRITE, SAVED}, NEW y, y = [z EXCEPT !.dcf_status = status]
  PROVE  /\ Asked(y, node, op, entry) /\ y.dcf_status = status
         /\ y.dcf_entries_count = z.dcf_entries_count
         /\ y.NMTable = z.NMTable /\ y.sent = z.sent
<1> DEFINE count == z.dcf_entries_count
           w == WithCursor(z, count, status)
<1>1. z \in Masters /\ count \in Nat /\ status \in {INIT, READ_CHECK, WRITE, SAVED}
  BY DEF Asked, Refused, Asking, Masters
<1>2. y = w
  BY <1>1 DEF WithCursor, Masters
<1> HIDE DEF count
<1> HIDE DEF w
<1>3. /\ w \in Masters /\ w.dcf_entries_count = count /\ w.dcf_status = status
      /\ w.clients = z.clients /\ w.lines = z.lines /\ w.NMTable = z.NMTable /\ w.sent = z.sent
      /\ w.dropped = z.dropped
  BY <1>1, CursorSet DEF w
<1>4. CASE Refused(z)
  <2>1. Refused(w)
    BY <1>3, <1>4 DEF Refused, Owned, NoLineOnUse
  <2> QED BY <1>2, <1>3, <2>1 DEF Asked, count
<1>5. ASSUME NEW e \in Clients, Asking(z, e, node, op, entry)
      PROVE  Asking(w, e, node, op, entry)
  BY <1>3, <1>5 DEF Asking, Owned, Only
<1>6. Asked(w, node, op, entry)
  BY <1>4, <1>5, <1>2 DEF Asked
<1> QED BY <1>2, <1>3, <1>6 DEF count

\* dcferror.
LEMMA ErrorEnds ==
  ASSUME NEW c, NEW e \in Clients, Ended(c, e), NEW o, NEW D,
         NEW y, y = dcferror(c, c.clients[e])
  PROVE  Continued(c, y, c.clients[e], o, D)
<1> DEFINE node == c.clients[e]
           r == resetClientSDOLineFromNodeId(c, node)
           table == [r.NMTable EXCEPT ![node] = Unknown_state]
           count == r.dcf_entries_count
           v == WithNews(r, table, r.sent)
           w == WithCursor(v, count, INIT)
<1>1. /\ c \in Masters /\ Owned(c) /\ Only(c, e) /\ node \in Slaves /\ NbClients # 0
      /\ c.dropped = FALSE
  BY DCFAssumption DEF Ended, Clients
<1>2. r \in Masters /\ Owned(r) /\ Idle(r) /\ SameCursor(c, r) /\ r.clients = c.clients
  BY <1>1, LineIsReset
<1>3. y = Seek(w)
  <2>1. w = [r EXCEPT !.NMTable[node] = Unknown_state, !.dcf_status = INIT]
    <3> HIDE DEF r, node
    <3> QED BY <1>2 DEF WithNews, WithCursor, Masters
  <2> QED BY <2>1 DEF dcferror
<1>4. table \in [Slaves -> Heard] /\ r.sent \in Seq(Told) /\ count \in Nat
  BY <1>2 DEF Masters, Heard
<1> HIDE DEF r, table, node
<1>5. /\ v \in Masters /\ v.sent = r.sent /\ v.clients = r.clients /\ v.lines = r.lines
      /\ v.dropped = r.dropped
  BY <1>2, <1>4, NewsSet
<1> HIDE DEF v, count
<1>6. /\ w \in Masters /\ w.dcf_status = INIT /\ w.sent = v.sent
      /\ w.clients = v.clients /\ w.lines = v.lines /\ w.dropped = v.dropped
  BY <1>4, <1>5, CursorSet
<1> HIDE DEF w
<1>7. Owned(w) /\ Idle(w)
  BY <1>2, <1>5, <1>6 DEF Owned, Idle, NoLineOnUse
<1>8. /\ MasterInOrder(y)
      /\ Checking(y) \/ y.dcf_status = INIT
      /\ Starts(y.sent) \subseteq Starts(w.sent) \cup Unlisted
      /\ y.dcf_status = INIT => NooneWaits(y)
  BY <1>1, <1>3, <1>6, <1>7, SeekEnds DEF NooneWaits
<1>9. Truthful(y, o, D)
  BY <1>8, CheckingIsTruthful
<1>10. w.sent = c.sent
  BY <1>2, <1>5, <1>6 DEF SameCursor
<1> QED BY <1>8, <1>9, <1>10, UnlistedAreGood DEF Continued

\* One entry more agrees.
LEMMA AgreesNext ==
  ASSUME NEW o, NEW n \in Slaves, NEW k \in 1 .. Len(ConciseDCF[n]), Agrees(o, n, k - 1),
         AsEntry(o[n][ConciseDCF[n][k].index], ConciseDCF[n][k])
  PROVE  Agrees(o, n, k)
<1>1. k \in Nat /\ \A i \in 1 .. k : i \in 1 .. k - 1 \/ i = k
  BY EntriesOfDCF
<1> QED BY <1>1 DEF Agrees

\* The next entry follows, when the entries so far agree.
LEMMA NextFollows ==
  ASSUME NEW c \in Masters, c.dcf_status \in {READ_CHECK, WRITE},
         NEW r \in Masters, Owned(r), Idle(r), SameCursor(c, r),
         NEW node \in Slaves, \E e \in Clients : r.clients[e] = node, HasNext(r, node),
         NEW o, NEW D, node \notin D => Agrees(o, node, c.dcf_entries_count),
         NEW op, op = (IF c.dcf_status = WRITE THEN WRITE ELSE READ),
         NEW y, y = NextEntry(r, node, op, Fetched(node, r.dcf_entries_count + 1, op))
  PROVE  Continued(c, y, node, o, D)
<1> DEFINE k == r.dcf_entries_count + 1
           entry == Fetched(node, k, op)
<1>1. op \in {READ, WRITE}
  OBVIOUS
<1>2. \E f \in Clients : r.clients[f] \in {node, NoNode}
  OBVIOUS
<1>4. /\ y.dcf_status = r.dcf_status /\ y.dcf_entries_count = k
      /\ y.NMTable = r.NMTable /\ y.sent = r.sent
      /\ k \in 1 .. Len(ConciseDCF[node])
      /\ Asked(y, node, op, entry)
  BY <1>1, <1>2, NextEntryIsMade
<1>5. y.dcf_status = c.dcf_status /\ c.dcf_entries_count = k - 1 /\ y.sent = c.sent
  <2>1. r.dcf_entries_count \in Nat
    BY DEF Masters
  <2> QED BY <1>4, <2>1 DEF SameCursor
<1>6. Asked(y, node, op, entry)
  BY <1>4
<1>7. op = IF y.dcf_status = WRITE THEN WRITE ELSE READ
  BY <1>5
<1>8. entry = Fetched(node, y.dcf_entries_count, op)
  BY <1>4
<1> HIDE DEF k, entry
<1>9. y.dcf_entries_count \in 1 .. Len(ConciseDCF[node]) /\ y.dcf_status \in {READ_CHECK, WRITE}
  BY <1>4, <1>5
<1>10. node \notin D => /\ Agrees(o, node, y.dcf_entries_count - 1)
                        /\ y.dcf_status = SAVED => Configured(o, node)
  BY <1>4, <1>5, <1>9, StatusesDiffer
<1>11. MasterInOrder(y) /\ Truthful(y, o, D) /\ y.dcf_status # INIT
  BY <1>6, <1>7, <1>8, <1>9, <1>10, AskedIsInOrder
<1> QED BY <1>5, <1>11 DEF Continued

\* The entry read is as it should be, or they are all written.
LEMMA ReadEnds ==
  ASSUME NEW c, NEW e \in Clients, Ended(c, e), c.dcf_status = READ_CHECK,
         c.lines[e].state = FINISHED, NEW o, NEW D, Known(c, e, o, D),
         NEW y, y = AfterRead(c, c.clients[e])
  PROVE  Continued(c, y, c.clients[e], o, D)
<1> DEFINE node == c.clients[e]
           k == c.dcf_entries_count
           r == resetClientSDOLineFromNodeId(c, node)
<1>1. /\ c \in Masters /\ Owned(c) /\ Only(c, e) /\ node \in Slaves /\ c.dropped = FALSE
      /\ k \in 1 .. Len(ConciseDCF[node])
  BY DEF Ended
<1>2. r \in Masters /\ Owned(r) /\ Idle(r) /\ SameCursor(c, r) /\ r.clients = c.clients
  BY <1>1, LineIsReset
<1>3. Matches(c, node) => c.lines[e].value = ConciseDCF[node][k].value
  <2>1. GetSDOClientFromNodeId(c, node) = e /\ e # None
    BY <1>1, ClientOfSlave, DCFAssumption DEF None, Clients
  <2> QED BY <2>1 DEF Matches, LineFor, dcf_data
<1>4. Matches(c, node) /\ node \notin D => Agrees(o, node, k)
  <2> SUFFICES ASSUME Matches(c, node), node \notin D PROVE Agrees(o, node, k)
    OBVIOUS
  <2>1. Agrees(o, node, k - 1) /\ c.lines[e].value = o[node][ConciseDCF[node][k].index]
    BY DEF Known
  <2> QED BY <1>1, <1>3, <2>1, AgreesNext DEF AsEntry
<1>5. y = IF Matches(c, node)
          THEN IF HasNext(r, node) THEN read_consise_dcf_next_entry(r, node)
               ELSE start_and_seek_node(r, node)
          ELSE [write_consise_dcf_next_entry(init_consise_dcf(r, node), node)
                EXCEPT !.dcf_status = WRITE]
  BY DEF AfterRead
<1>6. r.clients[e] = node
  BY <1>2
<1> HIDE DEF r, node, k
<1>7. CASE Matches(c, node) /\ HasNext(r, node)
  <2>1. y = NextEntry(r, node, READ, Fetched(node, r.dcf_entries_count + 1, READ))
    BY <1>5, <1>7, NextEntryOf
  <2>2. READ = IF c.dcf_status = WRITE THEN WRITE ELSE READ
    BY StatusesDiffer
  <2>3. Continued(c, y, node, o, D)
    BY <1>1, <1>2, <1>4, <1>6, <1>7, <2>1, <2>2, NextFollows DEF k
  <2> QED BY <2>3 DEF node
<1>8. CASE Matches(c, node) /\ ~HasNext(r, node)
  <2> DEFINE w == start_node(r, node)
  <2>1. y = Seek(w) /\ w = start_node(r, node)
    BY <1>5, <1>8 DEF start_and_seek_node
  <2> HIDE DEF w
  <2>2. /\ w \in Masters /\ w.dcf_status = r.dcf_status
        /\ w.clients = r.clients /\ w.lines = r.lines /\ w.dropped = r.dropped
        /\ w.NMTable = [r.NMTable EXCEPT ![node] = Connecting]
        /\ Starts(w.sent) = Starts(r.sent) \cup {node}
    BY <1>1, <1>2, <2>1, NodeIsStarted
  <2>3. Owned(w) /\ Idle(w) /\ w.dcf_status = READ_CHECK /\ w.dcf_status # INIT
    BY <1>2, <2>2, StatusesDiffer DEF Owned, Idle, NoLineOnUse, SameCursor
  <2>4. /\ MasterInOrder(y) /\ y.dcf_status = INIT /\ y.NMTable = w.NMTable
        /\ Starts(y.sent) \subseteq Starts(w.sent) \cup Unlisted
    BY <2>1, <2>2, <2>3, SeekEnds
  <2>5. Truthful(y, o, D)
    BY <2>4, CheckingIsTruthful
  <2>6. k = Len(ConciseDCF[node])
    <3>1. ~(k < Len(ConciseDCF[node]))
      BY <1>2, <1>8 DEF HasNext, SameCursor, k
    <3> QED BY <1>1, <3>1, EntriesOfDCF
  <2>7. node \in Good(o, D)
    BY <1>1, <1>4, <1>8, <2>6 DEF Good, Configured
  <2>8. Starts(y.sent) \subseteq Starts(c.sent) \cup Good(o, D)
    BY <1>2, <2>2, <2>4, <2>7, UnlistedAreGood DEF SameCursor
  <2>9. y.NMTable[node] # Unknown_state
    <3>1. r.NMTable \in [Slaves -> Heard]
      BY <1>2 DEF Masters
    <3> QED BY <1>1, <2>2, <2>4, <3>1, StatusesDiffer
  <2>10. Continued(c, y, node, o, D)
    BY <2>4, <2>5, <2>8, <2>9, StatusesDiffer DEF Continued, BreaksOff
  <2> QED BY <2>10 DEF node
<1>9. CASE ~Matches(c, node)
  <2> DEFINE i == WithCursor(r, 0, INIT)
             z == write_consise_dcf_next_entry(i, node)
             entry == Fetched(node, 1, WRITE)
  <2>1. y = [z EXCEPT !.dcf_status = WRITE]
    <3>1. i = init_consise_dcf(r, node)
      BY <1>2 DEF init_consise_dcf, WithCursor, Masters
    <3> HIDE DEF i
    <3> QED BY <1>5, <1>9, <3>1
  <2>2. /\ i \in Masters /\ i.dcf_entries_count = 0 /\ i.dcf_status = INIT
        /\ i.clients = r.clients /\ i.lines = r.lines /\ i.sent = r.sent
        /\ i.dropped = r.dropped
    BY <1>2, CursorSet
  <2>3. z = NextEntry(i, node, WRITE, Fetched(node, i.dcf_entries_count + 1, WRITE))
    <3> HIDE DEF i
    <3> QED BY NextEntryOf
  <2> HIDE DEF i, z
  <2>4. Owned(i) /\ Idle(i) /\ (\E f \in Clients : i.clients[f] \in {node, NoNode})
    BY <1>2, <1>6, <2>2 DEF Owned, Idle, NoLineOnUse
  <2>5. HasNext(i, node)
    BY <1>1, <2>2, EntriesOfDCF DEF HasNext
  <2>6. /\ z.dcf_entries_count = 0 + 1 /\ z.sent = i.sent
        /\ 0 + 1 \in 1 .. Len(ConciseDCF[node])
        /\ Asked(z, node, WRITE, Fetched(node, 0 + 1, WRITE))
    BY <1>1, <2>2, <2>3, <2>4, <2>5, NextEntryIsMade
  <2>7. 0 + 1 = 1 /\ entry = Fetched(node, 1, WRITE)
    OBVIOUS
  <2> HIDE DEF entry
  <2>8. Asked(z, node, WRITE, entry)
    BY <2>6, <2>7
  <2>9. /\ Asked(y, node, WRITE, entry) /\ y.dcf_status = WRITE
        /\ y.dcf_entries_count = z.dcf_entries_count /\ y.sent = z.sent
    BY <2>1, <2>8, StatusIsSet
  <2>10. y.dcf_entries_count = 1 /\ 1 \in 1 .. Len(ConciseDCF[node])
    BY <2>6, <2>7, <2>9
  <2>11. node \notin D => /\ Agrees(o, node, y.dcf_entries_count - 1)
                          /\ y.dcf_status = SAVED => Configured(o, node)
    BY <2>9, <2>10, StatusesDiffer DEF Agrees
  <2>12. MasterInOrder(y) /\ Truthful(y, o, D) /\ y.dcf_status # INIT
    BY <1>1, <2>7, <2>9, <2>10, <2>11, AskedIsInOrder
  <2>13. y.sent = c.sent
    BY <1>2, <2>2, <2>6, <2>9 DEF SameCursor
  <2>14. Continued(c, y, node, o, D)
    BY <2>12, <2>13 DEF Continued
  <2> QED BY <2>14 DEF node
<1> QED BY <1>7, <1>8, <1>9

\* The entry is written: the next, or the slave is to save, or is started.
LEMMA WriteEnds ==
  ASSUME NEW c, NEW e \in Clients, Ended(c, e), c.dcf_status = WRITE,
         c.lines[e].state = FINISHED, NEW o, NEW D, Known(c, e, o, D),
         NEW y, y = AfterWrite(c, c.clients[e])
  PROVE  Continued(c, y, c.clients[e], o, D)
<1> DEFINE node == c.clients[e]
           k == c.dcf_entries_count
           r == resetClientSDOLineFromNodeId(c, node)
           count == r.dcf_entries_count
           i == WithCursor(r, count, INIT)
           entry == [index |-> StoreIndex, value |-> NoNode]
           z == NetworkDictAI(r, node, STORE, entry)
           w == start_node(i, node)
<1>1. /\ c \in Masters /\ Owned(c) /\ Only(c, e) /\ node \in Slaves /\ NbClients # 0
      /\ k \in 1 .. Len(ConciseDCF[node]) /\ c.dropped = FALSE
  BY DCFAssumption DEF Ended, Clients
<1>2. r \in Masters /\ Owned(r) /\ Idle(r) /\ SameCursor(c, r) /\ r.clients = c.clients
  BY <1>1, LineIsReset
<1>3. node \notin D => Agrees(o, node, k)
  BY DEF Known
<1>4. i = [r EXCEPT !.dcf_status = INIT]
  <2> HIDE DEF r
  <2> QED BY <1>2 DEF WithCursor, Masters
<1>5. y = IF HasNext(r, node) THEN write_consise_dcf_next_entry(r, node)
          ELSE IF saving THEN [z EXCEPT !.dcf_status = SAVED]
          ELSE Seek(w)
  BY <1>4 DEF AfterWrite, SaveNode, start_and_seek_node
<1>6. r.clients[e] = node /\ count = k
  BY <1>2 DEF SameCursor
<1>7. ASSUME ~HasNext(r, node) PROVE k = Len(ConciseDCF[node])
  <2> HIDE DEF node
  <2>1. ~(k < Len(ConciseDCF[node]))
    BY <1>6, <1>7 DEF HasNext
  <2> QED BY <1>1, <2>1, EntriesOfDCF
<1>8. ASSUME ~HasNext(r, node), node \notin D PROVE Configured(o, node)
  BY <1>3, <1>7, <1>8 DEF Configured
<1>9. z = NetworkDictAI(r, node, STORE, entry) /\ w = start_node(i, node)
  OBVIOUS
<1>10. count \in Nat
  BY <1>2 DEF Masters
<1>11. /\ i \in Masters /\ i.dcf_status = INIT
       /\ i.clients = r.clients /\ i.lines = r.lines /\ i.sent = r.sent
       /\ i.dropped = r.dropped
  <2> HIDE DEF r, count
  <2> QED BY <1>2, <1>10, CursorSet
<1>12. entry.index = StoreIndex /\ entry.value = NoNode
  OBVIOUS
<1> HIDE DEF r, node, k, count, i, entry, z, w
<1>13. CASE HasNext(r, node)
  <2>1. y = NextEntry(r, node, WRITE, Fetched(node, r.dcf_entries_count + 1, WRITE))
    BY <1>5, <1>13, NextEntryOf
  <2>2. WRITE = IF c.dcf_status = WRITE THEN WRITE ELSE READ
    OBVIOUS
  <2>3. Continued(c, y, node, o, D)
    BY <1>1, <1>2, <1>3, <1>6, <1>13, <2>1, <2>2, NextFollows DEF k
  <2> QED BY <2>3 DEF node
<1>14. CASE ~HasNext(r, node) /\ saving
  <2>1. y = [z EXCEPT !.dcf_status = SAVED]
    BY <1>5, <1>14
  <2>2. SameCursor(r, z) /\ Asked(z, node, STORE, entry)
    BY <1>1, <1>2, <1>6, <1>9, <1>12, RequestIsMade
  <2>4. /\ Asked(y, node, STORE, entry) /\ y.dcf_status = SAVED
        /\ y.dcf_entries_count = z.dcf_entries_count /\ y.sent = z.sent
    BY <2>1, <2>2, StatusIsSet
  <2>5. y.dcf_entries_count = k /\ y.sent = c.sent
    BY <1>2, <2>2, <2>4 DEF SameCursor, k
  <2>6. node \notin D => Agrees(o, node, k - 1) /\ Configured(o, node)
    <3>1. node \notin D => Agrees(o, node, k - 1)
      BY DEF Known, node, k
    <3> QED BY <1>8, <1>14, <3>1
  <2>7. MasterInOrder(y) /\ Truthful(y, o, D) /\ y.dcf_status # INIT
    <3>1. y.dcf_entries_count \in 1 .. Len(ConciseDCF[node])
      BY <1>1, <2>5
    <3>2. node \notin D => /\ Agrees(o, node, y.dcf_entries_count - 1)
                           /\ y.dcf_status = SAVED => Configured(o, node)
      BY <2>5, <2>6
    <3> QED BY <1>1, <2>4, <3>1, <3>2, AskedIsInOrder
  <2>8. Continued(c, y, node, o, D)
    BY <2>5, <2>7 DEF Continued
  <2> QED BY <2>8 DEF node
<1>15. CASE ~HasNext(r, node) /\ ~saving
  <2>1. y = Seek(w)
    BY <1>5, <1>15
  <2>2. /\ w \in Masters /\ w.dcf_status = i.dcf_status
        /\ w.clients = i.clients /\ w.lines = i.lines /\ w.dropped = i.dropped
        /\ Starts(w.sent) = Starts(i.sent) \cup {node}
    BY <1>1, <1>9, <1>11, NodeIsStarted
  <2>3. Owned(w) /\ Idle(w) /\ w.dcf_status = INIT
    BY <1>2, <1>11, <2>2 DEF Owned, Idle, NoLineOnUse
  <2>4. /\ MasterInOrder(y) /\ (Checking(y) \/ y.dcf_status = INIT)
        /\ Starts(y.sent) \subseteq Starts(w.sent) \cup Unlisted
        /\ y.dcf_status = INIT => NooneWaits(y)
    BY <1>1, <2>1, <2>2, <2>3, SeekEnds DEF NooneWaits
  <2>5. Truthful(y, o, D)
    BY <2>4, CheckingIsTruthful
  <2>6. node \in Good(o, D)
    BY <1>1, <1>8, <1>15 DEF Good
  <2>7. Starts(y.sent) \subseteq Starts(c.sent) \cup Good(o, D)
    BY <1>2, <1>11, <2>2, <2>4, <2>6, UnlistedAreGood DEF SameCursor
  <2>8. Continued(c, y, node, o, D)
    BY <2>4, <2>5, <2>7 DEF Continued
  <2> QED BY <2>8 DEF node
<1> QED BY <1>13, <1>14, <1>15

\* The slave has saved and is reset.
LEMMA SaveEnds ==
  ASSUME NEW c, NEW e \in Clients, Ended(c, e), c.dcf_status = SAVED, NEW o, NEW D,
         NEW y, y = AfterSave(c, c.clients[e])
  PROVE  Continued(c, y, c.clients[e], o, D)
<1> DEFINE node == c.clients[e]
           r == resetClientSDOLineFromNodeId(c, node)
           m == [cs |-> NMT_Reset_Node, node |-> node]
           table == [r.NMTable EXCEPT ![node] = Unknown_state]
           sent == Append(r.sent, m)
           v == WithNews(r, table, sent)
           count == v.dcf_entries_count
           w == WithCursor(v, count, INIT)
<1>1. c \in Masters /\ Owned(c) /\ Only(c, e) /\ node \in Slaves /\ c.dropped = FALSE
  BY DEF Ended
<1>2. r \in Masters /\ Owned(r) /\ Idle(r) /\ SameCursor(c, r) /\ r.clients = c.clients
  BY <1>1, LineIsReset
<1>3. m \in Told /\ m.cs # NMT_Start_Node
  BY <1>1, StatusesDiffer DEF Told
<1>4. y = [Commanded(r, node, NMT_Reset_Node)
           EXCEPT !.dcf_status = INIT, !.NMTable[node] = Unknown_state]
  BY DEF AfterSave
<1> HIDE DEF r, node
<1>5. y = w
  BY <1>2, <1>4 DEF WithNews, WithCursor, Commanded, Masters
<1>6. table \in [Slaves -> Heard] /\ r.sent \in Seq(Told)
  BY <1>2 DEF Masters, Heard
<1> HIDE DEF m
<1>7. sent \in Seq(Told) /\ Starts(sent) = Starts(r.sent)
  BY <1>3, <1>6, StartsOfAppend
<1> HIDE DEF table, sent
<1>8. /\ v \in Masters /\ v.sent = sent /\ v.clients = r.clients /\ v.lines = r.lines
      /\ v.dropped = r.dropped
  BY <1>2, <1>6, <1>7, NewsSet
<1>9. count \in Nat
  BY <1>8 DEF Masters
<1> HIDE DEF v, count
<1>10. /\ w \in Masters /\ w.dcf_status = INIT /\ w.sent = v.sent
       /\ w.clients = v.clients /\ w.lines = v.lines /\ w.dropped = v.dropped
  BY <1>8, <1>9, CursorSet
<1> HIDE DEF w
<1>11. Owned(y) /\ Idle(y)
  BY <1>2, <1>5, <1>8, <1>10 DEF Owned, Idle, NoLineOnUse
<1>12. MasterInOrder(y) /\ Truthful(y, o, D)
  BY <1>5, <1>10, <1>11 DEF MasterInOrder, Truthful, Idle, NoLineOnUse, Live
<1>13. Starts(y.sent) \subseteq Starts(c.sent) \cup Good(o, D)
  BY <1>2, <1>5, <1>7, <1>8, <1>10 DEF SameCursor
<1>14. Continued(c, y, node, o, D)
  BY <1>12, <1>13, StatusesDiffer DEF Continued, BreaksOff
<1> QED BY <1>14 DEF node

\* However a transfer ended, the master goes on.
LEMMA ContinueEnds ==
  ASSUME NEW c, NEW e \in Clients, Ended(c, e), NEW o, NEW D, Known(c, e, o, D),
         NEW y, y = CheckSDOAndContinue(c, c.clients[e])
  PROVE  Continued(c, y, c.clients[e], o, D)
<1> DEFINE node == c.clients[e]
<1>1. /\ c \in Masters /\ Owned(c) /\ node \in Slaves
      /\ c.dcf_status \in {READ_CHECK, WRITE, SAVED} /\ c.dcf_status # INIT
  BY DEF Ended, Masters
<1>2. LineFor(c, node) = c.lines[e]
  <2>1. GetSDOClientFromNodeId(c, node) = e /\ e # None
    BY <1>1, ClientOfSlave, DCFAssumption DEF None, Clients
  <2> QED BY <2>1 DEF LineFor
<1>3. HasResult(LineFor(c, node)) => c.lines[e].state = FINISHED
  BY <1>2 DEF HasResult
<1>4. CASE ~HasResult(LineFor(c, node))
  <2>1. y = dcferror(c, node)
    BY <1>1, <1>4 DEF CheckSDOAndContinue
  <2> QED BY <2>1, ErrorEnds
<1>5. CASE HasResult(LineFor(c, node))
  <2>1. y = CASE c.dcf_status = READ_CHECK -> AfterRead(c, node)
              [] c.dcf_status = WRITE -> AfterWrite(c, node)
              [] c.dcf_status = SAVED -> AfterSave(c, node)
    BY <1>1, <1>5 DEF CheckSDOAndContinue
  <2>2. CASE c.dcf_status = READ_CHECK
    <3>1. y = AfterRead(c, node)
      BY <2>1, <2>2, StatusesDiffer
    <3> QED BY <1>3, <1>5, <2>2, <3>1, ReadEnds
  <2>3. CASE c.dcf_status = WRITE
    <3>1. y = AfterWrite(c, node)
      BY <2>1, <2>3, StatusesDiffer
    <3> QED BY <1>3, <1>5, <2>3, <3>1, WriteEnds
  <2>4. CASE c.dcf_status = SAVED
    <3>1. y = AfterSave(c, node)
      BY <2>1, <2>4, StatusesDiffer
    <3> QED BY <2>4, <3>1, SaveEnds
  <2> QED BY <1>1, <2>2, <2>3, <2>4
<1> QED BY <1>4, <1>5

-----------------------------------------------------------------------------
(***************************************************************************)
(* What actions do to the master, whose transfer, if there is one, is that *)
(* of entry e.                                                             *)
(***************************************************************************)
\* The entry on use is the one at work.
LEMMA AtWork ==
  ASSUME NEW c, MasterInOrder(c), NEW e \in Clients, Live(c.lines[e])
  PROVE  Busy(c, e) /\ c.dcf_status \in {READ_CHECK, WRITE, SAVED} /\ c.dcf_status # INIT
<1>1. c.lines[e].state # FREE /\ c.lines[e].state # ABORTED_INTERNAL
  BY DEF Live
<1>2. c.dcf_status # INIT /\ c.dcf_status \in {INIT, READ_CHECK, WRITE, SAVED}
  BY <1>1 DEF MasterInOrder, Idle, NoLineOnUse, Masters
<1>3. ~Stuck(c)
  BY <1>1 DEF Stuck
<1>4. PICK f \in Clients : Busy(c, f)
  BY <1>2, <1>3 DEF MasterInOrder
<1>5. f = e
  BY <1>1, <1>4 DEF Busy, Only
<1> QED BY <1>2, <1>4, <1>5

\* Nothing of the transfer differs.
LEMMA TransferUntouched ==
  ASSUME NEW c, MasterInOrder(c), NEW o, NEW D, Truthful(c, o, D),
         NEW z \in Masters, z.dcf_status = c.dcf_status, z.dropped = c.dropped,
         z.dcf_entries_count = c.dcf_entries_count, z.clients = c.clients, z.lines = c.lines
  PROVE  MasterInOrder(z) /\ Truthful(z, o, D)
<1>1. Owned(z) /\ (z.dcf_status = INIT => Idle(z))
  BY DEF MasterInOrder, Owned, Idle, NoLineOnUse
<1>2. \A e \in Clients : Busy(c, e) => Busy(z, e)
  BY DEF Busy, Only
<1>3. Stuck(c) => Stuck(z)
  BY DEF Stuck, Only
<1>4. Truthful(z, o, D)
  BY DEF Truthful, Progress
<1> QED BY <1>1, <1>2, <1>3, <1>4 DEF MasterInOrder

LineSet(c, e, line) == WithLines(c, c.clients, [c.lines EXCEPT ![e] = line])

\* Its line changes.
LEMMA LineIsSet ==
  ASSUME NEW c \in Masters, NEW e \in Clients, NEW line \in Lines
  PROVE  LET z == LineSet(c, e, line)
         IN  /\ z \in Masters /\ SameCursor(c, z) /\ z.clients = c.clients
             /\ z.dropped = c.dropped
             /\ z.lines[e] = line /\ \A f \in Clients \ {e} : z.lines[f] = c.lines[f]
<1> DEFINE lines == [c.lines EXCEPT ![e] = line]
<1>1. /\ lines \in [Clients -> Lines] /\ c.clients \in [Clients -> Slaves \cup {NoNode}]
      /\ lines[e] = line /\ \A f \in Clients \ {e} : lines[f] = c.lines[f]
  BY DEF Masters
<1>2. LineSet(c, e, line) = WithLines(c, c.clients, lines)
  BY DEF LineSet
<1> HIDE DEF lines
<1> QED BY <1>1, <1>2, LinesSet

\* Its request gets on.
LEMMA LineMoves ==
  ASSUME NEW c, MasterInOrder(c), NEW e \in Clients, Live(c.lines[e]),
         NEW line \in Lines, Live(line), line.op = c.lines[e].op,
         line.index = c.lines[e].index, c.dcf_status = WRITE => line.value = c.lines[e].value,
         NEW z, z = LineSet(c, e, line), NEW o, NEW D, c.clients[e] \notin D => Progress(z, e, o, c.clients[e])
  PROVE  MasterInOrder(z) /\ Truthful(z, o, D) /\ SameCursor(c, z)
<1>1. c \in Masters /\ Owned(c) /\ Busy(c, e) /\ c.dcf_status # INIT
  BY AtWork DEF MasterInOrder
<1>2. /\ z \in Masters /\ SameCursor(c, z) /\ z.clients = c.clients /\ z.dropped = c.dropped
      /\ z.lines[e] = line /\ \A f \in Clients \ {e} : z.lines[f] = c.lines[f]
  BY <1>1, LineIsSet
<1>3. Owned(z) /\ Only(z, e)
  BY <1>1, <1>2 DEF Owned, Only, Busy
<1>4. Busy(z, e)
  BY <1>1, <1>2, <1>3 DEF Busy, SameCursor
<1>5. MasterInOrder(z)
  BY <1>1, <1>2, <1>3, <1>4 DEF MasterInOrder, SameCursor
<1>6. Truthful(z, o, D)
  BY <1>2, <1>3 DEF Truthful, Only, Live
<1> QED BY <1>2, <1>5, <1>6

\* Its transfer ends.
LEMMA WorkEnds ==
  ASSUME NEW c, MasterInOrder(c), NEW e \in Clients, Live(c.lines[e]),
         NEW o, NEW D, Truthful(c, o, D), NEW line \in Lines,
         line.state = FINISHED => c.lines[e].state = ANSWERED /\ line.value = c.lines[e].value,
         NEW z, z = LineSet(c, e, line)
  PROVE  /\ Ended(z, e) /\ Known(z, e, o, D) /\ SameCursor(c, z) /\ z.clients = c.clients
         /\ Only(c, e)
<1>1. c \in Masters /\ Owned(c) /\ Busy(c, e) /\ c.dcf_status # INIT
  BY AtWork DEF MasterInOrder
<1>2. /\ z \in Masters /\ SameCursor(c, z) /\ z.clients = c.clients /\ z.dropped = c.dropped
      /\ z.lines[e] = line /\ \A f \in Clients \ {e} : z.lines[f] = c.lines[f]
  BY <1>1, LineIsSet
<1>3. Ended(z, e)
  BY <1>1, <1>2 DEF Ended, Owned, Only, Busy, SameCursor
<1>4. Known(z, e, o, D)
  <2> DEFINE node == c.clients[e]
  <2>1. CASE node \in D
    BY <1>2, <2>1 DEF Known
  <2>2. CASE node \notin D
    <3>1. Progress(c, e, o, node)
      BY <2>2 DEF Truthful
    <3>2. c.dcf_status = READ_CHECK => c.lines[e].index = ConciseDCF[node][c.dcf_entries_count].index
      BY <1>1 DEF Busy
    <3> QED BY <1>2, <3>1, <3>2 DEF Known, Progress, SameCursor
  <2> QED BY <2>1, <2>2
<1> QED BY <1>1, <1>2, <1>3, <1>4 DEF Busy

-----------------------------------------------------------------------------
(***************************************************************************)
(* The master's actions.                                                   *)
(***************************************************************************)
\* Nothing has been sent.
LEMMA NothingStarts == <<>> \in Seq(Told) /\ Starts(<<>>) = {}
BY DEF Starts

NobodyIsForgotten ==
  (d.dcf_status = WRITE \/ BrokenOff) /\ d'.dcf_status = INIT => NooneWaits(d')

\* A call ends with master y.
LEMMA MasterGoesOn ==
  ASSUME DCFInvariant, NEW y, MasterInOrder(y), Truthful(y, Objects, disturbed),
         Starts(y.sent) \subseteq Good(Objects, disturbed), MasterBecomes(y),
         UNCHANGED <<slave, disturbed>>, bootups' \subseteq bootups
  PROVE  DCFInvariant' /\ d'.dcf_status = y.dcf_status /\ d'.NMTable = y.NMTable
<1> DEFINE none == <<>>
           table == y.NMTable
           z == WithNews(y, table, none)
<1>1. y \in Masters /\ y.NMTable \in [Slaves -> Heard] /\ y.sent \in Seq(Told)
  BY DEF MasterInOrder, Masters
<1>2. d' = z /\ commands' = commands \o y.sent /\ commands \in Seq(Told)
  BY <1>1 DEF MasterBecomes, WithNews, Masters, DCFInvariant
<1>3. /\ z \in Masters /\ z.NMTable = y.NMTable /\ z.sent = <<>>
      /\ z.dcf_status = y.dcf_status /\ z.dcf_entries_count = y.dcf_entries_count
      /\ z.clients = y.clients /\ z.lines = y.lines /\ z.dropped = y.dropped
  <2>1. none \in Seq(Told) /\ table \in [Slaves -> Heard]
    BY <1>1, NothingStarts
  <2> HIDE DEF none, table
  <2>2. /\ z \in Masters /\ z.NMTable = table /\ z.sent = none
        /\ z.dcf_status = y.dcf_status /\ z.dcf_entries_count = y.dcf_entries_count
        /\ z.clients = y.clients /\ z.lines = y.lines /\ z.dropped = y.dropped
    BY <1>1, <2>1, NewsSet
  <2> HIDE DEF z
  <2> QED BY <2>2 DEF none, table
<1> HIDE DEF z
<1>4. MasterInOrder(z) /\ Truthful(z, Objects, disturbed)
  BY <1>3, TransferUntouched
<1>5. commands' \in Seq(Told) /\ Starts(commands') \subseteq Starts(commands) \cup Starts(y.sent)
  BY <1>1, <1>2, StartsOfConcat
<1>6. Objects' = Objects
  BY DEF Objects
<1>7. ASSUME NEW n \in Slaves \ disturbed, slave[n].state = Operational \/ n \in Starts(commands')
      PROVE  Configured(Objects, n)
  BY <1>5, <1>7 DEF DCFInvariant, Good
<1> QED BY <1>2, <1>3, <1>4, <1>5, <1>6, <1>7 DEF DCFInvariant

\* A slave has booted.
LEMMA BootupKeeps ==
  ASSUME DCFInvariant, NEW n \in Slaves, post_SlaveBootup(n)
  PROVE  DCFInvariant' /\ NobodyIsForgotten
<1> DEFINE table == [d.NMTable EXCEPT ![n] = Initialisation]
           c == WithNews(d, table, d.sent)
           r == CheckAndStart(c, n)
           y == r.d
<1>1. d \in Masters /\ MasterInOrder(d) /\ d.sent = <<>> /\ Truthful(d, Objects, disturbed)
  BY DEF DCFInvariant, MasterInOrder
<1>2. table \in [Slaves -> Heard] /\ d.sent \in Seq(Told)
  BY <1>1 DEF Masters, Heard
<1>3. c = [d EXCEPT !.NMTable[n] = Initialisation]
  BY <1>1 DEF WithNews, Masters
<1>4. MasterBecomes(y) /\ UNCHANGED <<slave, disturbed>> /\ bootups' \subseteq bootups
  <2> HIDE DEF c
  <2> QED BY <1>3 DEF post_SlaveBootup
<1>5. r = CheckAndStart(c, n) /\ y = r.d
  OBVIOUS
<1> HIDE DEF table
<1>6. /\ c \in Masters /\ c.sent = <<>> /\ c.dcf_status = d.dcf_status
      /\ c.dcf_entries_count = d.dcf_entries_count /\ c.clients = d.clients /\ c.lines = d.lines
      /\ c.dropped = d.dropped
  BY <1>1, <1>2, NewsSet
<1> HIDE DEF c, r, y
<1>7. MasterInOrder(c) /\ Truthful(c, Objects, disturbed)
  BY <1>1, <1>6, TransferUntouched
<1>8. CASE c.dcf_status # INIT \/ NbClients = 0
  <2>1. y = c
    BY <1>5, <1>8 DEF CheckAndStart
  <2>2. DCFInvariant' /\ d'.dcf_status = c.dcf_status
    BY <1>4, <1>6, <1>7, <2>1, NothingStarts, MasterGoesOn
  <2>3. NbClients # 0 \/ ~BrokenOff
    BY DEF BrokenOff, Clients
  <2>4. BrokenOff => d.dcf_status # INIT
    BY <1>1 DEF BrokenOff, MasterInOrder, Idle, NoLineOnUse
  <2>5. NobodyIsForgotten
    <3>1. d.dcf_status = WRITE => d.dcf_status # INIT
      BY StatusesDiffer
    <3> QED BY <1>6, <2>2, <2>4, <3>1 DEF NobodyIsForgotten
  <2> QED BY <2>2, <2>5
<1>9. CASE c.dcf_status = INIT /\ NbClients # 0
  <2>1. Owned(c) /\ Idle(c)
    BY <1>7, <1>9 DEF MasterInOrder
  <2>2. \/ /\ n \in Unlisted
           /\ y \in Masters /\ Owned(y) /\ Idle(y) /\ y.dcf_status = INIT
           /\ Starts(y.sent) = Starts(c.sent) \cup {n}
        \/ Checking(y) /\ y.sent = c.sent
    BY <1>5, <1>6, <1>9, <2>1, CheckedOrStarted
  <2>3. MasterInOrder(y) /\ (Checking(y) \/ y.dcf_status = INIT)
    BY <2>2 DEF Checking, MasterInOrder
  <2>4. Truthful(y, Objects, disturbed)
    BY <2>3, CheckingIsTruthful
  <2>5. Starts(y.sent) \subseteq Good(Objects, disturbed)
    BY <1>6, <2>2, NothingStarts, UnlistedAreGood
  <2>6. DCFInvariant'
    BY <1>4, <2>3, <2>4, <2>5, MasterGoesOn
  <2>7. NobodyIsForgotten
    BY <1>1, <1>6, <1>9, StatusesDiffer DEF NobodyIsForgotten, BrokenOff, MasterInOrder, Idle, NoLineOnUse
  <2> QED BY <2>6, <2>7
<1> QED BY <1>8, <1>9

\* A transfer has ended.
LEMMA EndKeeps ==
  ASSUME DCFInvariant, NEW e \in Clients, Live(d.lines[e]), NEW line \in Lines,
         line.state = FINISHED => d.lines[e].state = ANSWERED /\ line.value = d.lines[e].value,
         MasterBecomes(CheckSDOAndContinue(LineSet(d, e, line), d.clients[e])),
         UNCHANGED <<slave, disturbed, bootups>>
  PROVE  DCFInvariant' /\ NobodyIsForgotten
<1> DEFINE c == LineSet(d, e, line)
           node == d.clients[e]
           y == CheckSDOAndContinue(c, node)
<1>1. MasterInOrder(d) /\ d.sent = <<>> /\ Truthful(d, Objects, disturbed)
  BY DEF DCFInvariant
<1>2. c = LineSet(d, e, line) /\ y = CheckSDOAndContinue(c, node) /\ MasterBecomes(y)
  OBVIOUS
<1> HIDE DEF c, y
<1>3. /\ Ended(c, e) /\ Known(c, e, Objects, disturbed) /\ SameCursor(d, c)
      /\ c.clients = d.clients /\ Only(d, e)
  BY <1>1, <1>2, WorkEnds
<1>4. y = CheckSDOAndContinue(c, c.clients[e])
  BY <1>2, <1>3
<1>5. Continued(c, y, c.clients[e], Objects, disturbed)
  BY <1>3, <1>4, ContinueEnds
<1>6. Starts(y.sent) \subseteq Good(Objects, disturbed)
  BY <1>1, <1>3, <1>5, NothingStarts DEF Continued, SameCursor
<1>7. DCFInvariant' /\ d'.dcf_status = y.dcf_status /\ d'.NMTable = y.NMTable
  BY <1>2, <1>5, <1>6, MasterGoesOn DEF Continued
<1>8. BrokenOff => BreaksOff(c, y, node)
  <2>1. ASSUME NEW f \in Clients, d.lines[f].state # FREE PROVE f = e
    BY <1>3, <2>1 DEF Only
  <2> QED BY <1>3, <1>7, <2>1 DEF BrokenOff, BreaksOff, SameCursor
<1>9. NobodyIsForgotten
  BY <1>3, <1>5, <1>7, <1>8 DEF NobodyIsForgotten, Continued, SameCursor, NooneWaits
<1> QED BY <1>7, <1>9

\* By an answer or an abort.
LEMMA ProceedKeeps ==
  ASSUME DCFInvariant, NEW e \in Clients, ProceedSDO(e)
  PROVE  DCFInvariant' /\ NobodyIsForgotten
<1> DEFINE line == IF d.lines[e].state = ANSWERED THEN [d.lines[e] EXCEPT !.state = FINISHED]
                   ELSE d.lines[e]
<1>1. d \in Masters /\ d.lines[e] \in Lines /\ d.lines[e].state \in {ANSWERED, ABORTED_RCV}
  BY DEF DCFInvariant, MasterInOrder, Masters, ProceedSDO
<1>2. line \in Lines
  BY <1>1 DEF Lines, LineStates
<1>3. line.state = FINISHED => d.lines[e].state = ANSWERED /\ line.value = d.lines[e].value
  <2>1. ABORTED_RCV # FINISHED
    BY DEF ABORTED_RCV, FINISHED
  <2> QED BY <1>1, <2>1 DEF Lines
<1>4. (IF d.lines[e].state = ANSWERED THEN [d EXCEPT !.lines[e].state = FINISHED] ELSE d)
        = LineSet(d, e, line)
  BY <1>1 DEF LineSet, WithLines, Masters
<1>5. Live(d.lines[e])
  BY <1>1, StatusesDiffer DEF Live
<1>6. /\ MasterBecomes(CheckSDOAndContinue(LineSet(d, e, line), d.clients[e]))
      /\ UNCHANGED <<slave, disturbed, bootups>>
  BY <1>4 DEF ProceedSDO
<1> HIDE DEF line
<1> QED BY <1>2, <1>3, <1>5, <1>6, EndKeeps

\* By the watchdog.
LEMMA TimeoutKeeps ==
  ASSUME DCFInvariant, NEW e \in Clients, SDOTimeoutAlarm(e)
  PROVE  DCFInvariant' /\ NobodyIsForgotten
<1>1. d \in Masters
  BY DEF DCFInvariant, MasterInOrder
<1>2. NoLine \in Lines /\ NoLine.state # FINISHED
  BY StatusesDiffer DEF NoLine, Lines, LineStates
<1>3. [d EXCEPT !.lines[e] = NoLine] = LineSet(d, e, NoLine)
  BY <1>1 DEF LineSet, WithLines, Masters
<1>4. Live(d.lines[e])
  BY StatusesDiffer DEF SDOTimeoutAlarm, NobodyServes, Live
<1>5. /\ MasterBecomes(CheckSDOAndContinue(LineSet(d, e, NoLine), d.clients[e]))
      /\ UNCHANGED <<slave, disturbed, bootups>>
  BY <1>3 DEF SDOTimeoutAlarm
<1> QED BY <1>2, <1>4, <1>5, EndKeeps

-----------------------------------------------------------------------------
(***************************************************************************)
(* The slaves' actions.                                                    *)
(***************************************************************************)
\* While a transfer goes on, or none begins, nobody is to be looked for.
LEMMA NothingEnds ==
  ASSUME DCFInvariant, d'.dcf_status = d.dcf_status
  PROVE  NobodyIsForgotten
BY StatusesDiffer DEF NobodyIsForgotten, BrokenOff, DCFInvariant, MasterInOrder, Idle, NoLineOnUse

\* A slave that boots is disturbed if the master is at it.
LEMMA BootKeeps ==
  ASSUME DCFInvariant, NEW n \in Slaves, Boot(n)
  PROVE  DCFInvariant'
<1>1. /\ slave' = [slave EXCEPT ![n].state = Pre_operational, ![n].objects = slave[n].saved]
      /\ bootups' = bootups \cup {n}
      /\ disturbed' = IF AtSlave(n) THEN disturbed \cup {n} ELSE disturbed \ {n}
      /\ d' = d /\ commands' = commands
  BY DEF Boot
<1>2. slave' \in [Slaves -> [state : {Off, Pre_operational, Operational},
                             objects : [Indexes -> Values], saved : [Indexes -> Values]]]
  BY <1>1 DEF DCFInvariant
<1>3. slave'[n].state = Pre_operational
      /\ \A m \in Slaves \ {n} : slave'[m] = slave[m] /\ Objects'[m] = Objects[m]
  BY <1>1 DEF DCFInvariant, Objects
<1>4. ASSUME NEW m \in Slaves \ {n}, NEW k PROVE Agrees(Objects', m, k) <=> Agrees(Objects, m, k)
  BY <1>3 DEF Agrees
<1>5. Truthful(d', Objects', disturbed')
  <2> SUFFICES ASSUME NEW e \in Clients, Live(d.lines[e]), d.clients[e] \notin disturbed'
               PROVE  Progress(d, e, Objects', d.clients[e])
    BY <1>1 DEF Truthful
  <2>1. Busy(d, e)
    BY AtWork DEF DCFInvariant
  <2>2. d.clients[e] \in Slaves \ {n} /\ d.clients[e] \notin disturbed
    BY <1>1, <2>1 DEF AtSlave, Busy, Live
  <2>3. Progress(d, e, Objects, d.clients[e])
    BY <2>2 DEF DCFInvariant, Truthful
  <2> QED BY <1>3, <1>4, <2>2, <2>3 DEF Progress, Configured
<1>6. ASSUME NEW m \in Slaves \ disturbed', slave'[m].state = Operational \/ m \in Starts(commands)
      PROVE  Configured(Objects', m)
  <2>1. m # n
    BY <1>1, <1>3, <1>6, StatusesDiffer DEF AtSlave, Starts, Pre_operational, Operational
  <2>2. m \in Slaves \ disturbed /\ (slave[m].state = Operational \/ m \in Starts(commands))
    BY <1>1, <1>3, <1>6, <2>1
  <2>3. Configured(Objects, m)
    BY <2>2 DEF DCFInvariant
  <2> QED BY <1>4, <2>1, <2>3 DEF Configured
<1> QED BY <1>1, <1>2, <1>5, <1>6 DEF DCFInvariant

\* What is written agrees, and so does what agreed before.
LEMMA WriteAgrees ==
  ASSUME NEW o \in [Slaves -> [Indexes -> Values]], NEW n \in Slaves,
         NEW k \in 1 .. Len(ConciseDCF[n]), NEW z, \A m \in Slaves \ {n} : z[m] = o[m],
         z[n] = [o[n] EXCEPT ![ConciseDCF[n][k].index] = Cut[ConciseDCF[n][k].value]]
  PROVE  /\ Agrees(o, n, k - 1) => Agrees(z, n, k)
         /\ \A m \in Slaves : Configured(o, m) => Configured(z, m)
<1> DEFINE q == ConciseDCF[n]
<1>1. /\ DOMAIN q = 1 .. Len(q) /\ Len(q) \in Nat
      /\ \A i \in 1 .. Len(q) : q[i].index \in Indexes /\ q[i].value \in Values
  BY EntriesOfDCF
<1>2. \A i \in 1 .. Len(q) : q[i].index = q[k].index => q[i] = q[k]
  <2>1. \A i, j \in DOMAIN q : q[i].index = q[j].index => q[i] = q[j]
    BY DCFAssumption
  <2> HIDE DEF q
  <2> QED BY <1>1, <2>1 DEF q
<1> HIDE DEF q
<1>3. z[n] = [o[n] EXCEPT ![q[k].index] = Cut[q[k].value]] /\ o[n] \in [Indexes -> Values]
      /\ k \in 1 .. Len(q)
  BY DEF q
<1>4. ASSUME NEW i \in 1 .. Len(q)
      PROVE  z[n][q[i].index] = IF q[i].index = q[k].index THEN Cut[q[k].value] ELSE o[n][q[i].index]
  BY <1>1, <1>3
<1>5. ASSUME NEW i \in 1 .. Len(q), i = k \/ AsEntry(o[n][q[i].index], q[i])
      PROVE  AsEntry(z[n][q[i].index], q[i])
  BY <1>2, <1>4, <1>5 DEF AsEntry
<1>6. ASSUME Agrees(o, n, k - 1) PROVE Agrees(z, n, k)
  <2> SUFFICES ASSUME NEW i \in 1 .. k PROVE AsEntry(z[n][q[i].index], q[i])
    BY DEF Agrees, q
  <2>1. i \in 1 .. Len(q) /\ (i = k \/ i \in 1 .. k - 1)
    BY <1>1, <1>3
  <2>2. i = k \/ AsEntry(o[n][q[i].index], q[i])
    BY <1>6, <2>1 DEF Agrees, q
  <2> QED BY <1>5, <2>1, <2>2
<1>7. ASSUME NEW m \in Slaves, Configured(o, m) PROVE Configured(z, m)
  <2>1. CASE m = n
    BY <1>5, <1>7, <2>1 DEF Configured, Agrees, q
  <2>2. CASE m # n
    BY <1>7, <2>2 DEF Configured, Agrees
  <2> QED BY <2>1, <2>2
<1> QED BY <1>6, <1>7

\* A slave serves a request.
LEMMA ServeKeeps ==
  ASSUME DCFInvariant, NEW e \in Clients, Serve(e)
  PROVE  DCFInvariant' /\ NobodyIsForgotten
<1> DEFINE l == d.lines[e]
           n == d.clients[e]
           k == d.dcf_entries_count
           value == IF l.op = READ THEN slave[n].objects[l.index] ELSE l.value
           refused == [l EXCEPT !.state = ABORTED_RCV]
           answered == [l EXCEPT !.state = ANSWERED, !.value = value]
<1>1. /\ MasterInOrder(d) /\ d \in Masters /\ d.sent = <<>> /\ Truthful(d, Objects, disturbed)
      /\ l \in Lines /\ l.state = ASKED /\ l.state # FREE
  BY StatusesDiffer DEF DCFInvariant, MasterInOrder, Masters, Serve
<1>2. /\ Live(l) /\ Busy(d, e) /\ d.dcf_status \in {READ_CHECK, WRITE, SAVED}
      /\ n \in Slaves /\ k \in 1 .. Len(ConciseDCF[n])
  <2>1. Live(l)
    BY <1>1, StatusesDiffer DEF Live
  <2> QED BY <1>1, <2>1, AtWork DEF Busy
<1>3. /\ slave \in [Slaves -> [state : {Off, Pre_operational, Operational},
                               objects : [Indexes -> Values], saved : [Indexes -> Values]]]
      /\ bootups \subseteq Slaves /\ commands \in Seq(Told)
      /\ UNCHANGED <<bootups, commands, disturbed>>
  BY DEF DCFInvariant, Serve
<1>4. Objects \in [Slaves -> [Indexes -> Values]] /\ \A m \in Slaves : Objects[m] = slave[m].objects
  BY <1>3 DEF Objects
<1>5. ConciseDCF[n][k].index \in Indexes /\ Cut[ConciseDCF[n][k].value] \in Values
  <2>1. \A v \in Values : Cut[v] \in Values
    BY DCFAssumption
  <2> QED BY <1>2, <2>1, EntriesOfDCF
<1>6. \/ d' = LineSet(d, e, refused) /\ slave' = slave
      \/ d' = LineSet(d, e, answered) /\ slave' = [slave EXCEPT ![n] = Served(n, l)]
  <2>1. [d EXCEPT !.lines[e].state = ABORTED_RCV] = LineSet(d, e, refused)
    BY <1>1 DEF LineSet, WithLines, Masters
  <2>2. [d EXCEPT !.lines[e].state = ANSWERED,
                  !.lines[e].value = IF l.op = READ THEN slave[n].objects[l.index] ELSE @]
          = LineSet(d, e, answered)
    BY <1>1 DEF LineSet, WithLines, Masters, Lines
  <2> QED BY <2>1, <2>2 DEF Serve
<1>7. ASSUME NEW line \in Lines, line.state \in {ABORTED_RCV, ANSWERED}, line.op = l.op,
             line.index = l.index, d.dcf_status = WRITE => line.value = l.value,
             d' = LineSet(d, e, line),
             slave' \in [Slaves -> [state : {Off, Pre_operational, Operational},
                                    objects : [Indexes -> Values], saved : [Indexes -> Values]]],
             \A m \in Slaves : slave'[m].state = slave[m].state,
             \A m \in Slaves : Configured(Objects, m) => Configured(Objects', m),
             n \notin disturbed => Progress(d', e, Objects', n)
      PROVE  DCFInvariant' /\ NobodyIsForgotten
  <2> DEFINE z == LineSet(d, e, line)
             o == Objects'
             D == disturbed
  <2>1. z = LineSet(d, e, line) /\ d' = z /\ (n \notin D => Progress(z, e, o, n))
    BY <1>7
  <2>2. Live(line)
    BY <1>7, StatusesDiffer DEF Live
  <2> HIDE DEF z, o, D
  <2>3. MasterInOrder(z) /\ Truthful(z, o, D) /\ SameCursor(d, z)
    BY <1>1, <1>2, <1>7, <2>1, <2>2, LineMoves
  <2>4. \A m \in Slaves \ disturbed :
          slave'[m].state = Operational \/ m \in Starts(commands) => Configured(Objects', m)
    BY <1>7 DEF DCFInvariant
  <2>5. DCFInvariant'
    BY <1>1, <1>3, <1>7, <2>1, <2>3, <2>4 DEF DCFInvariant, SameCursor, o, D
  <2>6. NobodyIsForgotten
    BY <2>1, <2>3, NothingEnds DEF SameCursor
  <2> QED BY <2>5, <2>6
<1>8. n \notin disturbed => Progress(d, e, Objects, n)
  BY <1>1, <1>2 DEF Truthful
<1>9. ASSUME NEW line \in Lines, d' = LineSet(d, e, line)
      PROVE  SameCursor(d, d') /\ d'.clients = d.clients /\ d'.lines[e] = line
  <2> DEFINE z == LineSet(d, e, line)
  <2>1. SameCursor(d, z) /\ z.clients = d.clients /\ z.lines[e] = line
    BY <1>1, LineIsSet
  <2> QED BY <1>9, <2>1
<1>10. CASE d' = LineSet(d, e, refused) /\ slave' = slave
  <2>1. /\ refused \in Lines /\ refused.state = ABORTED_RCV /\ refused.op = l.op
        /\ refused.index = l.index /\ refused.value = l.value
    BY <1>1 DEF Lines, LineStates
  <2>2. Objects' = Objects
    BY <1>10 DEF Objects
  <2>3. n \notin disturbed => Progress(d', e, Objects', n)
    <3>1. SameCursor(d, d') /\ d'.lines[e].state # ANSWERED
      BY <1>9, <1>10, <2>1, StatusesDiffer
    <3> QED BY <1>8, <2>2, <3>1 DEF Progress, SameCursor
  <2> HIDE DEF refused
  <2> QED BY <1>3, <1>7, <1>10, <2>1, <2>2, <2>3
<1>11. CASE d' = LineSet(d, e, answered) /\ slave' = [slave EXCEPT ![n] = Served(n, l)]
  <2>1. l.op = (IF d.dcf_status = READ_CHECK THEN READ
                ELSE IF d.dcf_status = WRITE THEN WRITE ELSE STORE)
        /\ (l.op \in {READ, WRITE} => l.index = ConciseDCF[n][k].index)
        /\ (l.op = WRITE => l.value = Cut[ConciseDCF[n][k].value])
    BY <1>2, StatusesDiffer DEF Busy, READ, WRITE, STORE
  <2>2. READ # WRITE /\ READ # STORE /\ WRITE # STORE
    BY DEF READ, WRITE, STORE
  <2>3. value \in Values \cup {NoNode}
    <3>1. CASE l.op = READ
      BY <1>2, <1>3, <1>5, <2>1, <3>1
    <3>2. CASE l.op # READ
      BY <1>1, <3>2 DEF Lines
    <3> QED BY <3>1, <3>2
  <2>4. l.op = READ => value = Objects[n][l.index]
    BY <1>2, <1>4
  <2>5. l.op # READ => value = l.value
    OBVIOUS
  <2> HIDE DEF value
  <2>6. /\ answered \in Lines /\ answered.state = ANSWERED /\ answered.op = l.op
        /\ answered.index = l.index /\ answered.value = value
    BY <1>1, <2>3 DEF Lines, LineStates
  <2> HIDE DEF answered
  <2>7. /\ SameCursor(d, d') /\ d'.clients = d.clients /\ d'.lines[e] = answered
    BY <1>9, <1>11, <2>6
  <2>8. d.dcf_status = WRITE => answered.value = l.value
    BY <2>1, <2>2, <2>5, <2>6, StatusesDiffer
  <2>9. CASE l.op = READ
    <3>1. slave' = slave
      <4>1. Served(n, l) = slave[n]
        BY <2>2, <2>9 DEF Served
      <4> QED BY <1>3, <1>11, <4>1
    <3>2. Objects' = Objects
      BY <3>1 DEF Objects
    <3>3. d.dcf_status = READ_CHECK
      BY <1>2, <2>1, <2>2, <2>9
    <3>4. n \notin disturbed => Progress(d', e, Objects', n)
      BY <1>8, <2>4, <2>6, <2>7, <2>9, <3>2, <3>3, StatusesDiffer DEF Progress, SameCursor
    <3> QED BY <1>3, <1>7, <1>11, <2>6, <2>8, <3>1, <3>2, <3>4
  <2>10. CASE l.op = WRITE
    <3> DEFINE index == ConciseDCF[n][k].index
               written == [slave[n] EXCEPT !.objects[index] = Cut[ConciseDCF[n][k].value]]
    <3>1. slave' = [slave EXCEPT ![n] = written]
      <4>1. Served(n, l) = [slave[n] EXCEPT !.objects[l.index] = l.value]
        BY <2>2, <2>10 DEF Served
      <4> QED BY <1>11, <2>1, <2>10, <4>1
    <3>2. /\ written \in [state : {Off, Pre_operational, Operational},
                          objects : [Indexes -> Values], saved : [Indexes -> Values]]
          /\ written.state = slave[n].state
          /\ written.objects = [slave[n].objects EXCEPT ![index] = Cut[ConciseDCF[n][k].value]]
      BY <1>2, <1>3, <1>5
    <3> HIDE DEF written
    <3>3. slave' \in [Slaves -> [state : {Off, Pre_operational, Operational},
                                 objects : [Indexes -> Values], saved : [Indexes -> Values]]]
          /\ \A m \in Slaves : slave'[m] = IF m = n THEN written ELSE slave[m]
      BY <1>2, <1>3, <3>1, <3>2
    <3>4. \A m \in Slaves : slave'[m].state = slave[m].state
      BY <3>2, <3>3
    <3>5. /\ Objects'[n] = [Objects[n] EXCEPT ![index] = Cut[ConciseDCF[n][k].value]]
          /\ \A m \in Slaves \ {n} : Objects'[m] = Objects[m]
      BY <1>2, <3>2, <3>3 DEF Objects
    <3>6. /\ Agrees(Objects, n, k - 1) => Agrees(Objects', n, k)
          /\ \A m \in Slaves : Configured(Objects, m) => Configured(Objects', m)
      <4> DEFINE o == Objects
                 z == Objects'
      <4>1. o \in [Slaves -> [Indexes -> Values]] /\ (\A m \in Slaves \ {n} : z[m] = o[m])
            /\ z[n] = [o[n] EXCEPT ![ConciseDCF[n][k].index] = Cut[ConciseDCF[n][k].value]]
        BY <1>4, <3>5
      <4> HIDE DEF o, z
      <4>2. /\ Agrees(o, n, k - 1) => Agrees(z, n, k)
            /\ \A m \in Slaves : Configured(o, m) => Configured(z, m)
        BY <1>2, <4>1, WriteAgrees
      <4> QED BY <4>2 DEF o, z
    <3>7. d.dcf_status = WRITE
      BY <1>2, <2>1, <2>2, <2>10
    <3>8. n \notin disturbed => Progress(d', e, Objects', n)
      <4> SUFFICES ASSUME n \notin disturbed PROVE Progress(d', e, Objects', n)
        OBVIOUS
      <4>1. Agrees(Objects', n, k)
        BY <1>8, <3>6 DEF Progress
      <4>2. Agrees(Objects', n, k - 1)
        BY <1>2, <4>1, EntriesOfDCF DEF Agrees
      <4> QED BY <2>7, <3>7, <4>1, <4>2, StatusesDiffer DEF Progress, SameCursor
    <3> QED BY <1>7, <1>11, <2>6, <2>8, <3>3, <3>4, <3>6, <3>8
  <2>11. CASE l.op = STORE
    <3>1. slave' = [slave EXCEPT ![n].saved = slave[n].objects]
      BY <1>3, <1>11, <2>2, <2>11 DEF Served
    <3>2. /\ slave' \in [Slaves -> [state : {Off, Pre_operational, Operational},
                                    objects : [Indexes -> Values], saved : [Indexes -> Values]]]
          /\ \A m \in Slaves : slave'[m].state = slave[m].state
          /\ Objects' = Objects
      BY <1>2, <1>3, <3>1 DEF Objects
    <3>3. d.dcf_status = SAVED
      BY <1>2, <2>1, <2>2, <2>11
    <3>4. n \notin disturbed => Progress(d', e, Objects', n)
      BY <1>8, <2>7, <3>2, <3>3, StatusesDiffer DEF Progress, SameCursor
    <3> QED BY <1>7, <1>11, <2>6, <2>8, <3>2, <3>4
  <2> QED BY <1>1, <2>9, <2>10, <2>11 DEF Lines
<1> QED BY <1>6, <1>10, <1>11

\* A slave obeys: it has been told to start only if it is configured.
LEMMA ObeyKeeps ==
  ASSUME DCFInvariant, Obey
  PROVE  DCFInvariant' /\ NobodyIsForgotten
<1> DEFINE m == Head(commands)
<1>1. commands # <<>> /\ commands' = Tail(commands) /\ UNCHANGED <<d, bootups, disturbed>>
      /\ slave' = IF slave[m.node].state = Off THEN slave
                  ELSE [slave EXCEPT ![m.node].state =
                          IF m.cs = NMT_Start_Node THEN Operational ELSE Off]
  BY DEF Obey
<1>2. /\ m \in Told /\ commands' \in Seq(Told) /\ Starts(commands') \subseteq Starts(commands)
      /\ m.cs = NMT_Start_Node => m.node \in Starts(commands)
  BY <1>1, StartsOfTail DEF DCFInvariant
<1> HIDE DEF m
<1>3. m.node \in Slaves
  BY <1>2 DEF Told
<1>4. slave' \in [Slaves -> [state : {Off, Pre_operational, Operational},
                             objects : [Indexes -> Values], saved : [Indexes -> Values]]]
  BY <1>1, <1>3 DEF DCFInvariant
<1>5. \A n \in Slaves : slave'[n].objects = slave[n].objects
  BY <1>1, <1>3 DEF DCFInvariant
<1>6. Objects' = Objects
  BY <1>5 DEF Objects
<1>7. ASSUME NEW n \in Slaves, slave'[n].state = Operational
      PROVE  slave[n].state = Operational \/ n \in Starts(commands)
  BY <1>1, <1>2, <1>3, <1>7, StatusesDiffer DEF DCFInvariant
<1>8. \A n \in Slaves \ disturbed :
        slave'[n].state = Operational \/ n \in Starts(commands') => Configured(Objects, n)
  BY <1>2, <1>7 DEF DCFInvariant
<1>9. DCFInvariant'
  BY <1>1, <1>2, <1>4, <1>6, <1>8 DEF DCFInvariant
<1> QED BY <1>1, <1>9, NothingEnds

\* A heartbeat tells the master the state of a slave.
LEMMA HeartbeatKeeps ==
  ASSUME DCFInvariant, NEW n \in Slaves, Heartbeat(n)
  PROVE  DCFInvariant' /\ NobodyIsForgotten
<1> DEFINE table == [d.NMTable EXCEPT ![n] = slave[n].state]
           sent == d.sent
           z == WithNews(d, table, sent)
<1>1. d \in Masters /\ MasterInOrder(d) /\ Truthful(d, Objects, disturbed)
  BY DEF DCFInvariant, MasterInOrder
<1>2. slave[n].state \in {Pre_operational, Operational}
  BY DEF DCFInvariant, Heartbeat
<1>3. table \in [Slaves -> Heard] /\ sent \in Seq(Told)
  BY <1>1, <1>2 DEF Masters, Heard
<1>4. d' = z /\ UNCHANGED <<slave, bootups, commands, disturbed>>
  BY <1>1 DEF Heartbeat, WithNews, Masters
<1> HIDE DEF table, sent
<1>5. /\ z \in Masters /\ z.sent = sent /\ z.dcf_status = d.dcf_status
      /\ z.dcf_entries_count = d.dcf_entries_count /\ z.clients = d.clients /\ z.lines = d.lines
      /\ z.dropped = d.dropped
  BY <1>1, <1>3, NewsSet
<1> HIDE DEF z
<1>6. MasterInOrder(z) /\ Truthful(z, Objects, disturbed)
  BY <1>1, <1>5, TransferUntouched
<1>7. Objects' = Objects
  BY <1>4 DEF Objects
<1>8. DCFInvariant'
  BY <1>4, <1>5, <1>6, <1>7 DEF DCFInvariant, sent
<1> QED BY <1>4, <1>5, <1>8, NothingEnds

\* A lost frame leaves the transfer as it was.
LEMMA LoseKeeps ==
  ASSUME DCFInvariant, NEW e \in Clients, Lose(e)
  PROVE  DCFInvariant' /\ NobodyIsForgotten
<1> DEFINE l == d.lines[e]
           line == [l EXCEPT !.state = LOST]
           z == LineSet(d, e, line)
           n == d.clients[e]
<1>1. /\ MasterInOrder(d) /\ d \in Masters /\ d.sent = <<>> /\ Truthful(d, Objects, disturbed)
      /\ l \in Lines /\ Live(l)
  BY StatusesDiffer DEF DCFInvariant, MasterInOrder, Masters, Lose, Live
<1>2. /\ line \in Lines /\ Live(line) /\ line.state = LOST /\ line.op = l.op
      /\ line.index = l.index /\ line.value = l.value
  BY <1>1, StatusesDiffer DEF Lines, LineStates, Live
<1>3. d' = z /\ UNCHANGED <<slave, bootups, commands, disturbed>>
  BY <1>1 DEF Lose, LineSet, WithLines, Masters
<1>4. z = LineSet(d, e, line)
  OBVIOUS
<1> HIDE DEF line, z
<1>5. n \notin disturbed => Progress(z, e, Objects, n)
  <2> SUFFICES ASSUME n \notin disturbed PROVE Progress(z, e, Objects, n)
    OBVIOUS
  <2>1. Progress(d, e, Objects, n)
    BY <1>1 DEF Truthful
  <2>2. SameCursor(d, z) /\ z.lines[e] = line
    BY <1>1, <1>2, <1>4, LineIsSet
  <2> QED BY <1>2, <2>1, <2>2, StatusesDiffer DEF Progress, SameCursor
<1>6. MasterInOrder(z) /\ Truthful(z, Objects, disturbed) /\ SameCursor(d, z)
  BY <1>1, <1>2, <1>4, <1>5, StatusesDiffer, LineMoves
<1>7. Objects' = Objects
  BY <1>3 DEF Objects
<1>8. DCFInvariant'
  BY <1>1, <1>3, <1>6, <1>7 DEF DCFInvariant, SameCursor
<1> QED BY <1>3, <1>6, <1>8, NothingEnds DEF SameCursor

\* The client has aborted the transfer, and calls nobody.
LEMMA FailKeeps ==
  ASSUME DCFInvariant, NEW e \in Clients, Live(d.lines[e]), failedSDO(e),
         UNCHANGED <<slave, bootups, commands, disturbed>>
  PROVE  DCFInvariant' /\ NobodyIsForgotten
<1> DEFINE l == d.lines[e]
           line == [l EXCEPT !.state = ABORTED_INTERNAL]
           z == LineSet(d, e, line)
           y == Dropped(z)
<1>1. MasterInOrder(d) /\ d \in Masters /\ d.sent = <<>> /\ l \in Lines
  BY DEF DCFInvariant, MasterInOrder, Masters
<1>2. line \in Lines /\ line.state = ABORTED_INTERNAL
  BY <1>1 DEF Lines, LineStates
<1>3. d' = y
  BY <1>1 DEF failedSDO, Dropped, LineSet, WithLines, Masters
<1>4. Busy(d, e) /\ d.dcf_status # INIT
  BY <1>1, AtWork
<1>5. z = LineSet(d, e, line) /\ y = Dropped(z)
  OBVIOUS
<1> HIDE DEF line, z, y
<1>6. /\ z \in Masters /\ SameCursor(d, z) /\ z.clients = d.clients
      /\ z.lines[e] = line /\ \A f \in Clients \ {e} : z.lines[f] = d.lines[f]
  BY <1>1, <1>2, <1>5, LineIsSet
<1>7. /\ y \in Masters /\ SameCursor(z, y) /\ y.dropped = TRUE
      /\ y.clients = z.clients /\ y.lines = z.lines
  BY <1>5, <1>6, RequestIsDropped
<1>8. \A f \in Clients : y.lines[f].state # FREE => f = e
  BY <1>4, <1>6, <1>7 DEF Busy, Only
<1>9. Stuck(y)
  BY <1>2, <1>6, <1>7, <1>8 DEF Stuck, Only
<1>10. MasterInOrder(y) /\ Truthful(y, Objects, disturbed)
  BY <1>1, <1>4, <1>6, <1>7, <1>9, StuckIsTruthful DEF MasterInOrder, Owned, SameCursor
<1>11. Objects' = Objects
  BY DEF Objects
<1>12. DCFInvariant'
  BY <1>1, <1>3, <1>6, <1>7, <1>10, <1>11 DEF DCFInvariant, SameCursor
<1> QED BY <1>3, <1>6, <1>7, <1>12, NothingEnds DEF SameCursor

\* So it does with what is too long, and with a frame that does not fit.
LEMMA TooLongKeeps ==
  ASSUME DCFInvariant, NEW e \in Clients, ReceiveTooLong(e)
  PROVE  DCFInvariant' /\ NobodyIsForgotten
<1>1. Live(d.lines[e])
  BY StatusesDiffer DEF ReceiveTooLong, TooLong, Live
<1> QED BY <1>1, FailKeeps DEF ReceiveTooLong

LEMMA StrayKeeps ==
  ASSUME DCFInvariant, NEW e \in Clients, Stray(e)
  PROVE  DCFInvariant' /\ NobodyIsForgotten
<1>1. Live(d.lines[e])
  BY StatusesDiffer DEF Stray, Live
<1> QED BY <1>1, FailKeeps DEF Stray

\* A slave that is not told is not started.
LEMMA LoseCommandKeeps ==
  ASSUME DCFInvariant, LoseCommand
  PROVE  DCFInvariant' /\ NobodyIsForgotten
<1>1. /\ commands # <<>> /\ commands' = Tail(commands)
      /\ UNCHANGED <<d, slave, bootups, disturbed>>
  BY DEF LoseCommand
<1>2. commands' \in Seq(Told) /\ Starts(commands') \subseteq Starts(commands)
  BY <1>1, StartsOfTail DEF DCFInvariant
<1>3. Objects' = Objects
  BY <1>1 DEF Objects
<1>4. DCFInvariant'
  BY <1>1, <1>2, <1>3 DEF DCFInvariant
<1> QED BY <1>1, <1>4, NothingEnds

\* What the SDO client takes from now on is not the invariant's.
LEMMA RefuseKeeps ==
  ASSUME DCFInvariant, Refuse
  PROVE  DCFInvariant' /\ NobodyIsForgotten
<1>1. UNCHANGED <<d, slave, bootups, commands, disturbed>>
  BY DEF Refuse
<1>2. DCFInvariant'
  BY <1>1 DEF DCFInvariant, Objects
<1> QED BY <1>1, <1>2, NothingEnds

\* A slave that crashes keeps its objects, for what they are worth.
LEMMA CrashKeeps ==
  ASSUME DCFInvariant, NEW n \in Slaves, Crash(n)
  PROVE  DCFInvariant' /\ NobodyIsForgotten
<1>1. slave' = [slave EXCEPT ![n].state = Off] /\ UNCHANGED <<d, bootups, commands, disturbed>>
  BY DEF Crash
<1>2. /\ slave' \in [Slaves -> [state : {Off, Pre_operational, Operational},
                                objects : [Indexes -> Values], saved : [Indexes -> Values]]]
      /\ \A m \in Slaves : slave'[m].objects = slave[m].objects
      /\ \A m \in Slaves : slave'[m].state \in {slave[m].state, Off}
  BY <1>1 DEF DCFInvariant
<1>3. Objects' = Objects
  BY <1>2 DEF Objects
<1>4. \A m \in Slaves \ disturbed :
        slave'[m].state = Operational \/ m \in Starts(commands) => Configured(Objects, m)
  BY <1>2, StatusesDiffer DEF DCFInvariant
<1>5. DCFInvariant'
  BY <1>1, <1>2, <1>3, <1>4 DEF DCFInvariant
<1> QED BY <1>1, <1>5, NothingEnds

-----------------------------------------------------------------------------
(***************************************************************************)
(* The invariant, and what follows from it.                                *)
(***************************************************************************)
\* At first the master is free and every slave is off.
LEMMA InitInvariant == Init => DCFInvariant
<1> SUFFICES ASSUME Init PROVE DCFInvariant
  OBVIOUS
<1>1. NoLine \in Lines /\ NoLine.state = FREE
  BY DEF NoLine, Lines, LineStates
<1>2. d \in Masters
  <2>1. /\ [n \in Slaves |-> Unknown_state] \in [Slaves -> Heard]
        /\ Preset \in [Clients -> Slaves \cup {NoNode}]
        /\ [e \in Clients |-> NoLine] \in [Clients -> Lines] /\ <<>> \in Seq(Told)
    BY <1>1, DCFAssumption DEF Heard, Clients
  <2> QED BY <2>1 DEF Init, Masters
<1>3. /\ d.dcf_status = INIT /\ d.clients = Preset /\ d.lines = [e \in Clients |-> NoLine]
      /\ d.sent = <<>> /\ d.dropped = FALSE
  BY DEF Init
<1>4. Owned(d) /\ Idle(d)
  BY <1>1, <1>3, DCFAssumption DEF Owned, Idle, NoLineOnUse, Clients
<1>5. MasterInOrder(d) /\ Truthful(d, Objects, disturbed)
  BY <1>2, <1>3, <1>4 DEF MasterInOrder, Idle, NoLineOnUse, Truthful, Live
<1>6. slave \in [Slaves -> [state : {Off, Pre_operational, Operational},
                            objects : [Indexes -> Values], saved : [Indexes -> Values]]]
  <2>1. PICK f \in Factories :
          slave = [n \in Slaves |-> [state |-> Off, objects |-> f[n], saved |-> f[n]]]
    BY DEF Init
  <2>2. f \in [Slaves -> [Indexes -> Values]]
    BY DCFAssumption
  <2> QED BY <2>1, <2>2
<1>7. /\ bootups \subseteq Slaves /\ commands \in Seq(Told)
      /\ \A n \in Slaves : slave[n].state = Off /\ n \notin Starts(commands)
  <2>1. \A n \in Slaves : slave[n].state = Off
    BY DEF Init
  <2> QED BY <2>1, NothingStarts DEF Init
<1> QED BY <1>3, <1>5, <1>6, <1>7, StatusesDiffer DEF DCFInvariant

\* One step per action.
LEMMA NextKeeps ==
  ASSUME DCFInvariant, [Next]_vars
  PROVE  DCFInvariant' /\ (vars' # vars => NobodyIsForgotten)
<1>1. CASE UNCHANGED vars
  BY <1>1 DEF vars, DCFInvariant, Objects
<1>2. ASSUME NEW n \in Slaves, post_SlaveBootup(n)
      PROVE  DCFInvariant' /\ NobodyIsForgotten
  BY <1>2, BootupKeeps
<1>3. ASSUME NEW n \in Slaves, Boot(n) PROVE DCFInvariant' /\ NobodyIsForgotten
  <2>1. DCFInvariant'
    BY <1>3, BootKeeps
  <2>2. d' = d
    BY <1>3 DEF Boot
  <2> QED BY <2>1, <2>2, NothingEnds
<1>4. ASSUME NEW n \in Slaves, Heartbeat(n) PROVE DCFInvariant' /\ NobodyIsForgotten
  BY <1>4, HeartbeatKeeps
<1>5. ASSUME NEW n \in Slaves, Crash(n) PROVE DCFInvariant' /\ NobodyIsForgotten
  BY <1>5, CrashKeeps
<1>6. ASSUME NEW e \in Clients, ProceedSDO(e) PROVE DCFInvariant' /\ NobodyIsForgotten
  BY <1>6, ProceedKeeps
<1>7. ASSUME NEW e \in Clients, SDOTimeoutAlarm(e) PROVE DCFInvariant' /\ NobodyIsForgotten
  BY <1>7, TimeoutKeeps
<1>8. ASSUME NEW e \in Clients, Serve(e) PROVE DCFInvariant' /\ NobodyIsForgotten
  BY <1>8, ServeKeeps
<1>9. ASSUME NEW e \in Clients, Lose(e) PROVE DCFInvariant' /\ NobodyIsForgotten
  BY <1>9, LoseKeeps
<1>10. CASE Obey
  BY <1>10, ObeyKeeps
<1>11. ASSUME NEW e \in Clients, ReceiveTooLong(e) PROVE DCFInvariant' /\ NobodyIsForgotten
  BY <1>11, TooLongKeeps
<1>12. ASSUME NEW e \in Clients, Stray(e) PROVE DCFInvariant' /\ NobodyIsForgotten
  BY <1>12, StrayKeeps
<1>13. CASE LoseCommand
  BY <1>13, LoseCommandKeeps
<1>14. CASE Refuse
  BY <1>14, RefuseKeeps
<1>15. CASE Next
  BY <1>2, <1>3, <1>4, <1>5, <1>6, <1>7, <1>8, <1>9, <1>10, <1>11, <1>12, <1>13, <1>14, <1>15
     DEF Next
<1> QED BY <1>1, <1>15

(***************************************************************************)
(* In every state dcf_status and the one line on use are about the same    *)
(* slave and the same entry of its DCF, or the SDO client has refused or   *)
(* aborted the transfer by itself, calls nobody, and the status stays for  *)
(* good; what the master has concluded of a slave that did not boot        *)
(* meanwhile is true of it (dcf.c:108, dcf.c:261, sdo.c:427).              *)
(***************************************************************************)
THEOREM MasterStaysInOrder == Spec => []DCFInvariant
<1>1. DCFInvariant /\ [Next]_vars => DCFInvariant'
  BY NextKeeps
<1> QED BY <1>1, InitInvariant, PTL DEF Spec

(***************************************************************************)
(* dcf_status outlives its transfer only where the SDO client drops one    *)
(* without a callback, and then at most the line that failed is left; no   *)
(* client entry serves two slaves (dcf.c:160, sdo.c:427, sdo.c:2096).      *)
(***************************************************************************)
THEOREM StatusIsRight == Spec => []StatusFollowsTransfer
<1>1. DCFInvariant => StatusFollowsTransfer
  <2> SUFFICES ASSUME DCFInvariant PROVE StatusFollowsTransfer
    OBVIOUS
  <2>1. MasterInOrder(d) /\ Owned(d)
    BY DEF DCFInvariant, MasterInOrder
  <2>2. CASE d.dcf_status = INIT
    <3>1. OnUse = {}
      BY <2>1, <2>2 DEF MasterInOrder, Idle, NoLineOnUse, OnUse
    <3> QED BY <2>1, <2>2, <3>1 DEF StatusFollowsTransfer, Owned
  <2>3. CASE d.dcf_status # INIT /\ Stuck(d)
    <3>1. \A e \in OnUse : OnUse = {e} /\ d.lines[e].state = ABORTED_INTERNAL
      BY <2>3 DEF Stuck, Only, OnUse
    <3>2. d.dropped
      BY <2>3 DEF Stuck
    <3> QED BY <2>1, <2>3, <3>1, <3>2 DEF StatusFollowsTransfer, Owned
  <2>4. CASE d.dcf_status # INIT /\ ~Stuck(d)
    <3>1. PICK e \in Clients : Busy(d, e)
      BY <2>1, <2>4 DEF MasterInOrder
    <3>2. OnUse = {e} /\ d.lines[e].state # ABORTED_INTERNAL /\ d.dropped = FALSE
      BY <3>1 DEF Busy, Only, Live, OnUse
    <3> QED BY <2>1, <2>4, <3>2 DEF StatusFollowsTransfer, Owned
  <2> QED BY <2>2, <2>3, <2>4
<1> QED BY <1>1, MasterStaysInOrder, PTL

(***************************************************************************)
(* A slave that is operational has every object as its DCF says, or as the *)
(* cast of its size to UNS8 leaves it, unless it booted while the master   *)
(* was at it (dcf.c:118, dcf.c:255).                                       *)
(***************************************************************************)
THEOREM StartedIsConfigured == Spec => []StartedMeansConfigured
<1>1. DCFInvariant => StartedMeansConfigured
  <2> SUFFICES ASSUME DCFInvariant, NEW n \in Slaves \ disturbed, slave[n].state = Operational,
                      NEW i \in DOMAIN ConciseDCF[n]
               PROVE  AsEntry(slave[n].objects[ConciseDCF[n][i].index], ConciseDCF[n][i])
    BY DEF StartedMeansConfigured, AsEntry
  <2>1. Configured(Objects, n)
    BY DEF DCFInvariant
  <2>2. i \in 1 .. Len(ConciseDCF[n])
    BY EntriesOfDCF
  <2>3. Objects[n] = slave[n].objects
    BY DEF Objects
  <2> QED BY <2>1, <2>2, <2>3 DEF Configured, Agrees
<1> QED BY <1>1, MasterStaysInOrder, PTL

(***************************************************************************)
(* When writing, or an error, has ended a check, the next one has begun or *)
(* no slave waits (dcf.c:98).                                              *)
(***************************************************************************)
THEOREM WaitingSlavesAreLookedFor == Spec => NobodyForgotten
<1>1. DCFInvariant /\ [Next]_vars =>
        [(d.dcf_status = WRITE \/ BrokenOff) /\ d'.dcf_status = INIT
           => \A n \in Slaves : d'.NMTable[n] # Initialisation]_vars
  BY NextKeeps DEF NobodyIsForgotten, NooneWaits
<1> QED BY <1>1, MasterStaysInOrder, PTL DEF Spec, NobodyForgotten

=============================================================================
