-------------------------- MODULE SDOBlock_proofs --------------------------
(***************************************************************************)
(* Proofs about SDOBlock, for any number of nodes, connections, lines and  *)
(* transfers, where no node stops and frames come in time: that both ends  *)
(* agree when a transfer is over, plain or in blocks, while no frame is    *)
(* lost; and that lost frames leave no hole in a block and SDO_FINISHED    *)
(* stays true, unless a server takes the request of a transfer for data.   *)
(***************************************************************************)
EXTENDS SDO_proofs

-----------------------------------------------------------------------------
(***************************************************************************)
(* Blocks.  While no frame is lost and no node stops, client and server    *)
(* agree on how far a transfer has come, plain or in blocks.               *)
(***************************************************************************)
\* What a node keeps of a transfer: its line and what that keeps of a block.
Party(l, b) ==
  [state |-> l.state, index |-> l.index, count |-> l.count, offset |-> l.offset, data |-> l.data,
   blksize |-> b.blksize, seqno |-> b.seqno, lastblockoffset |-> b.lastblockoffset,
   objsize |-> b.objsize, endfield |-> b.endfield, rxstep |-> b.rxstep, tmpData |-> b.tmpData]

\* The parties of connection k in role w; there is at most one.
Parties(t, b, k, w) == {Party(t[i], b[i]) : i \in {j \in Lines : OnUse(t, k, w, j)}}

ClientParties(k) == Parties(transfers[client[k]], block[client[k]], k, CLIENT)
ServerParties(k) == Parties(transfers[server[k]], block[server[k]], k, SERVER)

\* A frame that closes the server's line, if there is one.
Closes(x, S) ==
  x = Abort \/ (x = Block(5, END) /\ S # {} /\ \A s \in S : s.state = BLOCK_UPLOAD)

\* What a producer sends it holds.
Produces(c) == c.count \in 1 .. SDO_MAX_LENGTH_TRANSFER /\ c.offset \in 0 .. c.count

\* Request m begins the transfer of client c.
Requests(m, c) ==
  \/ m.cs = 1 /\ c.state = DOWNLOAD /\ Produces(c) /\ (m.last <=> c.offset = c.count)
  \/ m.cs = 2 /\ c.state = UPLOAD
  \/ /\ m.cs = 5 /\ m.sub = INITIATE /\ m.n = SDO_BLOCK_SIZE /\ m.index \in Indexes
     /\ c.state = BLOCK_UPLOAD /\ c.rxstep = RXSTEP_INIT /\ c.offset = 0 /\ c.seqno = 0
  \/ m.cs = 6 /\ m.sub = INITIATE /\ c.state = BLOCK_DOWNLOAD /\ Produces(c) /\ c.offset = 0

\* A segment of a plain transfer, or the request for one; S is at the transfer, or gone.
AsksPlain(m, c, S) ==
  /\ \A s \in S : s.state = c.state
  /\ \/ m.cs = 0 /\ c.state = DOWNLOAD /\ Produces(c) /\ (m.last <=> c.offset = c.count)
     \/ m.cs = 3 /\ c.state = UPLOAD

\* The answer in a plain transfer: the last one comes from a server that is done.
AnswersPlain(m, c, S) ==
  /\ \A s \in S : s.state = c.state
  /\ \/ m.cs \in {1, 3} /\ c.state = DOWNLOAD /\ Produces(c) /\ (c.offset = c.count => S = {})
     \/ m.cs \in {0, 2} /\ c.state = UPLOAD /\ (m.last => S = {})

\* The answer to all there was to download.
ConfirmsAll(m, c) ==
  \/ m.cs = 1 /\ c.state = DOWNLOAD /\ Produces(c) /\ c.offset = c.count
  \/ m.cs = 5 /\ m.sub = END /\ c.state = BLOCK_DOWNLOAD

\* Consumer x waits for the first segment of a block producer p has to send.
Ready(p, x) ==
  /\ Produces(p) /\ p.offset # p.count /\ x.offset = p.offset
  /\ x.rxstep = RXSTEP_STARTED /\ x.seqno = 0

\* The frames w are what producer p has sent of a block and consumer x has not got.
Streaming(p, x, w) ==
  LET e == Len(w)
  IN  /\ IsSequence(w) /\ e > 0
      /\ Produces(p) /\ x.rxstep = RXSTEP_STARTED /\ x.seqno \in Nat
      /\ \A i \in 1 .. e : /\ w[i].seq = x.seqno + i
                           /\ w[i].cs = IF i = e /\ p.offset = p.count THEN 4 ELSE 0
                           /\ w[i].cs = 0 => w[i].n = SEGMENT
      /\ w[e].n \in 1 .. SEGMENT /\ x.offset + SEGMENT * (e - 1) + w[e].n = p.offset
      /\ p.seqno = x.seqno + e /\ p.seqno <= SDO_BLOCK_SIZE
      /\ p.offset # p.count => p.seqno = SDO_BLOCK_SIZE
      /\ p.lastblockoffset \in Nat /\ x.offset = p.lastblockoffset + SEGMENT * x.seqno

\* The consumer has got the block and says so.
Acks(p, x, m) ==
  /\ m.sub = RESPONSE /\ m.seq = p.seqno /\ m.n = SDO_BLOCK_SIZE
  /\ Produces(p) /\ x.seqno = 0
  /\ IF p.offset = p.count
     THEN x.rxstep = RXSTEP_END
     ELSE /\ x.rxstep = RXSTEP_STARTED /\ x.offset = p.offset
          /\ p.lastblockoffset + SEGMENT * p.seqno = p.offset

\* Producer and consumer have nothing left but to say that it is the end.
Over(x, m) == m.cs = 6 /\ m.sub = END /\ x.rxstep = RXSTEP_END

BlockDownloads(c, s, q, p) ==
  /\ c.state = BLOCK_DOWNLOAD /\ s.state = BLOCK_DOWNLOAD
  /\ \/ /\ q = <<>>
        /\ \E m : /\ p = <<m>> /\ m.cs = 5
                  /\ \/ m.sub = INITIATE /\ m.n = SDO_BLOCK_SIZE /\ Ready(c, s)
                     \/ Acks(c, s, m)
     \/ p = <<>> /\ (Streaming(c, s, q) \/ \E m : q = <<m>> /\ Over(s, m))

BlockUploads(c, s, q, p) ==
  /\ c.state = BLOCK_UPLOAD /\ s.state = BLOCK_UPLOAD
  /\ \/ /\ q = <<>>
        /\ \E m : /\ p = <<m>> /\ m.cs = 6 /\ m.sub = INITIATE
                  /\ c.rxstep = RXSTEP_INIT /\ c.offset = 0 /\ c.seqno = 0
                  /\ Produces(s) /\ s.offset = 0 /\ s.blksize = SDO_BLOCK_SIZE
     \/ /\ p = <<>>
        /\ \E m : /\ q = <<m>> /\ m.cs = 5
                  /\ \/ /\ m.sub = START_UPLOAD /\ Ready(s, c)
                        /\ s.blksize = SDO_BLOCK_SIZE /\ s.offset = 0
                     \/ Acks(s, c, m)
     \/ q = <<>> /\ (Streaming(s, c, p) \/ \E m : p = <<m>> /\ Over(c, m))

\* Nobody waits for anything, but an old line of the server may have to be closed.
Quiet(C, S, q, p) ==
  /\ p = <<>> /\ \A c \in C : c.state \notin InProgress
  /\ \/ q = <<>> /\ S = {}
     \/ \E x : q = <<x>> /\ Closes(x, S)

\* The server has given up.
GivenUp(C, S, q, p) == S = {} /\ q \in {<<>>, <<Abort>>} /\ p = <<Abort>>

Asks(c, S, q, p) ==
  /\ p = <<>>
  /\ \E m : \/ Requests(m, c) /\ q = <<m>> /\ S = {}
            \/ Requests(m, c) /\ \E x : q = <<x, m>> /\ Closes(x, S)
            \/ AsksPlain(m, c, S) /\ q = <<m>>

Answers(c, S, q, p) ==
  /\ q = <<>>
  /\ \E m : \/ p = <<m>> /\ AnswersPlain(m, c, S)
            \/ p \in {<<m>>, <<m, Abort>>} /\ S = {} /\ ConfirmsAll(m, c)

\* How client parties C and server parties S stand, with frames q and p between them.
Talk(C, S, q, p) ==
  \/ Quiet(C, S, q, p)
  \/ GivenUp(C, S, q, p)
  \/ \E c : C = {c} /\ (Asks(c, S, q, p) \/ Answers(c, S, q, p))
  \/ \E c, s : C = {c} /\ S = {s} /\ (BlockDownloads(c, s, q, p) \/ BlockUploads(c, s, q, p))

Talks == \A k \in Conns : Talk(ClientParties(k), ServerParties(k), req[k], resp[k])

-----------------------------------------------------------------------------
(***************************************************************************)
(* The parties when a line changes.                                        *)
(***************************************************************************)
BlockFields ==
  {"blksize", "seqno", "lastblockoffset", "objsize", "endfield", "rxstep", "tmpData"}

BlocksKept ==
  /\ DOMAIN block = Nodes
  /\ \A n \in Nodes : /\ DOMAIN block[n] = Lines
                      /\ \A i \in Lines : DOMAIN block[n][i] = BlockFields

\* Line i of a node, which k has alone in role w, or nobody, becomes l.
TurnsTo(t, b, u, d, k, w, i, l) ==
  /\ u = [t EXCEPT ![i] = l]
  /\ \A j \in Lines \ {i} : t[j].state = RESET \/ d[j] = b[j]
  /\ \A j \in Lines \ {i} : ~OnUse(t, k, w, j)
  /\ Belongs(t[i], k, w) /\ Belongs(l, k, w)

PartiesTo(t, b, u, d, k, w, i, l) ==
  /\ \A h, v : (h = k /\ v = w) \/ Parties(u, d, h, v) = Parties(t, b, h, v)
  /\ InUse(l) => Parties(u, d, k, w) = {Party(l, d[i])}
  /\ ~InUse(l) => Parties(u, d, k, w) = {}

\* The parties of a node after a step that changes one line alone.
LEMMA OnePartyChanges ==
  ASSUME NEW t, DOMAIN t = Lines, NEW b, NEW u, NEW d, NEW k, NEW w, NEW i \in Lines, NEW l,
         TurnsTo(t, b, u, d, k, w, i, l)
  PROVE  PartiesTo(t, b, u, d, k, w, i, l)
<1>0. /\ u = [t EXCEPT ![i] = l]
      /\ \A j \in Lines \ {i} : t[j].state = RESET \/ d[j] = b[j]
      /\ \A j \in Lines \ {i} : ~OnUse(t, k, w, j)
      /\ Belongs(t[i], k, w) /\ Belongs(l, k, w)
  BY DEF TurnsTo
<1>1. \A j \in Lines : u[j] = IF j = i THEN l ELSE t[j]
  BY <1>0
<1>2. ASSUME NEW h, NEW v, NEW j \in Lines, j # i
      PROVE  u[j] = t[j] /\ (OnUse(u, h, v, j) <=> OnUse(t, h, v, j))
  BY <1>1, <1>2 DEF OnUse, LineToClose
<1>3. ASSUME NEW h, NEW v, ~(h = k /\ v = w)
      PROVE  ~OnUse(t, h, v, i) /\ ~OnUse(u, h, v, i)
  BY <1>0, <1>1, <1>3 DEF OnUse, LineToClose, Belongs
<1>4. ASSUME NEW h, NEW v, ~(h = k /\ v = w)
      PROVE  Parties(u, d, h, v) = Parties(t, b, h, v)
  <2>1. {j \in Lines : OnUse(u, h, v, j)} = {j \in Lines : OnUse(t, h, v, j)}
    BY <1>2, <1>3, <1>4
  <2>2. \A j \in Lines : OnUse(t, h, v, j) => u[j] = t[j] /\ d[j] = b[j]
    <3>1. \A j \in Lines : OnUse(t, h, v, j) => j # i /\ t[j].state # RESET
      BY <1>3, <1>4 DEF OnUse, LineToClose
    <3> QED BY <1>0, <1>2, <3>1
  <2> QED BY <2>1, <2>2 DEF Parties
<1>5. \A j \in Lines : OnUse(u, k, w, j) => j = i
  BY <1>0, <1>2
<1>6. OnUse(u, k, w, i) <=> InUse(l)
  BY <1>0, <1>1 DEF OnUse, LineToClose, Belongs, InUse
<1>7. u[i] = l
  BY <1>1
<1>8. ASSUME InUse(l) PROVE Parties(u, d, k, w) = {Party(l, d[i])}
  BY <1>5, <1>6, <1>7, <1>8 DEF Parties
<1>9. ASSUME ~InUse(l) PROVE Parties(u, d, k, w) = {}
  BY <1>5, <1>6, <1>9 DEF Parties
<1> QED BY <1>4, <1>8, <1>9 DEF PartiesTo

\* The line on use is the only party.
LEMMA TheParty ==
  ASSUME NEW t, LinesOK(t), NEW b, NEW k \in Conns, NEW w \in {SERVER, CLIENT}
  PROVE  LET i == getSDOlineOnUse(t, k, w)
         IN  /\ i = NoLine => Parties(t, b, k, w) = {} /\ \A j \in Lines : ~OnUse(t, k, w, j)
             /\ i # NoLine => /\ i \in Lines /\ DOMAIN t[i] = Fields
                              /\ t[i].CliServNbr = k /\ t[i].whoami = w /\ InUse(t[i])
                              /\ Parties(t, b, k, w) = {Party(t[i], b[i])}
                              /\ \A j \in Lines \ {i} : ~OnUse(t, k, w, j)
<1> DEFINE i == getSDOlineOnUse(t, k, w)
<1>1. i = NoLine => \A j \in Lines : ~OnUse(t, k, w, j)
  BY LineOnUseIsOnUse
<1>2. i # NoLine => i \in Lines /\ OnUse(t, k, w, i)
  BY LineOnUseIsOnUse
<1> HIDE DEF i
<1>3. i # NoLine => \A j \in Lines \ {i} : ~OnUse(t, k, w, j)
  BY <1>2 DEF LinesOK, OnUse
<1>4. i # NoLine => /\ DOMAIN t[i] = Fields
                    /\ t[i].CliServNbr = k /\ t[i].whoami = w /\ InUse(t[i])
  BY <1>2 DEF LinesOK, OnUse, LineToClose, InUse
<1>5. i # NoLine => Parties(t, b, k, w) = {Party(t[i], b[i])}
  BY <1>2, <1>3 DEF Parties
<1>6. i = NoLine => Parties(t, b, k, w) = {}
  BY <1>1 DEF Parties
<1> QED BY <1>1, <1>2, <1>3, <1>4, <1>5, <1>6 DEF i

\* What blocks a step of line i of node n leaves alone.
BlocksStay(n, i) ==
  \A m \in Nodes, j \in Lines :
    (m = n /\ j = i) \/ transfers[m][j].state = RESET \/ block'[m][j] = block[m][j]

\* Line i of node n, of connection k in role w, becomes l; nobody else is touched.
Turns(n, k, w, i, l) ==
  /\ n = (IF w = SERVER THEN server[k] ELSE client[k])
  /\ transfers' = [transfers EXCEPT ![n] = [transfers[n] EXCEPT ![i] = l]]
  /\ BlocksStay(n, i)
  /\ Belongs(transfers[n][i], k, w) /\ Belongs(l, k, w)
  /\ \A j \in Lines \ {i} : ~OnUse(transfers[n], k, w, j)

LEMMA PartiesTurn ==
  ASSUME LineInvariant, NEW k \in Conns, NEW w \in {SERVER, CLIENT}, NEW n, NEW i \in Lines,
         NEW l, Turns(n, k, w, i, l)
  PROVE  LET A == IF InUse(l) THEN {Party(l, block'[n][i])} ELSE {}
         IN  /\ \A h \in Conns : h # k \/ w = CLIENT => ServerParties(h)' = ServerParties(h)
             /\ \A h \in Conns : h # k \/ w = SERVER => ClientParties(h)' = ClientParties(h)
             /\ w = SERVER => ServerParties(k)' = A
             /\ w = CLIENT => ClientParties(k)' = A
<1> DEFINE t == transfers[n]
           u == [t EXCEPT ![i] = l]
           A == IF InUse(l) THEN {Party(l, block'[n][i])} ELSE {}
<1>1. /\ n \in Nodes /\ n = (IF w = SERVER THEN server[k] ELSE client[k])
      /\ \A h \in Conns : server[h] \in Nodes /\ client[h] \in Nodes
      /\ SERVER # CLIENT
  BY SDOAssumption, StatesDiffer DEF Turns
<1>2. \A m \in Nodes : transfers'[m] = IF m = n THEN u ELSE transfers[m]
  BY <1>1 DEF Turns, LineInvariant
<1>3. /\ \A h, v : (h = k /\ v = w) \/ Parties(u, block'[n], h, v) = Parties(t, block[n], h, v)
      /\ Parties(u, block'[n], k, w) = A
  <2>1. DOMAIN t = Lines
    BY <1>1 DEF LineInvariant, LinesOK
  <2>2. TurnsTo(t, block[n], u, block'[n], k, w, i, l)
    BY <1>1 DEF Turns, BlocksStay, TurnsTo
  <2> HIDE DEF t, u
  <2>3. PartiesTo(t, block[n], u, block'[n], k, w, i, l)
    BY <2>1, <2>2, OnePartyChanges
  <2> QED BY <2>3 DEF PartiesTo
<1>4. ASSUME NEW m \in Nodes \ {n}, NEW h, NEW v
      PROVE  Parties(transfers'[m], block'[m], h, v) = Parties(transfers[m], block[m], h, v)
  <2>1. transfers'[m] = transfers[m]
    BY <1>2
  <2>2. \A j \in Lines : OnUse(transfers[m], h, v, j) => block'[m][j] = block[m][j]
    BY DEF Turns, BlocksStay, OnUse, LineToClose
  <2> QED BY <2>1, <2>2 DEF Parties
<1> HIDE DEF u, A
<1>5. ASSUME NEW h \in Conns, h # k \/ w = CLIENT PROVE ServerParties(h)' = ServerParties(h)
  <2>1. CASE server[h] = n
    BY <1>1, <1>2, <1>3, <1>5, <2>1 DEF ServerParties
  <2>2. CASE server[h] # n
    BY <1>1, <1>4, <2>2 DEF ServerParties
  <2> QED BY <2>1, <2>2
<1>6. ASSUME NEW h \in Conns, h # k \/ w = SERVER PROVE ClientParties(h)' = ClientParties(h)
  <2>1. CASE client[h] = n
    BY <1>1, <1>2, <1>3, <1>6, <2>1 DEF ClientParties
  <2>2. CASE client[h] # n
    BY <1>1, <1>4, <2>2 DEF ClientParties
  <2> QED BY <2>1, <2>2
<1>7. w = SERVER => ServerParties(k)' = A
  BY <1>1, <1>2, <1>3 DEF ServerParties
<1>8. w = CLIENT => ClientParties(k)' = A
  BY <1>1, <1>2, <1>3 DEF ClientParties
<1> QED BY <1>5, <1>6, <1>7, <1>8 DEF A

\* A step that changes no line, nor a block that a line keeps.
LEMMA PartiesStay ==
  ASSUME \A m \in Nodes : transfers'[m] = transfers[m],
         \A m \in Nodes, j \in Lines : transfers[m][j].state = RESET \/ block'[m][j] = block[m][j],
         NEW h \in Conns
  PROVE  ServerParties(h)' = ServerParties(h) /\ ClientParties(h)' = ClientParties(h)
<1>1. \A k, w : \A m \in Nodes, j \in Lines : OnUse(transfers[m], k, w, j) => block'[m][j] = block[m][j]
  BY DEF OnUse, LineToClose
<1>2. server[h] \in Nodes /\ client[h] \in Nodes
  BY SDOAssumption
<1> QED BY <1>1, <1>2 DEF ServerParties, ClientParties, Parties

-----------------------------------------------------------------------------
(***************************************************************************)
(* What a frame can be that a node gets.                                   *)
(***************************************************************************)
LEMMA BlockStatesDiffer ==
  /\ {BLOCK_DOWNLOAD, BLOCK_UPLOAD} \subseteq InProgress
  /\ BLOCK_DOWNLOAD # BLOCK_UPLOAD
  /\ \A state \in {BLOCK_DOWNLOAD, BLOCK_UPLOAD} :
       state # DOWNLOAD /\ state # UPLOAD /\ state # FINISHED /\ state # ABORTED_RCV
       /\ state # RESET /\ state # ABORTED_INTERNAL
  /\ \A state \in {DOWNLOAD, UPLOAD} : state # RESET /\ state # ABORTED_INTERNAL
BY DEF RESET, FINISHED, DOWNLOAD, UPLOAD, BLOCK_DOWNLOAD, BLOCK_UPLOAD, ABORTED_RCV,
       ABORTED_INTERNAL, InProgress

LEMMA FramesDiffer ==
  /\ Abort.cs = 4 /\ Abort.seq = 0
  /\ Block(5, END).cs = 5 /\ Block(5, END).sub = END
  /\ INITIATE = 0 /\ END = 1 /\ RESPONSE = 2 /\ START_UPLOAD = 3
BY DEF Abort, Frame, Block, INITIATE, END, RESPONSE, START_UPLOAD

\* The first frame of a block, and the others.
LEMMA FirstOfBlock ==
  ASSUME NEW p, NEW x, NEW w, Streaming(p, x, w)
  PROVE  /\ w # <<>> /\ Head(w) = w[1] /\ Len(w) \in Nat \ {0}
         /\ Head(w) # Abort /\ Head(w).cs \in {0, 4} /\ Head(w).seq > 0
<1>1. PICK X : w \in Seq(X)
  BY DEF Streaming, IsSequence
<1>2. /\ Len(w) \in Nat /\ Len(w) > 0 /\ x.seqno \in Nat
      /\ w[1].seq = x.seqno + 1 /\ w[1].cs \in {0, 4}
  BY <1>1 DEF Streaming
<1>3. w # <<>> /\ Head(w) = w[1]
  BY <1>1, <1>2
<1> QED BY <1>2, <1>3, FramesDiffer

\* The server reads a frame of client c.
ServerReadsBlock(c, s, q) ==
  \/ /\ c.state = BLOCK_DOWNLOAD /\ s.state = BLOCK_DOWNLOAD
     /\ Streaming(c, s, q) \/ (q = <<Head(q)>> /\ Over(s, Head(q)))
  \/ /\ c.state = BLOCK_UPLOAD /\ s.state = BLOCK_UPLOAD
     /\ q = <<Head(q)>> /\ Head(q).cs = 5
     /\ \/ Head(q).sub = START_UPLOAD /\ Ready(s, c) /\ s.blksize = SDO_BLOCK_SIZE /\ s.offset = 0
        \/ Acks(s, c, Head(q))

ServerCloses(C, S, q, p) == Closes(Head(q), S) /\ Talk(C, {}, Tail(q), p)

ServerReadsAsked(C, S, q, p) ==
  /\ q = <<Head(q)>> /\ p = <<>>
  /\ \E c : C = {c} /\ ((S = {} /\ Requests(Head(q), c)) \/ AsksPlain(Head(q), c, S))

LEMMA WhatServerReads ==
  ASSUME NEW C, NEW S, NEW q, NEW p, Talk(C, S, q, p), q # <<>>
  PROVE  \/ ServerCloses(C, S, q, p)
         \/ ServerReadsAsked(C, S, q, p)
         \/ p = <<>> /\ \E c, s : C = {c} /\ S = {s} /\ ServerReadsBlock(c, s, q)
<1>1. CASE Quiet(C, S, q, p)
  <2>1. PICK x : q = <<x>> /\ Closes(x, S)
    BY <1>1 DEF Quiet
  <2>2. Head(q) = x /\ Tail(q) = <<>>
    BY <2>1
  <2>3. Quiet(C, {}, Tail(q), p)
    BY <1>1, <2>2 DEF Quiet
  <2> QED BY <2>1, <2>2, <2>3 DEF ServerCloses, Talk
<1>2. CASE GivenUp(C, S, q, p)
  <2>1. q = <<Abort>>
    BY <1>2 DEF GivenUp
  <2>2. Head(q) = Abort /\ Tail(q) = <<>>
    BY <2>1
  <2>3. GivenUp(C, {}, Tail(q), p)
    BY <1>2, <2>2 DEF GivenUp
  <2> QED BY <2>2, <2>3 DEF ServerCloses, Talk, Closes
<1>3. ASSUME NEW c, C = {c}, Asks(c, S, q, p)
      PROVE  ServerCloses(C, S, q, p) \/ ServerReadsAsked(C, S, q, p)
  <2>1. PICK m : \/ Requests(m, c) /\ q = <<m>> /\ S = {}
                 \/ Requests(m, c) /\ \E x : q = <<x, m>> /\ Closes(x, S)
                 \/ AsksPlain(m, c, S) /\ q = <<m>>
    BY <1>3 DEF Asks
  <2>2. CASE q = <<m>>
    <3>1. Head(q) = m
      BY <2>2
    <3>2. (S = {} /\ Requests(m, c)) \/ AsksPlain(m, c, S)
      BY <2>1, <2>2
    <3> QED BY <1>3, <2>2, <3>1, <3>2 DEF ServerReadsAsked, Asks
  <2>3. CASE Requests(m, c) /\ \E x : q = <<x, m>> /\ Closes(x, S)
    <3>1. PICK x : q = <<x, m>> /\ Closes(x, S)
      BY <2>3
    <3>2. Head(q) = x /\ Tail(q) = <<m>>
      BY <3>1
    <3>3. Asks(c, {}, Tail(q), p)
      BY <1>3, <2>3, <3>2 DEF Asks
    <3> QED BY <1>3, <3>1, <3>2, <3>3 DEF ServerCloses, Talk
  <2> QED BY <2>1, <2>2, <2>3
<1>4. ASSUME NEW c, Answers(c, S, q, p) PROVE FALSE
  BY <1>4 DEF Answers
<1>5. ASSUME NEW c, NEW s, BlockDownloads(c, s, q, p)
      PROVE  p = <<>> /\ ServerReadsBlock(c, s, q)
  <2>1. p = <<>> /\ c.state = BLOCK_DOWNLOAD /\ s.state = BLOCK_DOWNLOAD
        /\ (Streaming(c, s, q) \/ \E m : q = <<m>> /\ Over(s, m))
    BY <1>5 DEF BlockDownloads
  <2>2. (\E m : q = <<m>> /\ Over(s, m)) => q = <<Head(q)>> /\ Over(s, Head(q))
    OBVIOUS
  <2> QED BY <2>1, <2>2 DEF ServerReadsBlock
<1>6. ASSUME NEW c, NEW s, BlockUploads(c, s, q, p)
      PROVE  p = <<>> /\ ServerReadsBlock(c, s, q)
  <2>1. PICK m : /\ p = <<>> /\ c.state = BLOCK_UPLOAD /\ s.state = BLOCK_UPLOAD
                 /\ q = <<m>> /\ m.cs = 5
                 /\ \/ m.sub = START_UPLOAD /\ Ready(s, c) /\ s.blksize = SDO_BLOCK_SIZE
                                                           /\ s.offset = 0
                    \/ Acks(s, c, m)
    BY <1>6 DEF BlockUploads
  <2>2. Head(q) = m
    BY <2>1
  <2> QED BY <2>1, <2>2 DEF ServerReadsBlock
<1> QED BY <1>1, <1>2, <1>3, <1>4, <1>5, <1>6 DEF Talk

\* The client reads a frame of server s.
ClientReadsBlock(c, s, p) ==
  \/ /\ c.state = BLOCK_DOWNLOAD /\ s.state = BLOCK_DOWNLOAD
     /\ p = <<Head(p)>> /\ Head(p).cs = 5
     /\ \/ Head(p).sub = INITIATE /\ Head(p).n = SDO_BLOCK_SIZE /\ Ready(c, s)
        \/ Acks(c, s, Head(p))
  \/ /\ c.state = BLOCK_UPLOAD /\ s.state = BLOCK_UPLOAD
     /\ \/ /\ p = <<Head(p)>> /\ Head(p).cs = 6 /\ Head(p).sub = INITIATE
           /\ c.rxstep = RXSTEP_INIT /\ c.offset = 0 /\ c.seqno = 0
           /\ Produces(s) /\ s.offset = 0 /\ s.blksize = SDO_BLOCK_SIZE
        \/ Streaming(s, c, p)
        \/ p = <<Head(p)>> /\ Over(c, Head(p))

\* The server has given up, and so has the client.
ClientIsTold(S, q, p) == S = {} /\ q \in {<<>>, <<Abort>>} /\ p = <<Abort>>

ClientReadsAnswer(C, S, q, p) ==
  /\ q = <<>>
  /\ \E c : /\ C = {c}
            /\ \/ p = <<Head(p)>> /\ AnswersPlain(Head(p), c, S)
               \/ /\ p = <<Head(p)>> \/ p = <<Head(p), Abort>>
                  /\ S = {} /\ ConfirmsAll(Head(p), c)

LEMMA WhatClientReads ==
  ASSUME NEW C, NEW S, NEW q, NEW p, Talk(C, S, q, p), p # <<>>
  PROVE  \/ ClientIsTold(S, q, p)
         \/ ClientReadsAnswer(C, S, q, p)
         \/ q = <<>> /\ \E c, s : C = {c} /\ S = {s} /\ ClientReadsBlock(c, s, p)
<1>1. CASE Quiet(C, S, q, p) \/ \E c : Asks(c, S, q, p)
  BY <1>1 DEF Quiet, Asks
<1>2. CASE GivenUp(C, S, q, p)
  BY <1>2 DEF GivenUp, ClientIsTold
<1>3. ASSUME NEW c, C = {c}, Answers(c, S, q, p) PROVE ClientReadsAnswer(C, S, q, p)
  <2>1. PICK m : \/ p = <<m>> /\ AnswersPlain(m, c, S)
                 \/ p \in {<<m>>, <<m, Abort>>} /\ S = {} /\ ConfirmsAll(m, c)
    BY <1>3 DEF Answers
  <2>2. Head(p) = m
    BY <2>1
  <2> QED BY <1>3, <2>1, <2>2 DEF Answers, ClientReadsAnswer
<1>4. ASSUME NEW c, NEW s, BlockDownloads(c, s, q, p)
      PROVE  q = <<>> /\ ClientReadsBlock(c, s, p)
  <2>1. PICK m : /\ q = <<>> /\ c.state = BLOCK_DOWNLOAD /\ s.state = BLOCK_DOWNLOAD
                 /\ p = <<m>> /\ m.cs = 5
                 /\ \/ m.sub = INITIATE /\ m.n = SDO_BLOCK_SIZE /\ Ready(c, s)
                    \/ Acks(c, s, m)
    BY <1>4 DEF BlockDownloads
  <2>2. Head(p) = m
    BY <2>1
  <2> QED BY <2>1, <2>2 DEF ClientReadsBlock
<1>5. ASSUME NEW c, NEW s, BlockUploads(c, s, q, p)
      PROVE  q = <<>> /\ ClientReadsBlock(c, s, p)
  <2>1. /\ q = <<>> /\ c.state = BLOCK_UPLOAD /\ s.state = BLOCK_UPLOAD
        /\ \/ \E m : /\ p = <<m>> /\ m.cs = 6 /\ m.sub = INITIATE
                     /\ c.rxstep = RXSTEP_INIT /\ c.offset = 0 /\ c.seqno = 0
                     /\ Produces(s) /\ s.offset = 0 /\ s.blksize = SDO_BLOCK_SIZE
           \/ Streaming(s, c, p)
           \/ \E m : p = <<m>> /\ Over(c, m)
    BY <1>5 DEF BlockUploads
  <2>2. \A m : p = <<m>> => Head(p) = m
    OBVIOUS
  <2> QED BY <2>1, <2>2 DEF ClientReadsBlock
<1> QED BY <1>1, <1>2, <1>3, <1>4, <1>5 DEF Talk

-----------------------------------------------------------------------------
(***************************************************************************)
(* What sending and receiving a block does to the parties.                 *)
(***************************************************************************)
\* A party's record, and what a line's watchdog has to do with it: nothing.
LEMMA PartyIsSeen ==
  ASSUME NEW l, NEW b
  PROVE  LET p == Party(l, b)
         IN  /\ p.state = l.state /\ p.index = l.index /\ p.count = l.count
             /\ p.offset = l.offset /\ p.data = l.data
             /\ p.blksize = b.blksize /\ p.seqno = b.seqno
             /\ p.lastblockoffset = b.lastblockoffset /\ p.objsize = b.objsize
             /\ p.endfield = b.endfield /\ p.rxstep = b.rxstep /\ p.tmpData = b.tmpData
BY DEF Party

LEMMA TimerIsNotSeen ==
  ASSUME NEW l, DOMAIN l = Fields, NEW b
  PROVE  /\ Party(RestartTimer(l), b) = Party(l, b) /\ DOMAIN RestartTimer(l) = Fields
         /\ RestartTimer(l).state = l.state
         /\ RestartTimer(l).CliServNbr = l.CliServNbr /\ RestartTimer(l).whoami = l.whoami
         /\ RestartTimer(l).timer = l.timer
            \/ RestartTimer(l).timer = IF l.timer = NO_TIMER THEN NO_TIMER ELSE ARMED
BY DEF RestartTimer, Party, Fields

\* A function on 1 .. n is a sequence.
LEMMA IsOfLength ==
  ASSUME NEW n \in Nat, NEW w, w = [i \in 1 .. n |-> w[i]]
  PROVE  IsSequence(w) /\ Len(w) = n
<1> DEFINE X == {w[i] : i \in 1 .. n}
<1>1. \A i \in 1 .. n : w[i] \in X
  OBVIOUS
<1> HIDE DEF X
<1>2. w \in [1 .. n -> X]
  BY <1>1
<1>3. w \in Seq(X)
  BY <1>2
<1>4. Len(w) = n
  BY <1>2, <1>3
<1> QED BY <1>3, <1>4 DEF IsSequence

\* The segments that r bytes take.
LEMMA SegmentsOf ==
  ASSUME NEW r \in Nat \ {0}
  PROVE  LET all == (r + SEGMENT - 1) \div SEGMENT
         IN  all \in Nat \ {0} /\ SEGMENT * (all - 1) < r /\ r <= SEGMENT * all
BY DEF SEGMENT

\* The frames of a block, all numbers in sight.
LEMMA FramesOfBlock ==
  ASSUME NEW l, l.count \in 1 .. SDO_MAX_LENGTH_TRANSFER, l.offset \in 0 .. l.count,
         l.offset # l.count
  PROVE  LET w == BlockOf(l, SDO_BLOCK_SIZE)
             rest == l.count - l.offset
             all == (rest + SEGMENT - 1) \div SEGMENT
             e == IF all < SDO_BLOCK_SIZE THEN all ELSE SDO_BLOCK_SIZE
         IN  /\ e \in Nat /\ IsSequence(w) /\ Len(w) = e
             /\ \A s \in 1 .. e :
                  /\ w[s].seq = s /\ w[s].cs = (IF s = all THEN 4 ELSE 0)
                  /\ w[s].from = l.offset + SEGMENT * (s - 1)
                  /\ w[s].n = IF s = all THEN rest - SEGMENT * (s - 1) ELSE SEGMENT
                  /\ w[s].data = l.data
<1> DEFINE w == BlockOf(l, SDO_BLOCK_SIZE)
           rest == l.count - l.offset
           all == (rest + SEGMENT - 1) \div SEGMENT
           e == IF all < SDO_BLOCK_SIZE THEN all ELSE SDO_BLOCK_SIZE
           f(s) == [Frame(IF s = all THEN 4 ELSE 0) EXCEPT
                      !.seq = s, !.data = l.data, !.from = l.offset + SEGMENT * (s - 1),
                      !.n = IF s = all THEN rest - SEGMENT * (s - 1) ELSE SEGMENT]
<1>1. /\ SDO_BLOCK_SIZE \in Nat /\ l.count \in Nat /\ l.offset \in Nat
      /\ rest \in Nat \ {0} /\ l.count # 0
  BY BlockAssumption, LineAssumption
<1>2. all \in Nat \ {0}
  BY <1>1, SegmentsOf
<1>3. getSDOlineRestBytes(l) = rest
  BY <1>1 DEF getSDOlineRestBytes
<1>4. w = [s \in 1 .. e |-> f(s)]
  <2> HIDE DEF rest
  <2> QED BY <1>1, <1>3 DEF BlockOf
<1>5. \A s : /\ f(s).seq = s /\ f(s).cs = (IF s = all THEN 4 ELSE 0)
             /\ f(s).from = l.offset + SEGMENT * (s - 1)
             /\ f(s).data = l.data
             /\ f(s).n = IF s = all THEN rest - SEGMENT * (s - 1) ELSE SEGMENT
  BY DEF Frame
<1> HIDE DEF w, rest, all, f
<1>6. e \in Nat
  BY <1>1, <1>2
<1> HIDE DEF e
<1>7. IsSequence(w) /\ Len(w) = e
  BY <1>4, <1>6, IsOfLength
<1>8. \A s \in 1 .. e : w[s] = f(s)
  BY <1>4
<1> QED BY <1>5, <1>6, <1>7, <1>8 DEF w, rest, all, e

\* A producer that sends a block: the consumer waits for the frames it has sent.
LEMMA BlockGoesOut ==
  ASSUME NEW l, DOMAIN l = Fields, NEW b, DOMAIN b = BlockFields, NEW x, Ready(Party(l, b), x)
  PROVE  LET r == AfterBlock(l, b, SDO_BLOCK_SIZE)
         IN  /\ Streaming(Party(r.line, r.block), x, r.frames)
             /\ r.line = [l EXCEPT !.offset = r.line.offset]
             /\ DOMAIN r.block = BlockFields
<1> DEFINE r == AfterBlock(l, b, SDO_BLOCK_SIZE)
           w == BlockOf(l, SDO_BLOCK_SIZE)
           rest == l.count - l.offset
           all == (rest + SEGMENT - 1) \div SEGMENT
           e == IF all < SDO_BLOCK_SIZE THEN all ELSE SDO_BLOCK_SIZE
           p == Party(r.line, r.block)
<1>1. /\ l.count \in 1 .. SDO_MAX_LENGTH_TRANSFER /\ l.offset \in 0 .. l.count
      /\ l.offset # l.count /\ x.offset = l.offset
      /\ x.rxstep = RXSTEP_STARTED /\ x.seqno = 0
  BY PartyIsSeen DEF Ready, Produces
<1>2. /\ SDO_BLOCK_SIZE \in Nat \ {0} /\ l.count \in Nat /\ l.offset \in Nat
      /\ rest \in Nat \ {0}
  BY <1>1, BlockAssumption, LineAssumption
<1>3. all \in Nat \ {0} /\ SEGMENT * (all - 1) < rest /\ rest <= SEGMENT * all
  BY <1>2, SegmentsOf
<1>4. /\ e \in Nat /\ IsSequence(w) /\ Len(w) = e
      /\ \A s \in 1 .. e :
           /\ w[s].seq = s /\ w[s].cs = (IF s = all THEN 4 ELSE 0)
           /\ w[s].from = l.offset + SEGMENT * (s - 1)
           /\ w[s].n = IF s = all THEN rest - SEGMENT * (s - 1) ELSE SEGMENT
  BY <1>1, FramesOfBlock
<1> HIDE DEF w, all
<1>5. /\ r.frames = w /\ r.line = [l EXCEPT !.offset = w[e].from + w[e].n]
      /\ r.block = [b EXCEPT !.blksize = SDO_BLOCK_SIZE, !.lastblockoffset = l.offset, !.seqno = e,
                             !.endfield = IF w[e].cs = 4 THEN w[e].n ELSE @]
  BY <1>4 DEF AfterBlock, w
<1>6. /\ r.line.offset = w[e].from + w[e].n /\ r.line.count = l.count
      /\ r.line = [l EXCEPT !.offset = r.line.offset]
      /\ r.block.lastblockoffset = l.offset /\ r.block.seqno = e /\ DOMAIN r.block = BlockFields
  BY <1>5 DEF Fields, BlockFields
<1> HIDE DEF r, rest
<1>7. e > 0 /\ e <= SDO_BLOCK_SIZE /\ e <= all /\ (e # all => e = SDO_BLOCK_SIZE)
  BY <1>2, <1>3
<1> HIDE DEF e
<1>8. /\ w[e].n \in 1 .. SEGMENT
      /\ w[e].from + w[e].n = l.offset + SEGMENT * (e - 1) + w[e].n
      /\ w[e].from + w[e].n \in 0 .. l.count
      /\ w[e].from + w[e].n = l.count <=> e = all
  <2>1. e \in 1 .. e
    BY <1>4, <1>7
  <2>2. w[e].from = l.offset + SEGMENT * (e - 1)
        /\ w[e].n = (IF e = all THEN rest - SEGMENT * (e - 1) ELSE SEGMENT)
    BY <1>4, <2>1
  <2>3. rest = l.count - l.offset
    BY DEF rest
  <2>4. CASE e = all
    <3>1. w[e].n = rest - 7 * (e - 1) /\ 7 * (e - 1) < rest /\ rest <= 7 * e
      BY <1>3, <2>2, <2>4 DEF SEGMENT
    <3>2. w[e].from = l.offset + 7 * (e - 1)
      BY <2>2 DEF SEGMENT
    <3>3. w[e].n \in 1 .. 7 /\ w[e].from + w[e].n = l.offset + 7 * (e - 1) + w[e].n
      BY <1>2, <1>4, <3>1, <3>2
    <3>4. w[e].from + w[e].n = l.count
      BY <1>2, <1>4, <2>3, <3>1, <3>2
    <3> QED BY <1>2, <2>4, <3>3, <3>4 DEF SEGMENT
  <2>5. CASE e # all
    <3>1. w[e].n = 7 /\ w[e].from = l.offset + 7 * (e - 1)
      BY <2>2, <2>5 DEF SEGMENT
    <3>2. e <= all - 1 /\ 7 * (all - 1) < rest
      BY <1>3, <1>4, <1>7, <2>5 DEF SEGMENT
    <3>3. 7 * e < rest
      BY <1>2, <1>3, <1>4, <3>2
    <3> QED BY <1>2, <1>4, <2>3, <2>5, <3>1, <3>3 DEF SEGMENT
  <2> QED BY <2>4, <2>5
<1>9. /\ p.offset = w[e].from + w[e].n /\ p.count = l.count /\ p.seqno = e
      /\ p.lastblockoffset = l.offset
  BY <1>6, PartyIsSeen
<1> HIDE DEF p
<1>10. Produces(p)
  BY <1>1, <1>8, <1>9 DEF Produces
<1>11. \A s \in 1 .. e : /\ w[s].seq = x.seqno + s
                         /\ w[s].cs = IF s = e /\ p.offset = p.count THEN 4 ELSE 0
                         /\ w[s].cs = 0 => w[s].n = SEGMENT
  BY <1>1, <1>3, <1>4, <1>7, <1>8, <1>9
<1>12. Streaming(p, x, w)
  BY <1>1, <1>2, <1>4, <1>7, <1>8, <1>9, <1>10, <1>11 DEF Streaming, SEGMENT
<1> QED BY <1>5, <1>6, <1>12 DEF r, p

\* Line l goes on as m, with the watchdog it has.
Same(l, m) == Owned(l, m) /\ m.state = l.state /\ m.timer = l.timer

LEMMA SameButOffset ==
  ASSUME NEW l, DOMAIN l = Fields, NEW m, m = [l EXCEPT !.offset = m.offset]
  PROVE  Same(l, m)
BY DEF Same, Owned, Fields

\* A producer that is told how far the consumer has come.
LEMMA AcknowledgedGoesOn ==
  ASSUME NEW l, DOMAIN l = Fields, NEW b, DOMAIN b = BlockFields, NEW x, NEW m,
         Acks(Party(l, b), x, m)
  PROVE  LET r == Acknowledged(l, b, m, Block(6, END))
         IN  /\ ~BadAckSeq(l, b, m)
             /\ Same(l, r.line) /\ DOMAIN r.block = BlockFields
             /\ \/ Streaming(Party(r.line, r.block), x, r.frames)
                \/ \E f : r.frames = <<f>> /\ Over(x, f)
<1> DEFINE r == Acknowledged(l, b, m, Block(6, END))
           g == GoneBack(l, b, m)
<1>1. /\ l.count \in 1 .. SDO_MAX_LENGTH_TRANSFER /\ l.offset \in 0 .. l.count
      /\ m.seq = b.seqno /\ m.n = SDO_BLOCK_SIZE /\ x.seqno = 0
      /\ IF l.offset = l.count
         THEN x.rxstep = RXSTEP_END
         ELSE /\ x.rxstep = RXSTEP_STARTED /\ x.offset = l.offset
              /\ b.lastblockoffset + SEGMENT * b.seqno = l.offset
  BY PartyIsSeen DEF Acks, Produces
<1>2. l.count \in Nat \ {0} /\ l.offset \in Nat /\ l.offset <= l.count
  BY <1>1, LineAssumption
<1>3. AllAcknowledged(l, b, m) <=> l.offset = l.count
  BY <1>1, <1>2 DEF AllAcknowledged, getSDOlineRestBytes
<1>4. CASE l.offset = l.count
  <2> DEFINE f == [Block(6, END) EXCEPT !.n = b.endfield]
  <2>1. /\ r.line = l /\ r.frames = <<f>> /\ r.block = [b EXCEPT !.blksize = m.n]
    BY <1>3, <1>4 DEF Acknowledged
  <2>2. Over(x, f)
    BY <1>1, <1>4 DEF Over, Block, Frame
  <2>3. Same(l, r.line) /\ DOMAIN r.block = BlockFields /\ ~BadAckSeq(l, b, m)
    BY <1>3, <1>4, <2>1 DEF Same, Owned, BlockFields, BadAckSeq
  <2> QED BY <2>1, <2>2, <2>3
<1>5. CASE l.offset # l.count
  <2>1. g.offset = l.offset /\ g.count = l.count /\ Same(l, g) /\ DOMAIN g = Fields
    BY <1>1, <1>5 DEF GoneBack, Same, Owned, Fields
  <2>2. r = AfterBlock(g, b, SDO_BLOCK_SIZE)
    BY <1>1, <1>3, <1>5 DEF Acknowledged
  <2> HIDE DEF g, r
  <2>3. Ready(Party(g, b), x)
    BY <1>1, <1>5, <2>1, PartyIsSeen DEF Ready, Produces
  <2>4. /\ Streaming(Party(r.line, r.block), x, r.frames)
        /\ r.line = [g EXCEPT !.offset = r.line.offset]
        /\ DOMAIN r.block = BlockFields
    BY <2>1, <2>2, <2>3, BlockGoesOut
  <2>5. Same(g, r.line)
    BY <2>1, <2>4, SameButOffset
  <2>6. Same(l, r.line)
    BY <2>1, <2>5 DEF Same, Owned
  <2>7. ~BadAckSeq(l, b, m)
    BY <1>2, <2>1 DEF BadAckSeq, g
  <2> QED BY <2>4, <2>6, <2>7 DEF r
<1> QED BY <1>4, <1>5

\* A consumer that gets a segment: it waits for the next one, or says it has all.
LEMMA ReceivedGoesOn ==
  ASSUME NEW l, DOMAIN l = Fields, NEW b, DOMAIN b = BlockFields, NEW p, NEW w,
         Streaming(p, Party(l, b), w)
  PROVE  LET r == Received(l, b, Head(w))
             y == Party(r.line, r.block)
         IN  /\ ~SegmentOverflows(l, b, Head(w))
             /\ Same(l, r.line) /\ DOMAIN r.block = BlockFields
             /\ \/ r.frames = <<>> /\ Streaming(p, y, Tail(w))
                \/ Tail(w) = <<>> /\ \E a : r.frames = <<a>> /\ a.cs = 5 /\ Acks(p, y, a)
<1> DEFINE m == Head(w)
           r == Received(l, b, m)
           y == Party(r.line, r.block)
           e == Len(w)
<1>1. PICK X : w \in Seq(X)
  BY DEF Streaming, IsSequence
<1>2. /\ e \in Nat \ {0} /\ m = w[1]
  BY <1>1, FirstOfBlock
<1>3. /\ p.count \in 1 .. SDO_MAX_LENGTH_TRANSFER /\ p.offset \in 0 .. p.count
      /\ b.rxstep = RXSTEP_STARTED /\ b.seqno \in Nat
      /\ \A i \in 1 .. e : /\ w[i].seq = b.seqno + i
                           /\ w[i].cs = IF i = e /\ p.offset = p.count THEN 4 ELSE 0
                           /\ w[i].cs = 0 => w[i].n = SEGMENT
      /\ w[e].n \in 1 .. SEGMENT /\ l.offset + SEGMENT * (e - 1) + w[e].n = p.offset
      /\ p.seqno = b.seqno + e /\ p.seqno <= SDO_BLOCK_SIZE
      /\ p.offset # p.count => p.seqno = SDO_BLOCK_SIZE
      /\ p.lastblockoffset \in Nat /\ l.offset = p.lastblockoffset + SEGMENT * b.seqno
  BY PartyIsSeen DEF Streaming, Produces
<1>4. /\ m.seq = b.seqno + 1 /\ m.cs = (IF e = 1 /\ p.offset = p.count THEN 4 ELSE 0)
      /\ m.cs = 0 => m.n = SEGMENT
  <2>1. 1 \in 1 .. e
    BY <1>2
  <2>2. /\ w[1].seq = b.seqno + 1 /\ w[1].cs = (IF 1 = e /\ p.offset = p.count THEN 4 ELSE 0)
        /\ w[1].cs = 0 => w[1].n = SEGMENT
    BY <1>3, <2>1
  <2> QED BY <1>2, <2>2
<1>5. /\ SDO_BLOCK_SIZE \in Nat /\ p.count \in Nat /\ p.offset \in Nat /\ w[e].n \in Nat
      /\ l.offset \in Nat /\ p.offset <= SDO_MAX_LENGTH_TRANSFER /\ SDO_MAX_LENGTH_TRANSFER \in Nat
  <2>1. SDO_BLOCK_SIZE \in Nat /\ SDO_MAX_LENGTH_TRANSFER \in Nat
    BY BlockAssumption, LineAssumption
  <2>2. p.count \in Nat /\ p.offset \in Nat /\ p.offset <= SDO_MAX_LENGTH_TRANSFER
    <3>1. p.count \in 1 .. SDO_MAX_LENGTH_TRANSFER /\ p.offset \in 0 .. p.count
      BY <1>3
    <3> QED BY <2>1, <3>1
  <2>3. w[e].n \in Nat
    BY <1>3 DEF SEGMENT
  <2>4. l.offset \in Nat
    <3>1. /\ p.lastblockoffset \in Nat /\ b.seqno \in Nat
          /\ l.offset = p.lastblockoffset + 7 * b.seqno
      BY <1>3 DEF SEGMENT
    <3> QED BY <3>1
  <2> QED BY <2>1, <2>2, <2>3, <2>4
<1>6. SeqNo(m) = m.seq /\ Expected(b, m) /\ (IsLast(m) <=> m.cs = 4)
  BY <1>3, <1>4 DEF SeqNo, IsSegment, Expected, IsLast
<1> HIDE DEF m, e
<1>7. ~SegmentOverflows(l, b, m)
  <2>1. ~IsLast(m) => l.offset + 7 <= p.offset
    <3>1. CASE e = 1
      BY <1>2, <1>3, <1>4, <1>5, <1>6, <3>1 DEF SEGMENT
    <3>2. CASE e # 1
      BY <1>2, <1>3, <1>5, <3>2 DEF SEGMENT
    <3> QED BY <3>1, <3>2
  <2> QED BY <1>5, <2>1 DEF SegmentOverflows, Fits, SEGMENT
<1>8. /\ r.line = (IF IsLast(m) THEN l ELSE SDOtoLine(l, m))
      /\ r.block = [IF IsLast(m) THEN [b EXCEPT !.rxstep = RXSTEP_END, !.tmpData = m] ELSE b
                    EXCEPT !.seqno = IF IsLast(m) \/ m.seq = SDO_BLOCK_SIZE THEN 0 ELSE m.seq]
      /\ r.frames = IF IsLast(m) \/ m.seq = SDO_BLOCK_SIZE
                    THEN <<[Block(5, RESPONSE) EXCEPT !.seq = m.seq, !.n = SDO_BLOCK_SIZE]>>
                    ELSE <<>>
  BY <1>6 DEF Received
<1>9. /\ Same(l, r.line) /\ DOMAIN r.block = BlockFields
      /\ r.line.offset = IF IsLast(m) THEN l.offset ELSE l.offset + m.n
      /\ r.block.rxstep = IF IsLast(m) THEN RXSTEP_END ELSE RXSTEP_STARTED
      /\ r.block.seqno = IF IsLast(m) \/ m.seq = SDO_BLOCK_SIZE THEN 0 ELSE m.seq
  BY <1>3, <1>8 DEF Same, Owned, SDOtoLine, Fields, BlockFields
<1> DEFINE a == [Block(5, RESPONSE) EXCEPT !.seq = m.seq, !.n = SDO_BLOCK_SIZE]
<1>10. a.cs = 5 /\ a.sub = RESPONSE /\ a.seq = m.seq /\ a.n = SDO_BLOCK_SIZE
  BY DEF Block, Frame
<1>11. /\ y.offset = r.line.offset /\ y.rxstep = r.block.rxstep /\ y.seqno = r.block.seqno
  BY PartyIsSeen
<1> HIDE DEF r, y, a
<1>12. CASE e = 1
  <2>1. Tail(w) = <<>>
    <3> DEFINE v == Tail(w)
    <3>1. Len(w) = 1 /\ w # <<>>
      BY <1>12, FirstOfBlock DEF e
    <3>2. v \in Seq(X) /\ Len(v) = Len(w) - 1
      BY <1>1, <3>1
    <3> HIDE DEF v
    <3>3. v = <<>>
      BY <3>1, <3>2
    <3> QED BY <3>3 DEF v
  <2>2. IsLast(m) \/ m.seq = SDO_BLOCK_SIZE
    BY <1>3, <1>4, <1>5, <1>6, <1>12
  <2>3. r.frames = <<a>>
    BY <1>8, <2>2 DEF a
  <2>4. IsLast(m) <=> p.offset = p.count
    BY <1>4, <1>6, <1>12
  <2>5. ~IsLast(m) => /\ l.offset + m.n = p.offset
                      /\ p.lastblockoffset + SEGMENT * p.seqno = p.offset
    BY <1>2, <1>3, <1>4, <1>5, <1>6, <1>12 DEF SEGMENT
  <2>6. Acks(p, y, a)
    BY <1>3, <1>4, <1>9, <1>10, <1>11, <1>12, <2>2, <2>4, <2>5 DEF Acks, Produces
  <2> QED BY <1>7, <1>9, <1>10, <2>1, <2>3, <2>6 DEF r, y, m
<1>13. CASE e # 1
  <2> DEFINE v == Tail(w)
             d == Len(v)
  <2>1. v \in Seq(X) /\ d = e - 1 /\ \A i \in 1 .. d : v[i] = w[i + 1]
    BY <1>1, <1>2 DEF e
  <2> HIDE DEF v, d
  <2>2. ~IsLast(m) /\ m.seq # SDO_BLOCK_SIZE
    BY <1>2, <1>3, <1>4, <1>5, <1>6, <1>13
  <2>3. /\ r.frames = <<>> /\ y.offset = l.offset + SEGMENT /\ y.seqno = b.seqno + 1
        /\ y.rxstep = RXSTEP_STARTED
    BY <1>4, <1>6, <1>8, <1>9, <1>11, <2>2
  <2>4. d \in Nat \ {0} /\ v[d] = w[e]
    BY <1>2, <1>13, <2>1
  <2>5. \A i \in 1 .. d : /\ v[i].seq = y.seqno + i
                          /\ v[i].cs = IF i = d /\ p.offset = p.count THEN 4 ELSE 0
                          /\ v[i].cs = 0 => v[i].n = SEGMENT
    <3> TAKE i \in 1 .. d
    <3>1. i + 1 \in 1 .. e /\ v[i] = w[i + 1] /\ (i + 1 = e <=> i = d)
      BY <1>2, <2>1, <2>4
    <3>2. /\ w[i + 1].seq = b.seqno + (i + 1)
          /\ w[i + 1].cs = IF i + 1 = e /\ p.offset = p.count THEN 4 ELSE 0
          /\ w[i + 1].cs = 0 => w[i + 1].n = SEGMENT
      BY <1>3, <3>1
    <3> QED BY <1>3, <2>3, <2>4, <3>1, <3>2
  <2>6. v[d].n \in 1 .. SEGMENT /\ y.offset + SEGMENT * (d - 1) + v[d].n = p.offset
    BY <1>2, <1>3, <1>5, <2>1, <2>3, <2>4 DEF SEGMENT
  <2>7. y.offset = p.lastblockoffset + SEGMENT * y.seqno /\ p.seqno = y.seqno + d
    <3>1. /\ p.lastblockoffset \in Nat /\ b.seqno \in Nat
          /\ l.offset = p.lastblockoffset + 7 * b.seqno /\ p.seqno = b.seqno + e
      BY <1>3 DEF SEGMENT
    <3>2. y.offset = l.offset + 7 /\ y.seqno = b.seqno + 1
      BY <2>3 DEF SEGMENT
    <3>3. y.offset = p.lastblockoffset + 7 * y.seqno
      BY <3>1, <3>2
    <3>4. p.seqno = y.seqno + d
      BY <1>2, <2>1, <3>1, <3>2
    <3> QED BY <3>3, <3>4 DEF SEGMENT
  <2>8. Streaming(p, y, v)
    <3>0. v \in Seq(X)
      BY <2>1
    <3>1. IsSequence(v) /\ d > 0
      <4>1. IsSequence(v)
        BY <3>0, Zenon DEF IsSequence
      <4> QED BY <2>4, <4>1
    <3>2. y.seqno \in Nat /\ Produces(p)
      BY <1>3, <2>3 DEF Produces
    <3>3. p.seqno <= SDO_BLOCK_SIZE /\ (p.offset # p.count => p.seqno = SDO_BLOCK_SIZE)
          /\ p.lastblockoffset \in Nat
      BY <1>3
    <3> QED BY <2>3, <2>5, <2>6, <2>7, <3>1, <3>2, <3>3 DEF Streaming, d
  <2> QED BY <1>7, <1>9, <2>3, <2>8 DEF r, y, m, v
<1> QED BY <1>12, <1>13

-----------------------------------------------------------------------------
(***************************************************************************)
(* A step that changes one line, or none, of one connection.               *)
(***************************************************************************)
\* Lines, blocks, frames and objects are in order, and every node communicates.
Settled ==
  /\ LineInvariant /\ BlocksKept /\ ObjectsHold /\ running = Nodes
  /\ DOMAIN req = Conns /\ DOMAIN resp = Conns

\* While no frame is lost the parties agree besides.
Agreed == Settled /\ Talks

LEMMA AgreedIsSettled == Agreed => Settled
BY DEF Agreed

LEMMA PartiesTalk ==
  ASSUME Agreed, NEW k \in Conns
  PROVE  Talk(ClientParties(k), ServerParties(k), req[k], resp[k])
BY DEF Agreed, Talks

\* Nothing happens to other connections' frames, nor to the nodes.
OthersWait(k) ==
  /\ running' = running /\ DOMAIN req' = Conns /\ DOMAIN resp' = Conns
  /\ \A h \in Conns \ {k} : req'[h] = req[h] /\ resp'[h] = resp[h]

\* Connection k alone goes on, with these parties and frames.
Acts(k, C, S, q, p) ==
  /\ LineInvariant' /\ BlocksKept' /\ OthersWait(k) /\ req'[k] = q /\ resp'[k] = p
  /\ ClientParties(k)' = C /\ ServerParties(k)' = S
  /\ \A h \in Conns \ {k} :
       ClientParties(h)' = ClientParties(h) /\ ServerParties(h)' = ServerParties(h)

LEMMA ActsAgree ==
  ASSUME Agreed, NEW k \in Conns, NEW C, NEW S, NEW q, NEW p, Acts(k, C, S, q, p),
         ObjectsHold', Talk(C, S, q, p)
  PROVE  Agreed'
<1>1. ASSUME NEW h \in Conns \ {k}
      PROVE  Talk(ClientParties(h)', ServerParties(h)', req'[h], resp'[h])
  BY PartiesTalk DEF Acts, OthersWait
<1>2. Talk(ClientParties(k)', ServerParties(k)', req'[k], resp'[k])
  BY DEF Acts
<1>3. Talks'
  BY <1>1, <1>2 DEF Talks
<1> QED BY <1>3 DEF Agreed, Settled, Acts, OthersWait

\* The party a line is, if it is one.
AParty(l, b) == IF InUse(l) THEN {Party(l, b)} ELSE {}

\* One line of k's turns, or none does.
LEMMA TurnActs ==
  ASSUME Settled, LineInvariant', BlocksKept',
         NEW k \in Conns, NEW w \in {SERVER, CLIENT}, NEW n, NEW i \in Lines, NEW l,
         Turns(n, k, w, i, l), OthersWait(k)
  PROVE  LET A == AParty(l, block'[n][i])
         IN  Acts(k, IF w = SERVER THEN ClientParties(k) ELSE A,
                  IF w = SERVER THEN A ELSE ServerParties(k), req'[k], resp'[k])
<1> DEFINE A == AParty(l, block'[n][i])
<1>1. /\ \A h \in Conns : h # k \/ w = CLIENT => ServerParties(h)' = ServerParties(h)
      /\ \A h \in Conns : h # k \/ w = SERVER => ClientParties(h)' = ClientParties(h)
      /\ w = SERVER => ServerParties(k)' = A
      /\ w = CLIENT => ClientParties(k)' = A
  BY PartiesTurn DEF Settled, AParty
<1> HIDE DEF A
<1>2. Acts(k, IF w = SERVER THEN ClientParties(k) ELSE A,
           IF w = SERVER THEN A ELSE ServerParties(k), req'[k], resp'[k])
  BY <1>1, StatesDiffer DEF Acts
<1> QED BY <1>2 DEF A

LEMMA StayActs ==
  ASSUME Settled, LineInvariant', BlocksKept', NEW k \in Conns,
         \A m \in Nodes : transfers'[m] = transfers[m],
         \A m \in Nodes, j \in Lines : transfers[m][j].state = RESET \/ block'[m][j] = block[m][j],
         OthersWait(k)
  PROVE  Acts(k, ClientParties(k), ServerParties(k), req'[k], resp'[k])
<1>1. \A h \in Conns : ServerParties(h)' = ServerParties(h) /\ ClientParties(h)' = ClientParties(h)
  BY PartiesStay
<1> QED BY <1>1 DEF Acts

\* What blocks become: one changes, or those of reset lines are forgotten.
LEMMA BlockChanges ==
  ASSUME BlocksKept, NEW n \in Nodes, NEW i \in Lines, NEW b, DOMAIN b = BlockFields,
         block' = [block EXCEPT ![n][i] = b]
  PROVE  BlocksKept' /\ BlocksStay(n, i) /\ block'[n][i] = b
<1>1. \A m \in Nodes, j \in Lines :
        block'[m][j] = IF m = n /\ j = i THEN b ELSE block[m][j]
  BY DEF BlocksKept
<1>2. DOMAIN block' = Nodes /\ \A m \in Nodes : DOMAIN block'[m] = Lines
  BY DEF BlocksKept
<1>3. BlocksKept'
  BY <1>1, <1>2 DEF BlocksKept
<1> QED BY <1>1, <1>3 DEF BlocksStay

LEMMA BlocksForgotten ==
  ASSUME BlocksKept, ForgetsBlocks
  PROVE  /\ BlocksKept'
         /\ \A m \in Nodes, j \in Lines :
              block'[m][j] = IF transfers'[m][j].state = RESET THEN NoBlock ELSE block[m][j]
<1>1. \A m \in Nodes, j \in Lines :
        block'[m][j] = IF transfers'[m][j].state = RESET THEN NoBlock ELSE block[m][j]
  BY DEF ForgetsBlocks
<1>2. DOMAIN NoBlock = BlockFields
  BY DEF NoBlock, BlockFields
<1>3. DOMAIN block' = Nodes /\ \A m \in Nodes : DOMAIN block'[m] = Lines
  BY DEF ForgetsBlocks
<1>4. BlocksKept'
  BY <1>1, <1>2, <1>3 DEF BlocksKept
<1> QED BY <1>1, <1>4

\* When one line changes, the others keep their blocks.
LEMMA OneBlockForgotten ==
  ASSUME LineInvariant, BlocksKept, NEW n \in Nodes, NEW i \in Lines, NEW l,
         transfers' = [transfers EXCEPT ![n] = [transfers[n] EXCEPT ![i] = l]],
         ForgetsBlocks \/ UNCHANGED block
  PROVE  BlocksKept' /\ BlocksStay(n, i) /\ (l.state # RESET => block'[n][i] = block[n][i])
<1>1. DOMAIN transfers = Nodes /\ \A m \in Nodes : DOMAIN transfers[m] = Lines
  BY DEF LineInvariant, LinesOK
<1>2. \A m \in Nodes, j \in Lines :
        transfers'[m][j] = IF m = n /\ j = i THEN l ELSE transfers[m][j]
  BY <1>1
<1>3. CASE ForgetsBlocks
  BY <1>2, <1>3, BlocksForgotten DEF BlocksStay
<1>4. CASE UNCHANGED block
  BY <1>4 DEF BlocksKept, BlocksStay
<1> QED BY <1>3, <1>4

LEMMA NoBlockForgotten ==
  ASSUME BlocksKept, \A m \in Nodes : transfers'[m] = transfers[m],
         ForgetsBlocks \/ UNCHANGED block
  PROVE  /\ BlocksKept'
         /\ \A m \in Nodes, j \in Lines :
              transfers[m][j].state = RESET \/ block'[m][j] = block[m][j]
<1>1. CASE ForgetsBlocks
  BY <1>1, BlocksForgotten
<1>2. CASE UNCHANGED block
  BY <1>2 DEF BlocksKept
<1> QED BY <1>1, <1>2

-----------------------------------------------------------------------------
(***************************************************************************)
(* What a server does with a frame.                                        *)
(***************************************************************************)
LEMMA ServerWires ==
  ASSUME Settled, NEW k \in Conns, NEW t, NEW frames, ServerDoes(k, t, frames)
  PROVE  /\ OthersWait(k) /\ req'[k] = Tail(req[k]) /\ resp'[k] = resp[k] \o frames
         /\ transfers' = [transfers EXCEPT ![server[k]] = t]
<1>1. /\ transfers' = [transfers EXCEPT ![server[k]] = t] /\ req' = [req EXCEPT ![k] = Tail(@)]
      /\ resp' = [resp EXCEPT ![k] = @ \o frames] /\ running' = running
  BY DEF ServerDoes, faultVars
<1>2. DOMAIN req = Conns /\ DOMAIN resp = Conns
  BY DEF Settled
<1> QED BY <1>1, <1>2 DEF OthersWait

LEMMA ServerStatics ==
  ASSUME Settled, NEW k \in Conns
  PROVE  /\ server[k] \in Nodes /\ server[k] \in running /\ DOMAIN transfers = Nodes
         /\ LinesOK(transfers[server[k]])
         /\ DOMAIN block[server[k]] = Lines
         /\ \A i \in Lines : DOMAIN block[server[k]][i] = BlockFields
BY SDOAssumption DEF Settled, LineInvariant, BlocksKept

\* The server of k goes on with parties S, and sends frames.
ServerActs(k, S, frames) == Acts(k, ClientParties(k), S, Tail(req[k]), resp[k] \o frames)

\* One of the server's lines becomes l.
LEMMA ServerTurns ==
  ASSUME Settled, LineInvariant', BlocksKept', NEW k \in Conns, NEW i \in Lines, NEW l,
         NEW frames, ServerDoes(k, [transfers[server[k]] EXCEPT ![i] = l], frames),
         BlocksStay(server[k], i), Belongs(transfers[server[k]][i], k, SERVER),
         Belongs(l, k, SERVER), \A j \in Lines \ {i} : ~OnUse(transfers[server[k]], k, SERVER, j)
  PROVE  ServerActs(k, AParty(l, block'[server[k]][i]), frames)
<1> DEFINE A == AParty(l, block'[server[k]][i])
<1>1. /\ OthersWait(k) /\ req'[k] = Tail(req[k]) /\ resp'[k] = resp[k] \o frames
      /\ transfers' = [transfers EXCEPT ![server[k]] = [transfers[server[k]] EXCEPT ![i] = l]]
  BY ServerWires
<1>2. Turns(server[k], k, SERVER, i, l)
  BY <1>1 DEF Turns
<1>3. Acts(k, IF SERVER = SERVER THEN ClientParties(k) ELSE A,
           IF SERVER = SERVER THEN A ELSE ServerParties(k), req'[k], resp'[k])
  BY <1>1, <1>2, TurnActs
<1> QED BY <1>1, <1>3 DEF ServerActs

\* The line on use goes on with its transfer, with whatever it keeps of a block.
LEMMA ServerContinuesActs ==
  ASSUME Settled, NEW k \in Conns, ServerLine(k) # NoLine, NEW l, NEW frames,
         BlocksKept', GoesOn(transfers[server[k]][ServerLine(k)], l),
         ServerDoes(k, [transfers[server[k]] EXCEPT ![ServerLine(k)] = l], frames),
         BlocksStay(server[k], ServerLine(k))
  PROVE  ServerActs(k, {Party(l, block'[server[k]][ServerLine(k)])}, frames)
<1> DEFINE t == transfers[server[k]]
           i == ServerLine(k)
<1>1. LinesOK(t) /\ SERVER \in {SERVER, CLIENT}
  BY ServerStatics
<1>2. /\ i \in Lines /\ t[i].CliServNbr = k /\ t[i].whoami = SERVER /\ InUse(t[i])
      /\ \A j \in Lines \ {i} : ~OnUse(t, k, SERVER, j)
  BY <1>1, TheParty DEF ServerLine
<1> HIDE DEF i
<1>3. Belongs(t[i], k, SERVER) /\ Belongs(l, k, SERVER) /\ InUse(l)
  BY <1>2, StatesDiffer, BlockStatesDiffer DEF GoesOn, Owned, Belongs, InUse, i
<1>4. Narrows(t, [t EXCEPT ![i] = l])
  BY <1>1, <1>2, KeptNarrows DEF i
<1>5. LineInvariant'
  BY <1>4, ServerDoesKeeps DEF Settled, i
<1>6. AParty(l, block'[server[k]][i]) = {Party(l, block'[server[k]][i])}
  BY <1>3 DEF AParty
<1>7. ServerActs(k, AParty(l, block'[server[k]][i]), frames)
  BY <1>2, <1>3, <1>5, ServerTurns DEF i
<1> QED BY <1>6, <1>7 DEF i

LEMMA ServerContinues ==
  ASSUME Agreed, NEW k \in Conns, ServerLine(k) # NoLine, NEW l, NEW frames,
         BlocksKept', ObjectsHold', GoesOn(transfers[server[k]][ServerLine(k)], l),
         ServerDoes(k, [transfers[server[k]] EXCEPT ![ServerLine(k)] = l], frames),
         BlocksStay(server[k], ServerLine(k)),
         Talk(ClientParties(k), {Party(l, block'[server[k]][ServerLine(k)])},
              Tail(req[k]), resp[k] \o frames)
  PROVE  Agreed'
<1>1. ServerActs(k, {Party(l, block'[server[k]][ServerLine(k)])}, frames)
  BY AgreedIsSettled, ServerContinuesActs
<1> QED BY <1>1, ActsAgree DEF ServerActs

\* The line on use is reset.
LEMMA ServerResetsActs ==
  ASSUME Settled, NEW k \in Conns, ServerLine(k) # NoLine, NEW frames, ForgetsBlocks,
         ServerDoes(k, resetSDOline(transfers[server[k]], ServerLine(k)), frames)
  PROVE  ServerActs(k, {}, frames)
<1> DEFINE t == transfers[server[k]]
           i == ServerLine(k)
<1>1. LinesOK(t) /\ SERVER \in {SERVER, CLIENT} /\ server[k] \in Nodes
  BY ServerStatics
<1>2. /\ i \in Lines /\ t[i].CliServNbr = k /\ t[i].whoami = SERVER
      /\ \A j \in Lines \ {i} : ~OnUse(t, k, SERVER, j)
  BY <1>1, TheParty DEF ServerLine
<1> HIDE DEF i
<1>3. Belongs(t[i], k, SERVER) /\ Belongs(ResetLine, k, SERVER) /\ ~InUse(ResetLine)
  BY <1>2, ResetIsNotInUse DEF Belongs
<1>4. LineInvariant'
  BY <1>1, <1>2, ResetNarrows, ServerDoesKeeps DEF Settled, i
<1>5. /\ transfers' = [transfers EXCEPT ![server[k]] = [t EXCEPT ![i] = ResetLine]]
      /\ ServerDoes(k, [t EXCEPT ![i] = ResetLine], frames)
  BY ServerWires DEF resetSDOline, i
<1>6. BlocksKept' /\ BlocksStay(server[k], i)
  BY <1>1, <1>2, <1>5, OneBlockForgotten DEF Settled
<1>7. AParty(ResetLine, block'[server[k]][i]) = {}
  BY <1>3 DEF AParty
<1>8. ServerActs(k, AParty(ResetLine, block'[server[k]][i]), frames)
  BY <1>2, <1>3, <1>4, <1>5, <1>6, ServerTurns
<1> QED BY <1>7, <1>8

LEMMA ServerResets ==
  ASSUME Agreed, NEW k \in Conns, ServerLine(k) # NoLine, NEW frames, ObjectsHold', ForgetsBlocks,
         ServerDoes(k, resetSDOline(transfers[server[k]], ServerLine(k)), frames),
         Talk(ClientParties(k), {}, Tail(req[k]), resp[k] \o frames)
  PROVE  Agreed'
<1>1. ServerActs(k, {}, frames)
  BY AgreedIsSettled, ServerResetsActs
<1> QED BY <1>1, ActsAgree DEF ServerActs

\* No line changes.
LEMMA ServerStaysActs ==
  ASSUME Settled, NEW k \in Conns, NEW frames, ForgetsBlocks,
         ServerDoes(k, transfers[server[k]], frames)
  PROVE  ServerActs(k, ServerParties(k), frames)
<1>1. LinesOK(transfers[server[k]]) /\ server[k] \in Nodes /\ LineInvariant /\ BlocksKept
  BY ServerStatics DEF Settled
<1>2. LineInvariant'
  BY <1>1, SameNarrows, ServerDoesKeeps
<1>3. /\ OthersWait(k) /\ req'[k] = Tail(req[k]) /\ resp'[k] = resp[k] \o frames
      /\ \A m \in Nodes : transfers'[m] = transfers[m]
  <2>1. DOMAIN transfers = Nodes /\ transfers' = [transfers EXCEPT ![server[k]] = transfers[server[k]]]
    BY <1>1, ServerWires DEF LineInvariant
  <2>2. \A m \in Nodes : transfers'[m] = transfers[m]
    BY <2>1
  <2> QED BY <2>2, ServerWires
<1>4. /\ BlocksKept'
      /\ \A m \in Nodes, j \in Lines :
           transfers[m][j].state = RESET \/ block'[m][j] = block[m][j]
  BY <1>1, <1>3, NoBlockForgotten
<1> QED BY <1>2, <1>3, <1>4, StayActs DEF ServerActs

LEMMA ServerStays ==
  ASSUME Agreed, NEW k \in Conns, NEW frames, ObjectsHold', ForgetsBlocks,
         ServerDoes(k, transfers[server[k]], frames),
         Talk(ClientParties(k), ServerParties(k), Tail(req[k]), resp[k] \o frames)
  PROVE  Agreed'
<1>1. ServerActs(k, ServerParties(k), frames)
  BY AgreedIsSettled, ServerStaysActs
<1> QED BY <1>1, ActsAgree DEF ServerActs

\* failedSDO.
LEMMA ServerGivesUpActs ==
  ASSUME Settled, NEW k \in Conns, NEW frames, ServerFails(k, frames), ForgetsBlocks
  PROVE  ServerActs(k, {}, frames \o <<Abort>>) /\ od' = od /\ served' = served
<1> DEFINE t == transfers[server[k]]
           i == ServerLine(k)
<1>1. /\ ServerDoes(k, Failed(t, k, SERVER), frames \o <<Abort>>) /\ od' = od /\ served' = served
      /\ LinesOK(t) /\ SERVER \in {SERVER, CLIENT}
  BY ServerStatics DEF ServerFails
<1>2. CASE i = NoLine
  <2>1. Failed(t, k, SERVER) = t
    BY <1>2 DEF Failed, ServerLine
  <2>2. ServerParties(k) = {}
    BY <1>1, <1>2, TheParty DEF ServerLine, ServerParties
  <2>3. ServerDoes(k, t, frames \o <<Abort>>)
    BY <1>1, <2>1
  <2>4. ServerActs(k, ServerParties(k), frames \o <<Abort>>)
    BY <2>3, ServerStaysActs
  <2> QED BY <1>1, <2>2, <2>4
<1>3. CASE i # NoLine
  <2>1. Failed(t, k, SERVER) = resetSDOline(t, i)
    BY <1>3 DEF Failed, ServerLine
  <2>2. ServerDoes(k, resetSDOline(t, i), frames \o <<Abort>>)
    BY <1>1, <2>1
  <2> QED BY <1>1, <1>3, <2>2, ServerResetsActs
<1> QED BY <1>2, <1>3

LEMMA ServerGivesUp ==
  ASSUME Agreed, NEW k \in Conns, NEW frames, ServerFails(k, frames), ForgetsBlocks,
         Talk(ClientParties(k), {}, Tail(req[k]), resp[k] \o (frames \o <<Abort>>))
  PROVE  Agreed'
<1>1. ServerActs(k, {}, frames \o <<Abort>>) /\ od' = od
  BY AgreedIsSettled, ServerGivesUpActs
<1>2. ObjectsHold'
  BY <1>1, AgreedIsSettled DEF Settled, ObjectsHold
<1> QED BY <1>1, <1>2, ActsAgree DEF ServerActs

\* A line is opened.
LEMMA ServerBeginsActs ==
  ASSUME Settled, NEW k \in Conns, ~NoLineFor(transfers[server[k]], k), NEW l, NEW frames,
         BlocksKept', DOMAIN l = Fields, l.CliServNbr = k, l.whoami = SERVER,
         l.state \in InProgress, l.timer \in Watchdogs,
         LET i == getSDOfreeLine(transfers[server[k]])
         IN  /\ ServerDoes(k, [transfers[server[k]] EXCEPT ![i] = l], frames)
             /\ BlocksStay(server[k], i)
  PROVE  ServerActs(k, {Party(l, block'[server[k]][getSDOfreeLine(transfers[server[k]])])}, frames)
<1> DEFINE t == transfers[server[k]]
           i == getSDOfreeLine(t)
<1>1. LinesOK(t) /\ server[k] \in running
  BY ServerStatics
<1>2. /\ i \in Lines /\ t[i].state = RESET
      /\ \A j \in Lines : ~OnUse(t, k, SERVER, j)
  BY FreeLineIsFree, LineOnUseIsOnUse DEF NoLineFor
<1>3. Opens(t, [t EXCEPT ![i] = l], k, SERVER)
  BY <1>1, ServerOpens
<1> HIDE DEF i
<1>4. Belongs(t[i], k, SERVER) /\ Belongs(l, k, SERVER) /\ InUse(l)
  BY <1>2, StatesDiffer, BlockStatesDiffer DEF Belongs, InUse
<1>5. LineInvariant'
  BY <1>1, <1>3, ServerDoesKeeps DEF Settled, i
<1>6. AParty(l, block'[server[k]][i]) = {Party(l, block'[server[k]][i])}
  BY <1>4 DEF AParty
<1>7. ServerActs(k, AParty(l, block'[server[k]][i]), frames)
  BY <1>2, <1>4, <1>5, ServerTurns DEF i
<1> QED BY <1>6, <1>7 DEF i

LEMMA ServerBegins ==
  ASSUME Agreed, NEW k \in Conns, ~NoLineFor(transfers[server[k]], k), NEW l, NEW frames,
         BlocksKept', ObjectsHold', DOMAIN l = Fields, l.CliServNbr = k, l.whoami = SERVER,
         l.state \in InProgress, l.timer \in Watchdogs,
         LET i == getSDOfreeLine(transfers[server[k]])
         IN  /\ ServerDoes(k, [transfers[server[k]] EXCEPT ![i] = l], frames)
             /\ BlocksStay(server[k], i)
             /\ Talk(ClientParties(k), {Party(l, block'[server[k]][i])},
                     Tail(req[k]), resp[k] \o frames)
  PROVE  Agreed'
<1>1. ServerActs(k, {Party(l, block'[server[k]][getSDOfreeLine(transfers[server[k]])])}, frames)
  BY AgreedIsSettled, ServerBeginsActs
<1> QED BY <1>1, ActsAgree DEF ServerActs

\* Frames that are put behind others.
LEMMA NothingBehind ==
  ASSUME NEW w, IsSequence(w)
  PROVE  <<>> \o w = w /\ w \o <<>> = w
<1>1. PICK X : w \in Seq(X)
  BY DEF IsSequence
<1> QED BY <1>1

LEMMA OneBehindOther ==
  ASSUME NEW a, NEW f
  PROVE  <<a>> \o <<f>> = <<a, f>> /\ <<>> \o <<a>> = <<a>>
<1>1. <<a>> \o <<f>> = Append(<<a>>, f)
  OBVIOUS
<1>2. IsSequence(<<a>>)
  <2>1. <<a>> \in Seq({a})
    OBVIOUS
  <2> QED BY <2>1 DEF IsSequence
<1>3. <<>> \o <<a>> = <<a>>
  BY <1>2, NothingBehind
<1> QED BY <1>1, <1>3, AppendToOne

LEMMA TalkInSequences ==
  ASSUME NEW C, NEW S, NEW q, NEW p, Talk(C, S, q, p)
  PROVE  IsSequence(q) /\ IsSequence(p)
<1>1. \A m, x : IsSequence(<<>>) /\ IsSequence(<<m>>) /\ IsSequence(<<m, x>>)
  <2> TAKE m, x
  <2>1. <<>> \in Seq({m, x}) /\ <<m>> \in Seq({m, x}) /\ <<m, x>> \in Seq({m, x})
    OBVIOUS
  <2> QED BY <2>1 DEF IsSequence
<1>2. CASE Quiet(C, S, q, p)
  BY <1>1, <1>2 DEF Quiet
<1>3. CASE GivenUp(C, S, q, p)
  BY <1>1, <1>3 DEF GivenUp
<1>4. ASSUME NEW c, Asks(c, S, q, p) \/ Answers(c, S, q, p) PROVE IsSequence(q) /\ IsSequence(p)
  BY <1>1, <1>4 DEF Asks, Answers
<1>5. ASSUME NEW c, NEW s, BlockDownloads(c, s, q, p) \/ BlockUploads(c, s, q, p)
      PROVE  IsSequence(q) /\ IsSequence(p)
  BY <1>1, <1>5 DEF BlockDownloads, BlockUploads, Streaming
<1> QED BY <1>2, <1>3, <1>4, <1>5 DEF Talk

\* The server's line on use is its party.
LEMMA ServerSees ==
  ASSUME Settled, NEW k \in Conns
  PROVE  LET i == ServerLine(k)
             l == transfers[server[k]][i]
             b == block[server[k]][i]
         IN  /\ i = NoLine => ServerParties(k) = {}
             /\ i # NoLine => /\ ServerParties(k) = {Party(l, b)}
                              /\ i \in Lines /\ DOMAIN l = Fields /\ DOMAIN b = BlockFields
                              /\ l.CliServNbr = k /\ l.whoami = SERVER
<1>1. /\ LinesOK(transfers[server[k]]) /\ SERVER \in {SERVER, CLIENT}
      /\ \A i \in Lines : DOMAIN block[server[k]][i] = BlockFields
  BY ServerStatics
<1> QED BY <1>1, TheParty DEF ServerLine, ServerParties

\* Whether a line is in the state asked for is seen from the parties.
LEMMA ServerIsAt ==
  ASSUME Settled, NEW k \in Conns, NEW state
  PROVE  Started(transfers[server[k]], k, SERVER, state) <=>
           \E s : ServerParties(k) = {s} /\ s.state = state
<1> DEFINE i == ServerLine(k)
           l == transfers[server[k]][i]
           b == block[server[k]][i]
<1>1. Started(transfers[server[k]], k, SERVER, state) <=> i # NoLine /\ l.state = state
  BY DEF Started, ServerLine
<1>2. Party(l, b).state = l.state
  BY PartyIsSeen
<1>3. /\ i = NoLine => ServerParties(k) = {}
      /\ i # NoLine => ServerParties(k) = {Party(l, b)}
  BY ServerSees
<1> HIDE DEF i, l, b
<1> QED BY <1>1, <1>2, <1>3

LEMMA ObjectsStay ==
  ASSUME Settled, od' = od
  PROVE  ObjectsHold'
BY DEF Settled, ObjectsHold

\* Which handler takes a frame.
LEMMA ServerHandlers ==
  ASSUME NEW k \in Conns, ServerDispatches(k)
  PROVE  LET cs == IF ServerReadsData(k) THEN 6 ELSE Head(req[k]).cs
             plain == ~ServerReadsData(k) /\ ForgetsBlocks
         IN  \/ cs = 1 /\ plain /\ ServerInitiateDownload(k)
             \/ cs = 0 /\ plain /\ ServerDownloadSegment(k)
             \/ cs = 2 /\ plain /\ ServerInitiateUpload(k)
             \/ cs = 3 /\ plain /\ ServerUploadSegment(k)
             \/ cs = 4 /\ plain /\ ServerAbort(k)
             \/ cs = 5 /\ Head(req[k]).sub = INITIATE /\ ServerInitiateBlockUpload(k)
             \/ cs = 5 /\ Head(req[k]).sub # INITIATE /\ ServerBlockUpload(k)
             \/ cs = 6 /\ ServerLine(k) = NoLine /\ ServerInitiateBlockDownload(k)
             \/ cs = 6 /\ ServerLine(k) # NoLine /\ ServerBlockDownload(k)
<1> DEFINE cs == IF ServerReadsData(k) THEN 6 ELSE Head(req[k]).cs
<1>1. ServerInitiateDownload(k) => ServerGets(k, 1)
  BY DEF ServerInitiateDownload
<1>2. ServerDownloadSegment(k) => ServerGets(k, 0)
  BY DEF ServerDownloadSegment
<1>3. ServerInitiateUpload(k) => ServerGets(k, 2)
  BY DEF ServerInitiateUpload
<1>4. ServerUploadSegment(k) => ServerGets(k, 3)
  BY DEF ServerUploadSegment
<1>5. ServerAbort(k) => ServerGets(k, 4)
  BY DEF ServerAbort
<1>6. ServerInitiateBlockUpload(k) => ServerGetsBlock(k, 5) /\ Head(req[k]).sub = INITIATE
  BY DEF ServerInitiateBlockUpload
<1>7. ServerBlockUpload(k) => ServerGetsBlock(k, 5) /\ Head(req[k]).sub # INITIATE
  BY DEF ServerBlockUpload
<1>8. ServerInitiateBlockDownload(k) => ServerGetsBlock(k, 6) /\ ServerLine(k) = NoLine
  BY DEF ServerInitiateBlockDownload
<1>9. ServerBlockDownload(k) => ServerGetsBlock(k, 6) /\ ServerLine(k) # NoLine
  BY DEF ServerBlockDownload
<1>10. \A x : (ServerGetsBlock(k, x) => cs = x) /\ (ServerGets(k, x) => Head(req[k]).cs = x)
  BY DEF ServerGetsBlock, ServerGets
<1>11. ~ServerReadsData(k) => cs = Head(req[k]).cs
  OBVIOUS
<1> HIDE DEF cs
<1> QED BY <1>1, <1>2, <1>3, <1>4, <1>5, <1>6, <1>7, <1>8, <1>9, <1>10, <1>11
        DEF ServerDispatches, ServerHandles, cs

\* ServerBlockUpload, case by case.
LEMMA ServerUploadCases ==
  ASSUME NEW k \in Conns, ServerBlockUpload(k),
         Started(transfers[server[k]], k, SERVER, BLOCK_UPLOAD)
  PROVE  LET m == Head(req[k])
             t == transfers[server[k]]
             i == ServerLine(k)
             l == RestartTimer(t[i])
             b == block[server[k]][i]
         IN  /\ m.sub = END => /\ ServerDoes(k, resetSDOline(t, i), <<>>)
                               /\ ForgetsBlocks /\ od' = od /\ served' = served
             /\ m.sub = START_UPLOAD => ServerGoesOn(k, i, AfterBlock(l, b, b.blksize))
             /\ m.sub = RESPONSE =>
                  IF BadAckSeq(l, b, m) THEN ServerBlockFails(k)
                  ELSE ServerGoesOn(k, i, Acknowledged(l, b, m, Block(6, END)))
<1> DEFINE m == Head(req[k])
           t == transfers[server[k]]
           i == ServerLine(k)
           l == RestartTimer(t[i])
           b == block[server[k]][i]
           ends == /\ ServerDoes(k, EndUpload(t, i), <<>>)
                   /\ ForgetsBlocks
                   /\ UNCHANGED <<od, served>>
           starts == ServerGoesOn(k, i, AfterBlock(l, b, b.blksize))
           goes == IF BadAckSeq(l, b, m) THEN ServerBlockFails(k)
                   ELSE ServerGoesOn(k, i, Acknowledged(l, b, m, Block(6, END)))
<1>1. (m.sub = END /\ ends) \/ (m.sub = START_UPLOAD /\ starts) \/ (m.sub = RESPONSE /\ goes)
  BY DEF ServerBlockUpload
<1>2. END # START_UPLOAD /\ END # RESPONSE /\ START_UPLOAD # RESPONSE
  BY FramesDiffer
<1> HIDE DEF m, ends, starts, goes
<1>3. (m.sub = END => ends) /\ (m.sub = START_UPLOAD => starts) /\ (m.sub = RESPONSE => goes)
  BY <1>1, <1>2
<1> QED BY <1>3 DEF m, ends, starts, goes, EndUpload

\* A frame that closes the server's line does.
LEMMA ServerClosesAgrees ==
  ASSUME Agreed, NEW k \in Conns, ServerDispatches(k),
         ServerCloses(ClientParties(k), ServerParties(k), req[k], resp[k])
  PROVE  Agreed'
<1> DEFINE t == transfers[server[k]]
           i == ServerLine(k)
           m == Head(req[k])
           S == ServerParties(k)
<1>1. Closes(m, S) /\ Talk(ClientParties(k), {}, Tail(req[k]), resp[k])
  BY DEF ServerCloses
<1>2. Talk(ClientParties(k), {}, Tail(req[k]), resp[k] \o <<>>)
  BY <1>1, TalkInSequences, NothingBehind
<1>3. CASE m = Abort
  <2>1. ~ServerReadsData(k) /\ m.cs = 4
    BY <1>3, FramesDiffer DEF ServerReadsData
  <2>2. ServerAbort(k) /\ ForgetsBlocks
    BY <2>1, ServerHandlers
  <2>3. ObjectsHold'
    BY <2>2, AgreedIsSettled, ObjectsStay DEF ServerAbort
  <2>4. CASE i = NoLine
    <3>1. ServerDoes(k, t, <<>>)
      BY <2>2, <2>4 DEF ServerAbort, ServerLine
    <3>2. S = {}
      BY <2>4, AgreedIsSettled, ServerSees
    <3> QED BY <1>2, <2>2, <2>3, <3>1, <3>2, ServerStays
  <2>5. CASE i # NoLine
    <3>1. ServerDoes(k, resetSDOline(t, i), <<>>)
      BY <2>2, <2>5 DEF ServerAbort, ServerLine
    <3> QED BY <1>2, <2>2, <2>3, <2>5, <3>1, ServerResets
  <2> QED BY <2>4, <2>5
<1>4. CASE m = Block(5, END) /\ S # {} /\ \A s \in S : s.state = BLOCK_UPLOAD
  <2>1. i # NoLine /\ Started(t, k, SERVER, BLOCK_UPLOAD)
    <3>1. i # NoLine
      BY <1>4, AgreedIsSettled, ServerSees
    <3>2. \E s : S = {s} /\ s.state = BLOCK_UPLOAD
      BY <1>4, <3>1, AgreedIsSettled, ServerSees
    <3> QED BY <3>1, <3>2, AgreedIsSettled, ServerIsAt
  <2>2. ~ServerReadsData(k) /\ m.cs = 5 /\ m.sub = END /\ m.sub # INITIATE
    <3>1. ~Started(t, k, SERVER, BLOCK_DOWNLOAD)
      BY <2>1, BlockStatesDiffer DEF Started
    <3> QED BY <1>4, <3>1, FramesDiffer DEF ServerReadsData
  <2>3. ServerBlockUpload(k)
    BY <2>2, ServerHandlers
  <2>4. ServerDoes(k, resetSDOline(t, i), <<>>) /\ ForgetsBlocks /\ od' = od
    <3>1. m.sub # START_UPLOAD /\ m.sub # RESPONSE
      BY <2>2, FramesDiffer
    <3> QED BY <2>1, <2>2, <2>3, ServerUploadCases
  <2> QED BY <1>2, <2>1, <2>4, AgreedIsSettled, ObjectsStay, ServerResets
<1> QED BY <1>1, <1>3, <1>4 DEF Closes

\* A server that fails on the last frame tells a client that has not been answered.
LEMMA ServerFailsAgrees ==
  ASSUME Agreed, NEW k \in Conns, ServerFails(k, <<>>), ForgetsBlocks,
         Tail(req[k]) = <<>>, resp[k] = <<>>
  PROVE  Agreed'
<1>1. <<>> \o (<<>> \o <<Abort>>) = <<Abort>>
  BY OneBehindOther
<1>2. GivenUp(ClientParties(k), {}, <<>>, <<Abort>>)
  BY DEF GivenUp
<1>3. Talk(ClientParties(k), {}, Tail(req[k]), resp[k] \o (<<>> \o <<Abort>>))
  BY <1>1, <1>2 DEF Talk
<1> QED BY <1>3, ServerGivesUp

\* An answer to client c alone.
LEMMA ServerAnswersTalk ==
  ASSUME NEW k \in Conns, NEW c, ClientParties(k) = {c}, Tail(req[k]) = <<>>, resp[k] = <<>>,
         NEW f, NEW S,
         \/ AnswersPlain(f, c, S)
         \/ S = {} /\ ConfirmsAll(f, c)
         \/ \E s : S = {s} /\ (BlockDownloads(c, s, <<>>, <<f>>) \/ BlockUploads(c, s, <<>>, <<f>>))
  PROVE  Talk(ClientParties(k), S, Tail(req[k]), resp[k] \o <<f>>)
<1>1. resp[k] \o <<f>> = <<f>>
  BY OneBehindOther
<1>2. Talk({c}, S, <<>>, <<f>>)
  BY DEF Talk, Answers
<1> QED BY <1>1, <1>2

\* The request for a plain download.
LEMMA ServerDownloadAsked ==
  ASSUME Agreed, NEW k \in Conns, ServerInitiateDownload(k), ForgetsBlocks,
         Tail(req[k]) = <<>>, resp[k] = <<>>, ServerParties(k) = {},
         NEW c, ClientParties(k) = {c}, Head(req[k]).cs = 1, Requests(Head(req[k]), c)
  PROVE  Agreed'
<1> DEFINE t == transfers[server[k]]
           m == Head(req[k])
           i == getSDOfreeLine(t)
           f == [Frame(3) EXCEPT !.index = m.index]
           l(w) == [InitLine(SERVER, k, m.index, DOWNLOAD, w) EXCEPT !.count = m.n]
<1>1. c.state = DOWNLOAD /\ Produces(c) /\ (m.last <=> c.offset = c.count)
  BY DEF Requests
<1>2. f.cs = 3
  BY DEF Frame
<1> HIDE DEF f
<1>3. \/ ServerFails(k, <<>>)
      \/ /\ m.last /\ ServerDoes(k, t, <<f>>) /\ \E v \in Stored : Stores(k, m.index, v)
      \/ /\ ~m.last /\ ~NoLineFor(t, k) /\ od' = od
         /\ \E w \in Watchdogs : ServerDoes(k, [t EXCEPT ![i] = l(w)], <<f>>)
  BY AssembledIsStored DEF ServerInitiateDownload, f
<1>4. CASE ServerFails(k, <<>>)
  BY <1>4, ServerFailsAgrees
<1>5. CASE m.last /\ ServerDoes(k, t, <<f>>) /\ \E v \in Stored : Stores(k, m.index, v)
  <2>1. AnswersPlain(f, c, {})
    BY <1>1, <1>2 DEF AnswersPlain
  <2>2. Talk(ClientParties(k), ServerParties(k), Tail(req[k]), resp[k] \o <<f>>)
    BY <2>1, ServerAnswersTalk
  <2>3. ObjectsHold'
    BY <1>5, StoresHold DEF Agreed, Settled
  <2> QED BY <1>5, <2>2, <2>3, ServerStays
<1>6. CASE /\ ~m.last /\ ~NoLineFor(t, k) /\ od' = od
           /\ \E w \in Watchdogs : ServerDoes(k, [t EXCEPT ![i] = l(w)], <<f>>)
  <2>1. PICK w \in Watchdogs : ServerDoes(k, [t EXCEPT ![i] = l(w)], <<f>>)
    BY <1>6
  <2> DEFINE d == l(w)
  <2>2. /\ DOMAIN d = Fields /\ d.CliServNbr = k /\ d.whoami = SERVER /\ d.state = DOWNLOAD
        /\ d.timer = w
    BY DEF InitLine, ResetLine, Fields
  <2> HIDE DEF l, d
  <2>3. i \in Lines /\ server[k] \in Nodes /\ ServerDoes(k, [t EXCEPT ![i] = d], <<f>>)
    BY <1>6, <2>1, FreeLineIsFree, AgreedIsSettled, PartiesTalk, ServerStatics DEF NoLineFor, d
  <2>4. BlocksKept' /\ BlocksStay(server[k], i)
    <3>1. transfers' = [transfers EXCEPT ![server[k]] = [t EXCEPT ![i] = d]]
      BY <2>3, AgreedIsSettled, ServerWires
    <3> HIDE DEF i
    <3> QED BY <2>3, <3>1, OneBlockForgotten DEF Agreed, Settled
  <2>5. AnswersPlain(f, c, {Party(d, block'[server[k]][i])})
    BY <1>1, <1>2, <1>6, <2>2, PartyIsSeen DEF AnswersPlain
  <2>6. Talk(ClientParties(k), {Party(d, block'[server[k]][i])}, Tail(req[k]), resp[k] \o <<f>>)
    BY <2>5, ServerAnswersTalk
  <2>7. d.state \in InProgress /\ ObjectsHold'
    BY <1>6, <2>2, StatesDiffer, AgreedIsSettled, ObjectsStay
  <2> QED BY <1>6, <2>2, <2>3, <2>4, <2>6, <2>7, ServerBegins
<1> QED BY <1>3, <1>4, <1>5, <1>6

\* What a server has in an object, it can send.
LEMMA ObjectHasSize ==
  ASSUME Agreed, NEW k \in Conns, NEW index \in Indexes
  PROVE  Size[od[server[k]][index]] \in Nat \ {0}
<1>1. od[server[k]][index] \in Stored
  BY SDOAssumption DEF Agreed, Settled, ObjectsHold
<1> QED BY <1>1, LineAssumption DEF Stored

\* The request for a plain upload.
LEMMA ServerUploadAsked ==
  ASSUME Agreed, NEW k \in Conns, ServerInitiateUpload(k), ForgetsBlocks,
         Tail(req[k]) = <<>>, resp[k] = <<>>, ServerParties(k) = {},
         NEW c, ClientParties(k) = {c}, Head(req[k]).cs = 2, Requests(Head(req[k]), c)
  PROVE  Agreed'
<1> DEFINE t == transfers[server[k]]
           m == Head(req[k])
           i == getSDOfreeLine(t)
           v == od[server[k]][m.index]
           f == [Frame(2) EXCEPT !.index = m.index, !.last = Size[v] <= EXPEDITED, !.n = Size[v],
                                 !.data = IF Size[v] <= EXPEDITED THEN v ELSE Nothing]
           l(w) == [InitLine(SERVER, k, m.index, UPLOAD, w) EXCEPT !.count = Size[v], !.data = v]
<1>1. c.state = UPLOAD
  BY DEF Requests
<1>2. f.cs = 2 /\ (f.last <=> Size[v] <= EXPEDITED)
  BY DEF Frame
<1> HIDE DEF f
<1>3. \/ ServerFails(k, <<>>)
      \/ f.last /\ ServerDoes(k, t, <<f>>) /\ od' = od
      \/ /\ ~f.last /\ ~NoLineFor(t, k) /\ od' = od
         /\ \E w \in Watchdogs : ServerDoes(k, [t EXCEPT ![i] = l(w)], <<f>>)
  BY <1>2 DEF ServerInitiateUpload, f
<1>4. CASE ServerFails(k, <<>>)
  BY <1>4, ServerFailsAgrees
<1>5. CASE f.last /\ ServerDoes(k, t, <<f>>) /\ od' = od
  <2>1. AnswersPlain(f, c, {})
    BY <1>1, <1>2 DEF AnswersPlain
  <2>2. Talk(ClientParties(k), ServerParties(k), Tail(req[k]), resp[k] \o <<f>>)
    BY <2>1, ServerAnswersTalk
  <2> QED BY <1>5, <2>2, AgreedIsSettled, ObjectsStay, ServerStays
<1>6. CASE /\ ~f.last /\ ~NoLineFor(t, k) /\ od' = od
           /\ \E w \in Watchdogs : ServerDoes(k, [t EXCEPT ![i] = l(w)], <<f>>)
  <2>1. PICK w \in Watchdogs : ServerDoes(k, [t EXCEPT ![i] = l(w)], <<f>>)
    BY <1>6
  <2> DEFINE d == l(w)
  <2>2. /\ DOMAIN d = Fields /\ d.CliServNbr = k /\ d.whoami = SERVER /\ d.state = UPLOAD
        /\ d.timer = w
    BY DEF InitLine, ResetLine, Fields
  <2> HIDE DEF l, d
  <2>3. i \in Lines /\ server[k] \in Nodes /\ ServerDoes(k, [t EXCEPT ![i] = d], <<f>>)
    BY <1>6, <2>1, FreeLineIsFree, AgreedIsSettled, PartiesTalk, ServerStatics DEF NoLineFor, d
  <2>4. BlocksKept' /\ BlocksStay(server[k], i)
    <3>1. transfers' = [transfers EXCEPT ![server[k]] = [t EXCEPT ![i] = d]]
      BY <2>3, AgreedIsSettled, ServerWires
    <3> HIDE DEF i
    <3> QED BY <2>3, <3>1, OneBlockForgotten DEF Agreed, Settled
  <2>5. AnswersPlain(f, c, {Party(d, block'[server[k]][i])})
    BY <1>1, <1>2, <1>6, <2>2, PartyIsSeen DEF AnswersPlain
  <2>6. Talk(ClientParties(k), {Party(d, block'[server[k]][i])}, Tail(req[k]), resp[k] \o <<f>>)
    BY <2>5, ServerAnswersTalk
  <2>7. d.state \in InProgress /\ ObjectsHold'
    BY <1>6, <2>2, StatesDiffer, AgreedIsSettled, ObjectsStay
  <2> QED BY <1>6, <2>2, <2>3, <2>4, <2>6, <2>7, ServerBegins
<1> QED BY <1>3, <1>4, <1>5, <1>6

\* The request for an upload in blocks.
LEMMA ServerBlockUploadAsked ==
  ASSUME Agreed, NEW k \in Conns, ServerInitiateBlockUpload(k),
         Tail(req[k]) = <<>>, resp[k] = <<>>, ServerParties(k) = {},
         NEW c, ClientParties(k) = {c}, Head(req[k]).cs = 5, Requests(Head(req[k]), c)
  PROVE  Agreed'
<1> DEFINE t == transfers[server[k]]
           m == Head(req[k])
           i == getSDOfreeLine(t)
           v == od[server[k]][m.index]
           f == [Block(6, INITIATE) EXCEPT !.index = m.index, !.n = Size[v]]
           b == [NoBlock EXCEPT !.blksize = m.n, !.objsize = Size[v]]
           l(w) == [InitLine(SERVER, k, m.index, BLOCK_UPLOAD, w)
                    EXCEPT !.count = Size[v], !.data = v]
<1>1. /\ m.n = SDO_BLOCK_SIZE /\ m.index \in Indexes
      /\ c.state = BLOCK_UPLOAD /\ c.rxstep = RXSTEP_INIT /\ c.offset = 0 /\ c.seqno = 0
  BY DEF Requests
<1>2. f.cs = 6 /\ f.sub = INITIATE
  BY DEF Block, Frame
<1>3. DOMAIN b = BlockFields /\ b.blksize = SDO_BLOCK_SIZE
  BY <1>1 DEF NoBlock, BlockFields
<1> HIDE DEF f, b
<1>4. \/ ServerFails(k, <<>>) /\ ForgetsBlocks
      \/ /\ ~NoLineFor(t, k) /\ od' = od /\ ~(Size[v] > SDO_MAX_LENGTH_TRANSFER)
         /\ block' = [block EXCEPT ![server[k]][i] = b]
         /\ \E w \in Watchdogs : ServerDoes(k, [t EXCEPT ![i] = l(w)], <<f>>)
  BY DEF ServerInitiateBlockUpload, ServerBlockFails, f, b
<1>5. CASE ServerFails(k, <<>>) /\ ForgetsBlocks
  BY <1>5, ServerFailsAgrees
<1>6. CASE /\ ~NoLineFor(t, k) /\ od' = od /\ ~(Size[v] > SDO_MAX_LENGTH_TRANSFER)
           /\ block' = [block EXCEPT ![server[k]][i] = b]
           /\ \E w \in Watchdogs : ServerDoes(k, [t EXCEPT ![i] = l(w)], <<f>>)
  <2>1. PICK w \in Watchdogs : ServerDoes(k, [t EXCEPT ![i] = l(w)], <<f>>)
    BY <1>6
  <2> DEFINE d == l(w)
             s == Party(d, b)
  <2>2. /\ DOMAIN d = Fields /\ d.CliServNbr = k /\ d.whoami = SERVER /\ d.state = BLOCK_UPLOAD
        /\ d.timer = w /\ d.count = Size[v] /\ d.offset = 0
    BY DEF InitLine, ResetLine, Fields
  <2> HIDE DEF l, d
  <2>3. i \in Lines /\ server[k] \in Nodes /\ ServerDoes(k, [t EXCEPT ![i] = d], <<f>>)
    BY <1>6, <2>1, FreeLineIsFree, AgreedIsSettled, PartiesTalk, ServerStatics DEF NoLineFor, d
  <2>4. BlocksKept' /\ BlocksStay(server[k], i) /\ block'[server[k]][i] = b
    <3> HIDE DEF i
    <3> QED BY <1>3, <1>6, <2>3, BlockChanges DEF Agreed, Settled
  <2>5. Produces(s) /\ s.offset = 0 /\ s.blksize = SDO_BLOCK_SIZE /\ s.state = BLOCK_UPLOAD
    <3>1. Size[v] \in 1 .. SDO_MAX_LENGTH_TRANSFER
      BY <1>1, <1>6, ObjectHasSize, LineAssumption
    <3>2. s.state = d.state /\ s.count = d.count /\ s.offset = d.offset /\ s.blksize = b.blksize
      BY PartyIsSeen
    <3> HIDE DEF s
    <3> QED BY <1>3, <2>2, <3>1, <3>2 DEF Produces
  <2> HIDE DEF s
  <2>6. BlockUploads(c, s, <<>>, <<f>>)
    BY <1>1, <1>2, <2>5 DEF BlockUploads
  <2>7. Talk(ClientParties(k), {s}, Tail(req[k]), resp[k] \o <<f>>)
    BY <2>6, ServerAnswersTalk
  <2>8. Talk(ClientParties(k), {Party(d, block'[server[k]][i])}, Tail(req[k]), resp[k] \o <<f>>)
    BY <2>4, <2>7 DEF s
  <2>9. d.state \in InProgress /\ ObjectsHold'
    BY <1>6, <2>2, BlockStatesDiffer, AgreedIsSettled, ObjectsStay
  <2> QED BY <1>6, <2>2, <2>3, <2>4, <2>8, <2>9, ServerBegins
<1> QED BY <1>4, <1>5, <1>6

\* The request for a download in blocks.
LEMMA ServerBlockDownloadAsked ==
  ASSUME Agreed, NEW k \in Conns, ServerInitiateBlockDownload(k), ServerLine(k) = NoLine,
         Tail(req[k]) = <<>>, resp[k] = <<>>, ServerParties(k) = {},
         NEW c, ClientParties(k) = {c}, Head(req[k]).cs = 6, Requests(Head(req[k]), c)
  PROVE  Agreed'
<1> DEFINE t == transfers[server[k]]
           m == Head(req[k])
           i == getSDOfreeLine(t)
           f == [Block(5, INITIATE) EXCEPT !.index = m.index, !.n = SDO_BLOCK_SIZE]
           b == [NoBlock EXCEPT !.rxstep = RXSTEP_STARTED, !.objsize = m.n]
           l(w) == InitLine(SERVER, k, m.index, BLOCK_DOWNLOAD, w)
           r(w) == [line |-> l(w), block |-> b, frames |-> <<f>>]
<1>1. c.state = BLOCK_DOWNLOAD /\ Produces(c) /\ c.offset = 0
  BY DEF Requests
<1>2. f.cs = 5 /\ f.sub = INITIATE /\ f.n = SDO_BLOCK_SIZE
  BY DEF Block, Frame
<1>3. DOMAIN b = BlockFields /\ b.rxstep = RXSTEP_STARTED /\ b.seqno = 0
  BY DEF NoBlock, BlockFields
<1>4. ServerLine(k) = NoLine => (NoLineFor(t, k) <=> i = NoLine)
  BY DEF NoLineFor, ServerLine
<1> HIDE DEF f, b
<1>5. \/ ServerFails(k, <<>>) /\ ForgetsBlocks
      \/ i # NoLine /\ \E w \in Watchdogs : ServerGoesOn(k, i, r(w))
  BY DEF ServerInitiateBlockDownload, ServerBlockFails, f, b
<1>6. CASE ServerFails(k, <<>>) /\ ForgetsBlocks
  BY <1>6, ServerFailsAgrees
<1>7. CASE i # NoLine /\ \E w \in Watchdogs : ServerGoesOn(k, i, r(w))
  <2>1. PICK w \in Watchdogs : ServerGoesOn(k, i, r(w))
    BY <1>7
  <2> DEFINE d == l(w)
             s == Party(d, b)
  <2>2. /\ ServerDoes(k, [t EXCEPT ![i] = d], <<f>>) /\ od' = od
        /\ block' = [block EXCEPT ![server[k]][i] = b]
    BY <2>1 DEF ServerGoesOn
  <2>3. /\ DOMAIN d = Fields /\ d.CliServNbr = k /\ d.whoami = SERVER /\ d.state = BLOCK_DOWNLOAD
        /\ d.timer = w /\ d.offset = 0
    BY DEF InitLine, ResetLine, Fields
  <2> HIDE DEF l, d
  <2>4. i \in Lines /\ server[k] \in Nodes /\ ~NoLineFor(t, k)
    BY <1>4, <1>7, FreeLineIsFree, AgreedIsSettled, PartiesTalk, ServerStatics
  <2>5. BlocksKept' /\ BlocksStay(server[k], i) /\ block'[server[k]][i] = b
    <3> HIDE DEF i
    <3> QED BY <1>3, <2>2, <2>4, BlockChanges DEF Agreed, Settled
  <2>6. /\ s.state = BLOCK_DOWNLOAD /\ s.offset = 0 /\ s.rxstep = RXSTEP_STARTED /\ s.seqno = 0
    BY <1>3, <2>3, PartyIsSeen
  <2> HIDE DEF s
  <2>7. Ready(c, s)
    BY <1>1, <2>6 DEF Ready, Produces
  <2>8. BlockDownloads(c, s, <<>>, <<f>>)
    BY <1>1, <1>2, <2>6, <2>7 DEF BlockDownloads
  <2>9. Talk(ClientParties(k), {s}, Tail(req[k]), resp[k] \o <<f>>)
    BY <2>8, ServerAnswersTalk
  <2>10. Talk(ClientParties(k), {Party(d, block'[server[k]][i])}, Tail(req[k]), resp[k] \o <<f>>)
    BY <2>5, <2>9 DEF s
  <2>11. d.state \in InProgress /\ ObjectsHold'
    BY <2>2, <2>3, BlockStatesDiffer, AgreedIsSettled, ObjectsStay
  <2> QED BY <2>2, <2>3, <2>4, <2>5, <2>10, <2>11, ServerBegins
<1> QED BY <1>5, <1>6, <1>7

\* The bytes of a segment leave a line its transfer.
LEMMA TakenGoesOn ==
  ASSUME NEW l, DOMAIN l = Fields, l.state \in InProgress, NEW m, NEW toggle
  PROVE  LET d == [SDOtoLine(RestartTimer(l), m) EXCEPT !.toggle = toggle]
         IN  GoesOn(l, d) /\ d.state = l.state
BY DEF GoesOn, Owned, SDOtoLine, RestartTimer, Fields

LEMMA SentGoesOn ==
  ASSUME NEW l, DOMAIN l = Fields, l.state \in InProgress, NEW n, NEW toggle
  PROVE  LET d == [lineToSDO(RestartTimer(l), n) EXCEPT !.toggle = toggle]
         IN  /\ GoesOn(l, d) /\ d.state = l.state /\ d.count = l.count
             /\ d.offset = l.offset + n
BY DEF GoesOn, Owned, lineToSDO, RestartTimer, Fields

\* A step on the line on use of a plain transfer.
LEMMA ServerGoesOnPlain ==
  ASSUME Agreed, NEW k \in Conns, ServerLine(k) # NoLine, NEW l, NEW f, ObjectsHold', ForgetsBlocks,
         GoesOn(transfers[server[k]][ServerLine(k)], l),
         ServerDoes(k, [transfers[server[k]] EXCEPT ![ServerLine(k)] = l], <<f>>),
         Tail(req[k]) = <<>>, resp[k] = <<>>, NEW c, ClientParties(k) = {c},
         \A s : s.state = l.state => AnswersPlain(f, c, {s})
  PROVE  Agreed'
<1> DEFINE i == ServerLine(k)
<1>1. i \in Lines /\ server[k] \in Nodes
  BY AgreedIsSettled, ServerSees, PartiesTalk, ServerStatics
<1>2. transfers' = [transfers EXCEPT ![server[k]] = [transfers[server[k]] EXCEPT ![i] = l]]
  BY AgreedIsSettled, ServerWires
<1> HIDE DEF i
<1>3. BlocksKept' /\ BlocksStay(server[k], i)
  BY <1>1, <1>2, OneBlockForgotten DEF Agreed, Settled
<1>4. AnswersPlain(f, c, {Party(l, block'[server[k]][i])})
  BY PartyIsSeen
<1>5. Talk(ClientParties(k), {Party(l, block'[server[k]][i])}, Tail(req[k]), resp[k] \o <<f>>)
  BY <1>4, ServerAnswersTalk
<1> QED BY <1>3, <1>5, ServerContinues DEF i

\* The server answers that it has all and then fails.
LEMMA ServerConfirmsAndFails ==
  ASSUME Agreed, NEW k \in Conns, NEW f, ServerFails(k, <<f>>), ForgetsBlocks,
         Tail(req[k]) = <<>>, resp[k] = <<>>, NEW c, ClientParties(k) = {c}, ConfirmsAll(f, c)
  PROVE  Agreed'
<1>1. <<>> \o (<<f>> \o <<Abort>>) = <<f, Abort>>
  <2> DEFINE w == <<f, Abort>>
  <2>1. w \in Seq({f, Abort})
    OBVIOUS
  <2>2. IsSequence(w)
    BY <2>1 DEF IsSequence
  <2>3. <<>> \o w = w
    BY <2>2, NothingBehind
  <2>4. <<f>> \o <<Abort>> = w
    BY OneBehindOther
  <2> HIDE DEF w
  <2> QED BY <2>3, <2>4 DEF w
<1>2. Answers(c, {}, <<>>, <<f, Abort>>)
  BY DEF Answers
<1>3. Talk(ClientParties(k), {}, Tail(req[k]), resp[k] \o (<<f>> \o <<Abort>>))
  BY <1>1, <1>2 DEF Talk
<1> QED BY <1>3, ServerGivesUp

\* A segment of a plain download.
LEMMA ServerSegmentGot ==
  ASSUME Agreed, NEW k \in Conns, ServerDownloadSegment(k), ForgetsBlocks,
         Tail(req[k]) = <<>>, resp[k] = <<>>, NEW c, ClientParties(k) = {c},
         Head(req[k]).cs = 0, AsksPlain(Head(req[k]), c, ServerParties(k))
  PROVE  Agreed'
<1> DEFINE t == transfers[server[k]]
           m == Head(req[k])
           i == ServerLine(k)
           f == [Frame(1) EXCEPT !.toggle = m.toggle]
           d == [SDOtoLine(RestartTimer(t[i]), m) EXCEPT !.toggle = Inverted(t[i].toggle)]
<1>1. c.state = DOWNLOAD /\ Produces(c) /\ (m.last <=> c.offset = c.count)
  BY DEF AsksPlain
<1>2. f.cs = 1
  BY DEF Frame
<1> HIDE DEF f
<1>3. \/ ServerFails(k, <<>>)
      \/ /\ Started(t, k, SERVER, DOWNLOAD)
         /\ LET l == [SDOtoLine(RestartTimer(t[i]), m) EXCEPT !.toggle = Inverted(@)]
            IN  \/ ~m.last /\ ServerDoes(k, [t EXCEPT ![i] = l], <<f>>) /\ od' = od
                \/ /\ m.last /\ ServerDoes(k, resetSDOline(t, i), <<f>>)
                   /\ Stores(k, l.index, Assembled(l))
                \/ m.last /\ ServerFails(k, <<f>>)
  BY DEF ServerDownloadSegment, SegmentFits, ServerLine, f
<1>4. CASE ServerFails(k, <<>>)
  BY <1>4, ServerFailsAgrees
<1>5. CASE m.last /\ ServerFails(k, <<f>>)
  <2>1. ConfirmsAll(f, c)
    BY <1>1, <1>2, <1>5 DEF ConfirmsAll
  <2> QED BY <1>5, <2>1, ServerConfirmsAndFails
<1>6. ASSUME Started(t, k, SERVER, DOWNLOAD), NEW l,
             l = [SDOtoLine(RestartTimer(t[i]), m) EXCEPT !.toggle = Inverted(@)],
             \/ ~m.last /\ ServerDoes(k, [t EXCEPT ![i] = l], <<f>>) /\ od' = od
             \/ /\ m.last /\ ServerDoes(k, resetSDOline(t, i), <<f>>)
                /\ Stores(k, l.index, Assembled(l))
      PROVE  Agreed'
  <2>1. i # NoLine /\ t[i].state = DOWNLOAD /\ DOMAIN t[i] = Fields
    BY <1>6, AgreedIsSettled, ServerSees DEF Started, ServerLine
  <2>2. GoesOn(t[i], l) /\ l.state = DOWNLOAD
    <3> DEFINE toggle == Inverted(SDOtoLine(RestartTimer(t[i]), m).toggle)
    <3>1. l = [SDOtoLine(RestartTimer(t[i]), m) EXCEPT !.toggle = toggle]
      BY <1>6
    <3>2. t[i].state \in InProgress
      BY <2>1, StatesDiffer
    <3> HIDE DEF toggle, i
    <3> QED BY <2>1, <3>1, <3>2, TakenGoesOn
  <2>3. CASE ~m.last /\ ServerDoes(k, [t EXCEPT ![i] = l], <<f>>) /\ od' = od
    <3>1. \A s : s.state = l.state => AnswersPlain(f, c, {s})
      BY <1>1, <1>2, <2>2, <2>3 DEF AnswersPlain
    <3>2. ObjectsHold'
      BY <2>3, AgreedIsSettled, ObjectsStay
    <3> QED BY <2>1, <2>2, <2>3, <3>1, <3>2, ServerGoesOnPlain
  <2>4. CASE /\ m.last /\ ServerDoes(k, resetSDOline(t, i), <<f>>)
             /\ Stores(k, l.index, Assembled(l))
    <3>1. AnswersPlain(f, c, {})
      BY <1>1, <1>2 DEF AnswersPlain
    <3>2. Talk(ClientParties(k), {}, Tail(req[k]), resp[k] \o <<f>>)
      BY <3>1, ServerAnswersTalk
    <3>3. ObjectsHold'
      BY <2>4, AssembledIsStored, StoresHold DEF Agreed, Settled
    <3> QED BY <2>1, <2>4, <3>2, <3>3, ServerResets
  <2> QED BY <1>6, <2>3, <2>4
<1> QED BY <1>3, <1>4, <1>5, <1>6

\* The request for a segment of a plain upload.
LEMMA ServerSegmentAsked ==
  ASSUME Agreed, NEW k \in Conns, ServerUploadSegment(k), ForgetsBlocks,
         Tail(req[k]) = <<>>, resp[k] = <<>>, NEW c, ClientParties(k) = {c},
         Head(req[k]).cs = 3, AsksPlain(Head(req[k]), c, ServerParties(k))
  PROVE  Agreed'
<1> DEFINE t == transfers[server[k]]
           i == ServerLine(k)
           r == RestartTimer(t[i])
           f == Segment(r, r.toggle)
           d == [lineToSDO(r, f.n) EXCEPT !.toggle = Inverted(@)]
<1>1. c.state = UPLOAD
  BY DEF AsksPlain
<1>2. f.cs = 0
  BY DEF Segment, Frame
<1>3. \/ ServerFails(k, <<>>)
      \/ /\ Started(t, k, SERVER, UPLOAD) /\ od' = od
         /\ ServerDoes(k, IF f.last THEN resetSDOline(t, i) ELSE [t EXCEPT ![i] = d], <<f>>)
  BY DEF ServerUploadSegment, SegmentFits, ServerLine
<1> HIDE DEF f
<1>4. CASE ServerFails(k, <<>>)
  BY <1>4, ServerFailsAgrees
<1>5. CASE /\ Started(t, k, SERVER, UPLOAD) /\ od' = od
           /\ ServerDoes(k, IF f.last THEN resetSDOline(t, i) ELSE [t EXCEPT ![i] = d], <<f>>)
  <2>1. i # NoLine /\ t[i].state = UPLOAD /\ DOMAIN t[i] = Fields
    BY <1>5, AgreedIsSettled, ServerSees DEF Started, ServerLine
  <2>2. GoesOn(t[i], d) /\ d.state = UPLOAD
    <3> DEFINE toggle == Inverted(lineToSDO(r, f.n).toggle)
    <3>1. d = [lineToSDO(r, f.n) EXCEPT !.toggle = toggle]
      OBVIOUS
    <3>2. t[i].state \in InProgress
      BY <2>1, StatesDiffer
    <3> HIDE DEF toggle, i
    <3> QED BY <2>1, <3>1, <3>2, SentGoesOn
  <2> HIDE DEF d
  <2>3. CASE f.last
    <3>1. AnswersPlain(f, c, {})
      BY <1>1, <1>2 DEF AnswersPlain
    <3>2. Talk(ClientParties(k), {}, Tail(req[k]), resp[k] \o <<f>>)
      BY <3>1, ServerAnswersTalk
    <3> QED BY <1>5, <2>1, <2>3, <3>2, AgreedIsSettled, ObjectsStay, ServerResets
  <2>4. CASE ~f.last
    <3>1. \A s : s.state = d.state => AnswersPlain(f, c, {s})
      BY <1>1, <1>2, <2>2, <2>4 DEF AnswersPlain
    <3> QED BY <1>5, <2>1, <2>2, <2>4, <3>1, AgreedIsSettled, ObjectsStay, ServerGoesOnPlain
  <2> QED BY <2>3, <2>4
<1> QED BY <1>3, <1>4, <1>5

\* The line on use goes on with a block.
LEMMA ServerGoesOnBlock ==
  ASSUME Agreed, NEW k \in Conns, ServerLine(k) # NoLine,
         transfers[server[k]][ServerLine(k)].state \in InProgress,
         NEW s, ServerGoesOn(k, ServerLine(k), s),
         Same(RestartTimer(transfers[server[k]][ServerLine(k)]), s.line),
         DOMAIN s.block = BlockFields,
         Talk(ClientParties(k), {Party(s.line, s.block)}, Tail(req[k]), resp[k] \o s.frames)
  PROVE  Agreed'
<1> DEFINE t == transfers[server[k]]
           i == ServerLine(k)
<1>1. i \in Lines /\ server[k] \in Nodes /\ DOMAIN t[i] = Fields
  BY AgreedIsSettled, ServerSees, PartiesTalk, ServerStatics
<1>2. /\ ServerDoes(k, [t EXCEPT ![i] = s.line], s.frames) /\ od' = od
      /\ block' = [block EXCEPT ![server[k]][i] = s.block]
  BY DEF ServerGoesOn
<1>3. GoesOn(t[i], s.line)
  <2> DEFINE l == t[i]
  <2>1. DOMAIN l = Fields /\ l.state \in InProgress /\ Same(RestartTimer(l), s.line)
    BY <1>1
  <2> HIDE DEF l
  <2>2. GoesOn(l, s.line)
    BY <2>1, TimerIsNotSeen DEF GoesOn, Same, Owned
  <2> QED BY <2>2 DEF l
<1> HIDE DEF i
<1>4. BlocksKept' /\ BlocksStay(server[k], i) /\ block'[server[k]][i] = s.block
  BY <1>1, <1>2, BlockChanges DEF Agreed, Settled
<1>5. ObjectsHold'
  BY <1>2, AgreedIsSettled, ObjectsStay
<1>6. Talk(ClientParties(k), {Party(s.line, block'[server[k]][i])}, Tail(req[k]),
           resp[k] \o s.frames)
  BY <1>4
<1> QED BY <1>2, <1>3, <1>4, <1>5, <1>6, ServerContinues DEF i

\* ServerBlockDownload, case by case.
LEMMA ServerDownloadCases ==
  ASSUME NEW k \in Conns, ServerBlockDownload(k)
  PROVE  LET m == Head(req[k])
             t == transfers[server[k]]
             i == ServerLine(k)
             l == RestartTimer(t[i])
             b == block[server[k]][i]
         IN  /\ b.rxstep = RXSTEP_STARTED =>
                  IF SegmentOverflows(l, b, m) THEN ServerBlockFails(k)
                  ELSE ServerGoesOn(k, i, Received(l, b, m))
             /\ b.rxstep = RXSTEP_END =>
                  \/ ServerFails(k, <<>>) /\ ForgetsBlocks
                  \/ /\ ServerDoes(k, resetSDOline(t, i), <<Block(5, END)>>) /\ ForgetsBlocks
                     /\ \E v \in Stored : Stores(k, l.index, v)
                  \/ ServerFails(k, <<Block(5, END)>>) /\ ForgetsBlocks
<1> DEFINE m == Head(req[k])
           t == transfers[server[k]]
           i == ServerLine(k)
           l == RestartTimer(t[i])
           b == block[server[k]][i]
           response == Block(5, END)
           stays == ServerGoesOn(k, i, [line |-> t[i], block |-> b, frames |-> <<>>])
           goes == IF SegmentOverflows(l, b, m) THEN ServerBlockFails(k)
                   ELSE ServerGoesOn(k, i, Received(l, b, m))
           ends == IF LowBit(m) # END \/ WrongSize(l, b, m) THEN ServerBlockFails(k)
                   ELSE \/ /\ ServerDoes(k, resetSDOline(t, i), <<response>>)
                           /\ Stores(k, l.index, Assembled(Completed(l, b, m)))
                           /\ ForgetsBlocks
                        \/ /\ TRUE \in Refusals
                           /\ ServerFails(k, <<response>>)
                           /\ ForgetsBlocks
           x == b.rxstep
<1>1. (x = RXSTEP_INIT /\ stays) \/ (x = RXSTEP_STARTED /\ goes) \/ (x = RXSTEP_END /\ ends)
  BY DEF ServerBlockDownload
<1>2. /\ RXSTEP_INIT # RXSTEP_STARTED /\ RXSTEP_INIT # RXSTEP_END
      /\ RXSTEP_STARTED # RXSTEP_END
  BY DEF RXSTEP_INIT, RXSTEP_STARTED, RXSTEP_END
<1> HIDE DEF x, stays, goes, ends
<1>3. (x = RXSTEP_STARTED => goes) /\ (x = RXSTEP_END => ends)
  BY <1>1, <1>2
<1>4. ends => \/ ServerFails(k, <<>>) /\ ForgetsBlocks
              \/ /\ ServerDoes(k, resetSDOline(t, i), <<response>>) /\ ForgetsBlocks
                 /\ \E v \in Stored : Stores(k, l.index, v)
              \/ ServerFails(k, <<response>>) /\ ForgetsBlocks
  BY AssembledIsStored DEF ends, ServerBlockFails
<1> QED BY <1>3, <1>4 DEF x, goes

LEMMA OneFrame ==
  ASSUME NEW w, NEW m, w = <<m>>
  PROVE  Head(w) = m /\ Tail(w) = <<>>
OBVIOUS

\* A frame of a download in blocks.
LEMMA ServerGetsDownload ==
  ASSUME Agreed, NEW k \in Conns, ServerBlockDownload(k), resp[k] = <<>>,
         NEW c, NEW s, ClientParties(k) = {c}, ServerParties(k) = {s},
         c.state = BLOCK_DOWNLOAD, s.state = BLOCK_DOWNLOAD,
         Streaming(c, s, req[k]) \/ (req[k] = <<Head(req[k])>> /\ Over(s, Head(req[k])))
  PROVE  Agreed'
<1> DEFINE m == Head(req[k])
           i == ServerLine(k)
           e == transfers[server[k]][i]
           l == RestartTimer(e)
           b == block[server[k]][i]
<1>1. /\ i # NoLine /\ i \in Lines /\ DOMAIN e = Fields /\ DOMAIN b = BlockFields
      /\ s = Party(e, b)
  BY AgreedIsSettled, ServerSees
<1>2. e.state = BLOCK_DOWNLOAD /\ e.state \in InProgress /\ b.rxstep = s.rxstep
  BY <1>1, BlockStatesDiffer, PartyIsSeen
<1>3. Party(l, b) = s /\ DOMAIN l = Fields /\ l.state = BLOCK_DOWNLOAD
  BY <1>1, <1>2, TimerIsNotSeen
<1>4. CASE Streaming(c, s, req[k])
  <2> DEFINE r == Received(l, b, m)
             y == Party(r.line, r.block)
  <2>1. b.rxstep = RXSTEP_STARTED
    BY <1>2, <1>4 DEF Streaming
  <2>2. /\ ~SegmentOverflows(l, b, m) /\ Same(l, r.line) /\ DOMAIN r.block = BlockFields
        /\ \/ r.frames = <<>> /\ Streaming(c, y, Tail(req[k]))
           \/ Tail(req[k]) = <<>> /\ \E a : r.frames = <<a>> /\ a.cs = 5 /\ Acks(c, y, a)
    <3>1. Streaming(c, Party(l, b), req[k])
      BY <1>3, <1>4
    <3> HIDE DEF l, b
    <3>2. DOMAIN l = Fields /\ DOMAIN b = BlockFields
      BY <1>1, <1>3 DEF b
    <3> DEFINE q == req[k]
    <3> HIDE DEF q
    <3>3. LET g == Received(l, b, Head(q))
              z == Party(g.line, g.block)
          IN  /\ ~SegmentOverflows(l, b, Head(q))
              /\ Same(l, g.line) /\ DOMAIN g.block = BlockFields
              /\ \/ g.frames = <<>> /\ Streaming(c, z, Tail(q))
                 \/ Tail(q) = <<>> /\ \E a : g.frames = <<a>> /\ a.cs = 5 /\ Acks(c, z, a)
      BY <3>1, <3>2, ReceivedGoesOn DEF q
    <3> QED BY <3>3 DEF q
  <2>3. ServerGoesOn(k, i, r)
    BY <2>1, <2>2, ServerDownloadCases
  <2>4. y.state = BLOCK_DOWNLOAD
    BY <1>3, <2>2, PartyIsSeen DEF Same
  <2> HIDE DEF r, y, l, b, e, i
  <2>5. Talk({c}, {y}, Tail(req[k]), resp[k] \o r.frames)
    <3>1. CASE r.frames = <<>> /\ Streaming(c, y, Tail(req[k]))
      <4>1. BlockDownloads(c, y, Tail(req[k]), <<>>)
        BY <2>4, <3>1 DEF BlockDownloads
      <4>2. resp[k] \o r.frames = <<>>
        BY <3>1
      <4> QED BY <4>1, <4>2 DEF Talk
    <3>2. CASE Tail(req[k]) = <<>> /\ \E a : r.frames = <<a>> /\ a.cs = 5 /\ Acks(c, y, a)
      <4>1. PICK a : r.frames = <<a>> /\ a.cs = 5 /\ Acks(c, y, a)
        BY <3>2
      <4>2. BlockDownloads(c, y, <<>>, <<a>>)
        BY <2>4, <4>1 DEF BlockDownloads
      <4> QED BY <3>2, <4>1, <4>2, OneBehindOther DEF Talk
    <3> QED BY <2>2, <3>1, <3>2
  <2> QED BY <1>1, <1>2, <2>2, <2>3, <2>5, ServerGoesOnBlock DEF i, e, l, y
<1>5. CASE req[k] = <<m>> /\ Over(s, m)
  <2>1. b.rxstep = RXSTEP_END /\ Tail(req[k]) = <<>>
    <3>1. Tail(req[k]) = <<>>
      BY <1>5, OneFrame
    <3> QED BY <1>2, <1>5, <3>1 DEF Over
  <2> DEFINE f == Block(5, END)
  <2>2. ConfirmsAll(f, c)
    BY FramesDiffer DEF ConfirmsAll
  <2> HIDE DEF f
  <2>3. \/ ServerFails(k, <<>>) /\ ForgetsBlocks
        \/ /\ ServerDoes(k, resetSDOline(transfers[server[k]], i), <<f>>) /\ ForgetsBlocks
           /\ \E v \in Stored : Stores(k, l.index, v)
        \/ ServerFails(k, <<f>>) /\ ForgetsBlocks
    BY <2>1, ServerDownloadCases DEF f
  <2>4. CASE ServerFails(k, <<>>) /\ ForgetsBlocks
    BY <2>1, <2>4, ServerFailsAgrees
  <2>5. CASE /\ ServerDoes(k, resetSDOline(transfers[server[k]], i), <<f>>) /\ ForgetsBlocks
             /\ \E v \in Stored : Stores(k, l.index, v)
    <3>1. Talk(ClientParties(k), {}, Tail(req[k]), resp[k] \o <<f>>)
      BY <2>1, <2>2, ServerAnswersTalk
    <3>2. ObjectsHold'
      BY <2>5, StoresHold DEF Agreed, Settled
    <3> QED BY <1>1, <2>5, <3>1, <3>2, ServerResets
  <2>6. CASE ServerFails(k, <<f>>) /\ ForgetsBlocks
    BY <2>1, <2>2, <2>6, ServerConfirmsAndFails
  <2> QED BY <2>3, <2>4, <2>5, <2>6
<1> QED BY <1>4, <1>5

\* A frame of an upload in blocks.
LEMMA ServerGetsUpload ==
  ASSUME Agreed, NEW k \in Conns, ServerBlockUpload(k), resp[k] = <<>>,
         NEW c, NEW s, ClientParties(k) = {c}, ServerParties(k) = {s},
         c.state = BLOCK_UPLOAD, s.state = BLOCK_UPLOAD,
         req[k] = <<Head(req[k])>>,
         \/ /\ Head(req[k]).sub = START_UPLOAD /\ Ready(s, c)
            /\ s.blksize = SDO_BLOCK_SIZE /\ s.offset = 0
         \/ Acks(s, c, Head(req[k]))
  PROVE  Agreed'
<1> DEFINE m == Head(req[k])
           i == ServerLine(k)
           e == transfers[server[k]][i]
           l == RestartTimer(e)
           b == block[server[k]][i]
<1>1. /\ i # NoLine /\ i \in Lines /\ DOMAIN e = Fields /\ DOMAIN b = BlockFields
      /\ s = Party(e, b) /\ Tail(req[k]) = <<>>
  <2>1. Tail(req[k]) = <<>>
    BY OneFrame
  <2> QED BY <2>1, AgreedIsSettled, ServerSees
<1>2. /\ e.state = BLOCK_UPLOAD /\ e.state \in InProgress /\ b.blksize = s.blksize
      /\ Started(transfers[server[k]], k, SERVER, BLOCK_UPLOAD)
  <2>1. Started(transfers[server[k]], k, SERVER, BLOCK_UPLOAD)
    BY AgreedIsSettled, ServerIsAt
  <2> HIDE DEF e, b
  <2>2. e.state = BLOCK_UPLOAD /\ b.blksize = s.blksize
    BY <1>1, PartyIsSeen
  <2> QED BY <2>1, <2>2, BlockStatesDiffer
<1>3. Party(l, b) = s /\ DOMAIN l = Fields /\ l.state = BLOCK_UPLOAD
  BY <1>1, <1>2, TimerIsNotSeen
<1>4. ASSUME NEW r, ServerGoesOn(k, i, r), Same(l, r.line), DOMAIN r.block = BlockFields,
             \/ Streaming(Party(r.line, r.block), c, r.frames)
             \/ \E f : r.frames = <<f>> /\ Over(c, f)
      PROVE  Agreed'
  <2> DEFINE y == Party(r.line, r.block)
  <2>1. y.state = BLOCK_UPLOAD
    BY <1>3, <1>4, PartyIsSeen DEF Same
  <2>2. resp[k] \o r.frames = r.frames
    <3>1. \A f : IsSequence(<<f>>)
      <4> TAKE f
      <4>1. <<f>> \in Seq({f})
        OBVIOUS
      <4> QED BY <4>1 DEF IsSequence
    <3>2. IsSequence(r.frames)
      BY <1>4, <3>1 DEF Streaming
    <3> QED BY <3>2, NothingBehind
  <2> HIDE DEF y
  <2>3. Streaming(y, c, r.frames) \/ \E f : r.frames = <<f>> /\ Over(c, f)
    BY <1>4 DEF y
  <2>4. BlockUploads(c, y, <<>>, r.frames)
    BY <2>1, <2>3 DEF BlockUploads
  <2>5. Talk({c}, {y}, <<>>, r.frames)
    BY <2>4 DEF Talk
  <2> HIDE DEF l, b, e, i
  <2> QED BY <1>1, <1>2, <1>4, <2>2, <2>5, ServerGoesOnBlock DEF i, e, l, y
<1>5. CASE /\ m.sub = START_UPLOAD /\ Ready(s, c)
           /\ s.blksize = SDO_BLOCK_SIZE /\ s.offset = 0
  <2> DEFINE r == AfterBlock(l, b, b.blksize)
  <2>1. ServerGoesOn(k, i, r)
    BY <1>2, <1>5, ServerUploadCases
  <2>2. b.blksize = SDO_BLOCK_SIZE
    BY <1>2, <1>5
  <2> HIDE DEF r, l, b
  <2>3. /\ Streaming(Party(r.line, r.block), c, r.frames)
        /\ r.line = [l EXCEPT !.offset = r.line.offset]
        /\ DOMAIN r.block = BlockFields
    BY <1>1, <1>3, <1>5, <2>2, BlockGoesOut DEF r, b
  <2>4. Same(l, r.line)
    BY <1>3, <2>3, SameButOffset
  <2> QED BY <1>4, <2>1, <2>3, <2>4
<1>6. CASE Acks(s, c, m)
  <2> DEFINE r == Acknowledged(l, b, m, Block(6, END))
  <2>1. m.sub = RESPONSE
    BY <1>6 DEF Acks
  <2>2. /\ ~BadAckSeq(l, b, m) /\ Same(l, r.line) /\ DOMAIN r.block = BlockFields
        /\ \/ Streaming(Party(r.line, r.block), c, r.frames)
           \/ \E f : r.frames = <<f>> /\ Over(c, f)
    <3> HIDE DEF l, b, m
    <3> QED BY <1>1, <1>3, <1>6, AcknowledgedGoesOn DEF b
  <2>3. ServerGoesOn(k, i, r)
    BY <1>2, <2>1, <2>2, ServerUploadCases
  <2> HIDE DEF r, l, i
  <2> QED BY <1>4, <2>2, <2>3
<1> QED BY <1>5, <1>6

\* A request begins a transfer of a server that has none.
LEMMA ServerAskedAgrees ==
  ASSUME Agreed, NEW k \in Conns, ServerDispatches(k), Tail(req[k]) = <<>>, resp[k] = <<>>,
         ServerParties(k) = {}, NEW c, ClientParties(k) = {c}, Requests(Head(req[k]), c)
  PROVE  Agreed'
<1> DEFINE m == Head(req[k])
<1>1. ~ServerReadsData(k) /\ ServerLine(k) = NoLine
  <2>1. ~ServerReadsData(k)
    BY AgreedIsSettled, ServerIsAt DEF ServerReadsData
  <2> QED BY <2>1, AgreedIsSettled, ServerSees
<1>2. /\ m.cs \in {1, 2, 5, 6}
      /\ m.cs = 5 => m.sub = INITIATE
  BY DEF Requests
<1> HIDE DEF m
<1>3. \/ m.cs = 1 /\ ServerInitiateDownload(k) /\ ForgetsBlocks
      \/ m.cs = 2 /\ ServerInitiateUpload(k) /\ ForgetsBlocks
      \/ m.cs = 5 /\ ServerInitiateBlockUpload(k)
      \/ m.cs = 6 /\ ServerInitiateBlockDownload(k)
  BY <1>1, <1>2, ServerHandlers DEF m
<1>4. CASE m.cs = 1 /\ ServerInitiateDownload(k) /\ ForgetsBlocks
  BY <1>4, ServerDownloadAsked DEF m
<1>5. CASE m.cs = 2 /\ ServerInitiateUpload(k) /\ ForgetsBlocks
  BY <1>5, ServerUploadAsked DEF m
<1>6. CASE m.cs = 5 /\ ServerInitiateBlockUpload(k)
  BY <1>6, ServerBlockUploadAsked DEF m
<1>7. CASE m.cs = 6 /\ ServerInitiateBlockDownload(k)
  BY <1>1, <1>7, ServerBlockDownloadAsked DEF m
<1> QED BY <1>3, <1>4, <1>5, <1>6, <1>7

\* A segment of a plain transfer, or the request for one.
LEMMA ServerPlainAgrees ==
  ASSUME Agreed, NEW k \in Conns, ServerDispatches(k), Tail(req[k]) = <<>>, resp[k] = <<>>,
         NEW c, ClientParties(k) = {c}, AsksPlain(Head(req[k]), c, ServerParties(k))
  PROVE  Agreed'
<1> DEFINE m == Head(req[k])
<1>1. c.state # BLOCK_DOWNLOAD /\ m.cs \in {0, 3} /\ \A s \in ServerParties(k) : s.state = c.state
  BY BlockStatesDiffer DEF AsksPlain
<1>2. ~ServerReadsData(k)
  <2>1. ~\E s : ServerParties(k) = {s} /\ s.state = BLOCK_DOWNLOAD
    BY <1>1
  <2>2. ~Started(transfers[server[k]], k, SERVER, BLOCK_DOWNLOAD)
    BY <2>1, AgreedIsSettled, ServerIsAt
  <2> QED BY <2>2 DEF ServerReadsData
<1> HIDE DEF m
<1>3. \/ m.cs = 0 /\ ServerDownloadSegment(k) /\ ForgetsBlocks
      \/ m.cs = 3 /\ ServerUploadSegment(k) /\ ForgetsBlocks
  BY <1>1, <1>2, ServerHandlers DEF m
<1>4. CASE m.cs = 0 /\ ServerDownloadSegment(k) /\ ForgetsBlocks
  BY <1>4, ServerSegmentGot DEF m
<1>5. CASE m.cs = 3 /\ ServerUploadSegment(k) /\ ForgetsBlocks
  BY <1>5, ServerSegmentAsked DEF m
<1> QED BY <1>3, <1>4, <1>5

\* A frame of a transfer in blocks.
LEMMA ServerBlockAgrees ==
  ASSUME Agreed, NEW k \in Conns, ServerDispatches(k), req[k] # <<>>, resp[k] = <<>>,
         NEW c, NEW s, ClientParties(k) = {c}, ServerParties(k) = {s},
         ServerReadsBlock(c, s, req[k])
  PROVE  Agreed'
<1> DEFINE m == Head(req[k])
<1>1. ServerLine(k) # NoLine
  BY AgreedIsSettled, ServerSees
<1>2. CASE /\ c.state = BLOCK_DOWNLOAD /\ s.state = BLOCK_DOWNLOAD
           /\ Streaming(c, s, req[k]) \/ (req[k] = <<m>> /\ Over(s, m))
  <2>1. m # Abort
    <3>1. CASE Streaming(c, s, req[k])
      BY <3>1, FirstOfBlock
    <3>2. CASE Over(s, m)
      BY <3>2, FramesDiffer DEF Over
    <3> QED BY <1>2, <3>1, <3>2
  <2>2. ServerReadsData(k)
    BY <1>2, <2>1, AgreedIsSettled, ServerIsAt DEF ServerReadsData
  <2>3. ServerBlockDownload(k)
    BY <1>1, <2>2, ServerHandlers
  <2> QED BY <1>2, <2>3, ServerGetsDownload
<1>3. CASE /\ c.state = BLOCK_UPLOAD /\ s.state = BLOCK_UPLOAD
           /\ req[k] = <<m>> /\ m.cs = 5
           /\ \/ m.sub = START_UPLOAD /\ Ready(s, c) /\ s.blksize = SDO_BLOCK_SIZE /\ s.offset = 0
              \/ Acks(s, c, m)
  <2>1. ~ServerReadsData(k)
    <3>1. ~\E x : ServerParties(k) = {x} /\ x.state = BLOCK_DOWNLOAD
      BY <1>3, BlockStatesDiffer
    <3>2. ~Started(transfers[server[k]], k, SERVER, BLOCK_DOWNLOAD)
      BY <3>1, AgreedIsSettled, ServerIsAt
    <3> QED BY <3>2 DEF ServerReadsData
  <2>2. m.sub # INITIATE
    BY <1>3, FramesDiffer DEF Acks
  <2>3. ServerBlockUpload(k)
    BY <1>3, <2>1, <2>2, ServerHandlers
  <2> QED BY <1>3, <2>3, ServerGetsUpload
<1> QED BY <1>2, <1>3 DEF ServerReadsBlock

\* Whatever the server reads, the parties agree on it.
LEMMA ServerAgrees ==
  ASSUME Agreed, NEW k \in Conns, ServerDispatches(k)
  PROVE  Agreed'
<1> DEFINE C == ClientParties(k)
           S == ServerParties(k)
           q == req[k]
           p == resp[k]
<1>1. q # <<>>
  BY DEF ServerDispatches, ServerHandles, ServerInitiateDownload, ServerDownloadSegment,
         ServerInitiateUpload, ServerUploadSegment, ServerAbort, ServerInitiateBlockUpload,
         ServerBlockUpload, ServerInitiateBlockDownload, ServerBlockDownload,
         ServerGets, ServerGetsBlock
<1>2. Talk(C, S, q, p)
  BY AgreedIsSettled, PartiesTalk, ServerStatics
<1> HIDE DEF C, S, q, p
<1>3. \/ ServerCloses(C, S, q, p)
      \/ ServerReadsAsked(C, S, q, p)
      \/ p = <<>> /\ \E c, s : C = {c} /\ S = {s} /\ ServerReadsBlock(c, s, q)
  BY <1>1, <1>2, WhatServerReads
<1>4. CASE ServerCloses(C, S, q, p)
  BY <1>4, ServerClosesAgrees DEF C, S, q, p
<1>5. CASE ServerReadsAsked(C, S, q, p)
  <2>1. PICK c : C = {c} /\ ((S = {} /\ Requests(Head(q), c)) \/ AsksPlain(Head(q), c, S))
    BY <1>5 DEF ServerReadsAsked
  <2>2. Tail(q) = <<>> /\ p = <<>>
    BY <1>5, OneFrame DEF ServerReadsAsked
  <2>3. CASE S = {} /\ Requests(Head(q), c)
    BY <2>1, <2>2, <2>3, ServerAskedAgrees DEF C, S, q, p
  <2>4. CASE AsksPlain(Head(q), c, S)
    BY <2>1, <2>2, <2>4, ServerPlainAgrees DEF C, S, q, p
  <2> QED BY <2>1, <2>3, <2>4
<1>6. CASE p = <<>> /\ \E c, s : C = {c} /\ S = {s} /\ ServerReadsBlock(c, s, q)
  BY <1>1, <1>6, ServerBlockAgrees DEF C, S, q, p
<1> QED BY <1>3, <1>4, <1>5, <1>6

-----------------------------------------------------------------------------
(***************************************************************************)
(* What a client does with a frame.                                        *)
(***************************************************************************)
LEMMA ClientWires ==
  ASSUME Settled, NEW k \in Conns, NEW t, NEW frames, ClientDoes(k, t, frames)
  PROVE  /\ OthersWait(k) /\ req'[k] = req[k] \o frames /\ resp'[k] = Tail(resp[k])
         /\ transfers' = [transfers EXCEPT ![client[k]] = t] /\ od' = od
<1>1. /\ transfers' = [transfers EXCEPT ![client[k]] = t] /\ resp' = [resp EXCEPT ![k] = Tail(@)]
      /\ req' = [req EXCEPT ![k] = @ \o frames] /\ running' = running /\ od' = od
  BY DEF ClientDoes, faultVars
<1>2. DOMAIN req = Conns /\ DOMAIN resp = Conns
  BY DEF Settled
<1> QED BY <1>1, <1>2 DEF OthersWait

LEMMA ClientStatics ==
  ASSUME Settled, NEW k \in Conns
  PROVE  /\ client[k] \in Nodes /\ client[k] \in running /\ DOMAIN transfers = Nodes
         /\ LinesOK(transfers[client[k]])
         /\ DOMAIN block[client[k]] = Lines
         /\ \A i \in Lines : DOMAIN block[client[k]][i] = BlockFields
BY SDOAssumption DEF Settled, LineInvariant, BlocksKept

\* The client's line on use is its party.
LEMMA ClientSees ==
  ASSUME Settled, NEW k \in Conns
  PROVE  LET i == ClientLine(k)
             l == transfers[client[k]][i]
             b == block[client[k]][i]
         IN  /\ i = NoLine => ClientParties(k) = {}
             /\ i # NoLine => /\ ClientParties(k) = {Party(l, b)}
                              /\ i \in Lines /\ DOMAIN l = Fields /\ DOMAIN b = BlockFields
                              /\ l.CliServNbr = k /\ l.whoami = CLIENT /\ l.state # RESET
                              /\ \A j \in Lines \ {i} : ~OnUse(transfers[client[k]], k, CLIENT, j)
<1>1. /\ LinesOK(transfers[client[k]]) /\ CLIENT \in {SERVER, CLIENT}
      /\ \A i \in Lines : DOMAIN block[client[k]][i] = BlockFields
  BY ClientStatics
<1>2. \A l : InUse(l) => l.state # RESET
  BY DEF InUse
<1> QED BY <1>1, <1>2, TheParty DEF ClientLine, ClientParties

\* Whether a line is in the state asked for is seen from the parties.
LEMMA ClientIsAt ==
  ASSUME Settled, NEW k \in Conns, NEW state
  PROVE  Started(transfers[client[k]], k, CLIENT, state) <=>
           \E c : ClientParties(k) = {c} /\ c.state = state
<1> DEFINE i == ClientLine(k)
           l == transfers[client[k]][i]
           b == block[client[k]][i]
<1>1. Started(transfers[client[k]], k, CLIENT, state) <=> i # NoLine /\ l.state = state
  BY DEF Started, ClientLine
<1>2. Party(l, b).state = l.state
  BY PartyIsSeen
<1>3. /\ i = NoLine => ClientParties(k) = {}
      /\ i # NoLine => ClientParties(k) = {Party(l, b)}
  BY ClientSees
<1> HIDE DEF i, l, b
<1> QED BY <1>1, <1>2, <1>3

\* The client of k goes on with parties C, and sends frames.
ClientActs(k, C, frames) == Acts(k, C, ServerParties(k), req[k] \o frames, Tail(resp[k]))

\* One of the client's lines becomes l.
LEMMA ClientTurns ==
  ASSUME Settled, LineInvariant', BlocksKept', NEW k \in Conns, NEW i \in Lines, NEW l,
         NEW frames, ClientDoes(k, [transfers[client[k]] EXCEPT ![i] = l], frames),
         BlocksStay(client[k], i), Belongs(transfers[client[k]][i], k, CLIENT),
         Belongs(l, k, CLIENT), \A j \in Lines \ {i} : ~OnUse(transfers[client[k]], k, CLIENT, j)
  PROVE  ClientActs(k, AParty(l, block'[client[k]][i]), frames) /\ ObjectsHold'
<1> DEFINE A == AParty(l, block'[client[k]][i])
<1>1. /\ OthersWait(k) /\ req'[k] = req[k] \o frames /\ resp'[k] = Tail(resp[k])
      /\ transfers' = [transfers EXCEPT ![client[k]] = [transfers[client[k]] EXCEPT ![i] = l]]
      /\ ObjectsHold'
  BY ClientWires, ObjectsStay
<1>2. CLIENT # SERVER
  BY StatesDiffer
<1>3. Turns(client[k], k, CLIENT, i, l)
  BY <1>1, <1>2 DEF Turns
<1>4. Acts(k, IF CLIENT = SERVER THEN ClientParties(k) ELSE A,
           IF CLIENT = SERVER THEN A ELSE ServerParties(k), req'[k], resp'[k])
  BY <1>1, <1>3, TurnActs
<1> QED BY <1>1, <1>2, <1>4 DEF ClientActs

\* The line on use goes on with its transfer, with whatever it keeps of a block.
LEMMA ClientContinuesActs ==
  ASSUME Settled, NEW k \in Conns, ClientLine(k) # NoLine, NEW l, NEW frames,
         BlocksKept', GoesOn(transfers[client[k]][ClientLine(k)], l),
         ClientDoes(k, [transfers[client[k]] EXCEPT ![ClientLine(k)] = l], frames),
         BlocksStay(client[k], ClientLine(k))
  PROVE  ClientActs(k, {Party(l, block'[client[k]][ClientLine(k)])}, frames) /\ ObjectsHold'
<1> DEFINE t == transfers[client[k]]
           i == ClientLine(k)
<1>1. LinesOK(t)
  BY ClientStatics
<1>2. /\ i \in Lines /\ t[i].CliServNbr = k /\ t[i].whoami = CLIENT
      /\ \A j \in Lines \ {i} : ~OnUse(t, k, CLIENT, j)
  BY ClientSees
<1> HIDE DEF i
<1>3. Belongs(t[i], k, CLIENT) /\ Belongs(l, k, CLIENT) /\ InUse(l)
  BY <1>2, StatesDiffer, BlockStatesDiffer DEF GoesOn, Owned, Belongs, InUse, i
<1>4. Narrows(t, [t EXCEPT ![i] = l])
  BY <1>1, <1>2, KeptNarrows DEF i
<1>5. LineInvariant'
  BY <1>4, ClientDoesKeeps DEF Settled, i
<1>6. AParty(l, block'[client[k]][i]) = {Party(l, block'[client[k]][i])}
  BY <1>3 DEF AParty
<1>7. ClientActs(k, AParty(l, block'[client[k]][i]), frames) /\ ObjectsHold'
  BY <1>2, <1>3, <1>5, ClientTurns DEF i
<1> QED BY <1>6, <1>7 DEF i

LEMMA ClientContinues ==
  ASSUME Agreed, NEW k \in Conns, ClientLine(k) # NoLine, NEW l, NEW frames,
         BlocksKept', GoesOn(transfers[client[k]][ClientLine(k)], l),
         ClientDoes(k, [transfers[client[k]] EXCEPT ![ClientLine(k)] = l], frames),
         BlocksStay(client[k], ClientLine(k)),
         Talk({Party(l, block'[client[k]][ClientLine(k)])}, ServerParties(k),
              req[k] \o frames, Tail(resp[k]))
  PROVE  Agreed'
<1>1. ClientActs(k, {Party(l, block'[client[k]][ClientLine(k)])}, frames) /\ ObjectsHold'
  BY AgreedIsSettled, ClientContinuesActs
<1> QED BY <1>1, ActsAgree DEF ClientActs

\* Nobody waits for the client, nor does a client that has ended its transfer wait.
Rests(S, q, p) ==
  \/ p = <<>> /\ ((q = <<>> /\ S = {}) \/ \E x : q = <<x>> /\ Closes(x, S))
  \/ p = <<Abort>> /\ S = {} /\ q \in {<<>>, <<Abort>>}

LEMMA RestsAgree ==
  ASSUME NEW C, \A c \in C : c.state \notin InProgress, NEW S, NEW q, NEW p, Rests(S, q, p)
  PROVE  Talk(C, S, q, p)
BY DEF Rests, Talk, Quiet, GivenUp

\* The line on use ends its transfer.
LEMMA ClientFinishesActs ==
  ASSUME Settled, NEW k \in Conns, ClientLine(k) # NoLine, NEW l, NEW frames,
         ForgetsBlocks \/ UNCHANGED block, Ends(transfers[client[k]][ClientLine(k)], l),
         ClientDoes(k, [transfers[client[k]] EXCEPT ![ClientLine(k)] = l], frames)
  PROVE  /\ ClientActs(k, AParty(l, block'[client[k]][ClientLine(k)]), frames)
         /\ ObjectsHold' /\ l.state \notin InProgress
<1> DEFINE t == transfers[client[k]]
           i == ClientLine(k)
<1>1. LinesOK(t) /\ client[k] \in Nodes
  BY ClientStatics
<1>2. /\ i \in Lines /\ t[i].CliServNbr = k /\ t[i].whoami = CLIENT
      /\ \A j \in Lines \ {i} : ~OnUse(t, k, CLIENT, j)
  BY ClientSees
<1> HIDE DEF i
<1>3. Belongs(t[i], k, CLIENT) /\ Belongs(l, k, CLIENT) /\ l.state \notin InProgress
  BY <1>2, StatesDiffer DEF Ends, Owned, Belongs, i
<1>4. Narrows(t, [t EXCEPT ![i] = l])
  BY <1>1, <1>2, KeptNarrows DEF i
<1>5. LineInvariant'
  BY <1>4, ClientDoesKeeps DEF Settled, i
<1>6. BlocksKept' /\ BlocksStay(client[k], i)
  <2>1. transfers' = [transfers EXCEPT ![client[k]] = [t EXCEPT ![i] = l]]
    BY ClientWires DEF i
  <2> QED BY <1>1, <1>2, <2>1, OneBlockForgotten DEF Settled
<1>7. ClientActs(k, AParty(l, block'[client[k]][i]), frames) /\ ObjectsHold'
  BY <1>2, <1>3, <1>5, <1>6, ClientTurns DEF i
<1> QED BY <1>3, <1>7 DEF i

LEMMA ClientFinishes ==
  ASSUME Agreed, NEW k \in Conns, ClientLine(k) # NoLine, NEW l, NEW frames,
         ForgetsBlocks \/ UNCHANGED block, Ends(transfers[client[k]][ClientLine(k)], l),
         ClientDoes(k, [transfers[client[k]] EXCEPT ![ClientLine(k)] = l], frames),
         Rests(ServerParties(k), req[k] \o frames, Tail(resp[k]))
  PROVE  Agreed'
<1> DEFINE A == AParty(l, block'[client[k]][ClientLine(k)])
<1>1. ClientActs(k, A, frames) /\ ObjectsHold' /\ l.state \notin InProgress
  BY AgreedIsSettled, ClientFinishesActs
<1>2. \A c \in A : c.state \notin InProgress
  BY <1>1, PartyIsSeen DEF AParty
<1> HIDE DEF A
<1>3. Talk(A, ServerParties(k), req[k] \o frames, Tail(resp[k]))
  BY <1>2, RestsAgree
<1> QED BY <1>1, <1>3, ActsAgree DEF ClientActs

\* No line changes, and none is on use.
LEMMA ClientStaysActs ==
  ASSUME Settled, NEW k \in Conns, NEW frames, ForgetsBlocks,
         ClientDoes(k, transfers[client[k]], frames)
  PROVE  ClientActs(k, ClientParties(k), frames) /\ ObjectsHold'
<1>1. /\ LinesOK(transfers[client[k]]) /\ LineInvariant /\ BlocksKept /\ DOMAIN transfers = Nodes
  BY ClientStatics DEF Settled
<1>2. LineInvariant'
  BY <1>1, SameNarrows, ClientDoesKeeps
<1>3. /\ OthersWait(k) /\ req'[k] = req[k] \o frames /\ resp'[k] = Tail(resp[k]) /\ ObjectsHold'
      /\ transfers' = [transfers EXCEPT ![client[k]] = transfers[client[k]]]
  BY ClientWires, ObjectsStay
<1>4. \A m \in Nodes : transfers'[m] = transfers[m]
  BY <1>1, <1>3
<1>5. /\ BlocksKept'
      /\ \A m \in Nodes, j \in Lines :
           transfers[m][j].state = RESET \/ block'[m][j] = block[m][j]
  BY <1>1, <1>4, NoBlockForgotten
<1> QED BY <1>2, <1>3, <1>4, <1>5, StayActs DEF ClientActs

LEMMA ClientStays ==
  ASSUME Agreed, NEW k \in Conns, ClientLine(k) = NoLine, NEW frames, ForgetsBlocks,
         ClientDoes(k, transfers[client[k]], frames),
         Rests(ServerParties(k), req[k] \o frames, Tail(resp[k]))
  PROVE  Agreed'
<1>1. ClientActs(k, ClientParties(k), frames) /\ ObjectsHold' /\ ClientParties(k) = {}
  BY AgreedIsSettled, ClientStaysActs, ClientSees
<1>2. Talk(ClientParties(k), ServerParties(k), req[k] \o frames, Tail(resp[k]))
  BY <1>1, RestsAgree
<1> QED BY <1>1, <1>2, ActsAgree DEF ClientActs

\* Which handler takes a frame.
LEMMA ClientHandlers ==
  ASSUME NEW k \in Conns, ClientDispatches(k)
  PROVE  LET cs == IF ClientReadsData(k) THEN 6 ELSE Head(resp[k]).cs
             plain == ~ClientReadsData(k) /\ ForgetsBlocks
         IN  \/ cs = 3 /\ plain /\ ClientInitiateDownload(k)
             \/ cs = 1 /\ plain /\ ClientDownloadSegment(k)
             \/ cs = 2 /\ plain /\ ClientInitiateUpload(k)
             \/ cs = 0 /\ plain /\ ClientUploadSegment(k)
             \/ cs = 4 /\ plain /\ ClientAbort(k)
             \/ cs = 5 /\ Head(resp[k]).sub # END /\ ClientBlockDownload(k)
             \/ cs = 5 /\ Head(resp[k]).sub = END /\ ClientEndsBlockDownload(k)
             \/ cs = 6 /\ ClientBlockUpload(k)
<1> DEFINE cs == IF ClientReadsData(k) THEN 6 ELSE Head(resp[k]).cs
<1>1. ClientInitiateDownload(k) => ClientGets(k, 3)
  BY DEF ClientInitiateDownload
<1>2. ClientDownloadSegment(k) => ClientGets(k, 1)
  BY DEF ClientDownloadSegment
<1>3. ClientInitiateUpload(k) => ClientGets(k, 2)
  BY DEF ClientInitiateUpload
<1>4. ClientUploadSegment(k) => ClientGets(k, 0)
  BY DEF ClientUploadSegment
<1>5. ClientAbort(k) => ClientGets(k, 4)
  BY DEF ClientAbort
<1>6. ClientBlockDownload(k) => ClientGetsBlock(k, 5) /\ Head(resp[k]).sub # END
  BY DEF ClientBlockDownload
<1>7. ClientEndsBlockDownload(k) => ClientGetsBlock(k, 5) /\ Head(resp[k]).sub = END
  BY DEF ClientEndsBlockDownload
<1>8. ClientBlockUpload(k) => ClientGetsBlock(k, 6)
  BY DEF ClientBlockUpload
<1>9. \A x : (ClientGetsBlock(k, x) => cs = x) /\ (ClientGets(k, x) => Head(resp[k]).cs = x)
  BY DEF ClientGetsBlock, ClientGets
<1>10. ~ClientReadsData(k) => cs = Head(resp[k]).cs
  OBVIOUS
<1> HIDE DEF cs
<1> QED BY <1>1, <1>2, <1>3, <1>4, <1>5, <1>6, <1>7, <1>8, <1>9, <1>10
        DEF ClientDispatches, ClientHandles, cs

\* The client is told that the server has given up.
LEMMA ClientToldAgrees ==
  ASSUME Agreed, NEW k \in Conns, ClientDispatches(k),
         ClientIsTold(ServerParties(k), req[k], resp[k])
  PROVE  Agreed'
<1> DEFINE t == transfers[client[k]]
           i == ClientLine(k)
           l == StopTimer([t[i] EXCEPT !.state = ABORTED_RCV])
<1>1. ServerParties(k) = {} /\ req[k] \in {<<>>, <<Abort>>} /\ resp[k] = <<Abort>>
  BY DEF ClientIsTold
<1>2. Head(resp[k]) = Abort /\ Tail(resp[k]) = <<>>
  BY <1>1, OneFrame
<1>3. ClientAbort(k) /\ ForgetsBlocks
  <2>1. ~ClientReadsData(k) /\ Head(resp[k]).cs = 4
    BY <1>2, FramesDiffer DEF ClientReadsData
  <2> QED BY <2>1, ClientHandlers
<1>4. Rests(ServerParties(k), req[k] \o <<>>, Tail(resp[k]))
  <2>1. req[k] \o <<>> = req[k]
    BY AgreedIsSettled, PartiesTalk, ClientStatics, TalkInSequences, NothingBehind
  <2> QED BY <1>1, <1>2, <2>1 DEF Rests, Closes
<1>5. CASE i = NoLine
  <2>1. ClientDoes(k, t, <<>>)
    BY <1>3, <1>5 DEF ClientAbort, ClientLine
  <2> QED BY <1>3, <1>4, <1>5, <2>1, ClientStays
<1>6. CASE i # NoLine
  <2>1. ClientDoes(k, [t EXCEPT ![i] = l], <<>>)
    <3>1. ClientEnds(k, [t EXCEPT ![i] = StopTimer([@ EXCEPT !.state = ABORTED_RCV])])
      BY <1>3, <1>6 DEF ClientAbort, ClientLine
    <3> QED BY <3>1 DEF ClientEnds
  <2>2. DOMAIN t[i] = Fields /\ t[i].state # RESET
    BY <1>6, AgreedIsSettled, ClientSees
  <2> DEFINE e == t[i]
  <2>3. Ends(e, StopTimer([e EXCEPT !.state = ABORTED_RCV]))
    <3> HIDE DEF e
    <3>1. DOMAIN e = Fields /\ e.state # RESET
      BY <2>2 DEF e
    <3> QED BY <3>1, StatesDiffer DEF Ends, Owned, Fields, StopTimer
  <2> HIDE DEF l, e
  <2>4. Ends(t[i], l)
    BY <2>3 DEF e, l
  <2> HIDE DEF i
  <2> QED BY <1>3, <1>4, <1>6, <2>1, <2>4, ClientFinishes DEF i
<1> QED BY <1>5, <1>6

\* A client that gives up tells the server, which may have given up itself.
LEMMA ClientFailsAgrees ==
  ASSUME Agreed, NEW k \in Conns, ClientFails(k), ForgetsBlocks, req[k] = <<>>,
         Tail(resp[k]) = <<>> \/ (Tail(resp[k]) = <<Abort>> /\ ServerParties(k) = {})
  PROVE  Agreed'
<1> DEFINE t == transfers[client[k]]
           i == ClientLine(k)
<1>1. ClientDoes(k, Failed(t, k, CLIENT), <<Abort>>)
  BY DEF ClientFails
<1>2. Rests(ServerParties(k), req[k] \o <<Abort>>, Tail(resp[k]))
  <2>1. req[k] \o <<Abort>> = <<Abort>>
    BY OneBehindOther
  <2> QED BY <2>1 DEF Rests, Closes
<1>3. CASE i = NoLine
  <2>1. Failed(t, k, CLIENT) = t
    BY <1>3 DEF Failed, ClientLine
  <2> QED BY <1>1, <1>2, <1>3, <2>1, ClientStays
<1>4. CASE i # NoLine
  <2> DEFINE e == t[i]
             l == StopTimer([e EXCEPT !.state = ABORTED_INTERNAL])
  <2>1. Failed(t, k, CLIENT) = [t EXCEPT ![i] = l]
    BY <1>4, StatesDiffer DEF Failed, ClientLine
  <2>2. DOMAIN e = Fields /\ e.state # RESET /\ e.whoami = CLIENT
    BY <1>4, AgreedIsSettled, ClientSees
  <2>3. Ends(e, l)
    <3> HIDE DEF e
    <3> QED BY <2>2 DEF Ends, Owned, Fields, StopTimer
  <2> HIDE DEF l, i
  <2> QED BY <1>1, <1>2, <1>4, <2>1, <2>3, ClientFinishes DEF i
<1> QED BY <1>3, <1>4

\* A step on the line on use of a plain transfer.
LEMMA ClientGoesOnPlain ==
  ASSUME Agreed, NEW k \in Conns, ClientLine(k) # NoLine, NEW l, NEW f, ForgetsBlocks,
         GoesOn(transfers[client[k]][ClientLine(k)], l),
         ClientDoes(k, [transfers[client[k]] EXCEPT ![ClientLine(k)] = l], <<f>>),
         Tail(resp[k]) = <<>>, req[k] = <<>>,
         \A c : /\ c.state = l.state /\ c.count = l.count /\ c.offset = l.offset
                => AsksPlain(f, c, ServerParties(k))
  PROVE  Agreed'
<1> DEFINE i == ClientLine(k)
<1>1. i \in Lines /\ client[k] \in Nodes
  BY AgreedIsSettled, ClientSees, PartiesTalk, ClientStatics
<1>2. transfers' = [transfers EXCEPT ![client[k]] = [transfers[client[k]] EXCEPT ![i] = l]]
  BY AgreedIsSettled, ClientWires
<1> HIDE DEF i
<1>3. BlocksKept' /\ BlocksStay(client[k], i)
  BY <1>1, <1>2, OneBlockForgotten DEF Agreed, Settled
<1> DEFINE c == Party(l, block'[client[k]][i])
<1>4. AsksPlain(f, c, ServerParties(k))
  <2>1. c.state = l.state /\ c.count = l.count /\ c.offset = l.offset
    BY PartyIsSeen
  <2> HIDE DEF c
  <2> QED BY <2>1
<1> HIDE DEF c
<1>5. Talk({c}, ServerParties(k), req[k] \o <<f>>, Tail(resp[k]))
  <2>1. req[k] \o <<f>> = <<f>>
    BY OneBehindOther
  <2>2. Asks(c, ServerParties(k), <<f>>, <<>>)
    BY <1>4 DEF Asks
  <2> QED BY <2>1, <2>2 DEF Talk
<1>6. Talk({Party(l, block'[client[k]][i])}, ServerParties(k), req[k] \o <<f>>, Tail(resp[k]))
  BY <1>5 DEF c
<1> QED BY <1>3, <1>6, ClientContinues DEF i

\* The end of a plain transfer, which the server has ended.
LEMMA ClientEndsPlain ==
  ASSUME Agreed, NEW k \in Conns, ClientLine(k) # NoLine, NEW l, ForgetsBlocks \/ UNCHANGED block,
         Ends(transfers[client[k]][ClientLine(k)], l),
         ClientDoes(k, [transfers[client[k]] EXCEPT ![ClientLine(k)] = l], <<>>),
         req[k] = <<>>, Tail(resp[k]) \in {<<>>, <<Abort>>}, ServerParties(k) = {}
  PROVE  Agreed'
<1>1. req[k] \o <<>> = <<>>
  BY AgreedIsSettled, PartiesTalk, ClientStatics, TalkInSequences, NothingBehind
<1>2. Rests(ServerParties(k), req[k] \o <<>>, Tail(resp[k]))
  BY <1>1 DEF Rests
<1> QED BY <1>2, ClientFinishes

\* A client's line l that sends its next segment.
LEMMA SegmentGoesOut ==
  ASSUME NEW l, DOMAIN l = Fields, l.state = DOWNLOAD,
         l.count \in 1 .. SDO_MAX_LENGTH_TRANSFER, l.offset \in 0 .. l.count,
         l.offset # l.count, NEW toggle
  PROVE  LET r == RestartTimer(l)
             f == Segment(r, toggle)
             d == [lineToSDO(r, f.n) EXCEPT !.toggle = toggle]
         IN  /\ GoesOn(l, d) /\ d.state = DOWNLOAD /\ d.count = l.count
             /\ d.offset \in 0 .. l.count /\ f.cs = 0 /\ (f.last <=> d.offset = l.count)
<1> DEFINE r == RestartTimer(l)
           f == Segment(r, toggle)
           d == [lineToSDO(r, f.n) EXCEPT !.toggle = toggle]
           rest == l.count - l.offset
<1>1. l.count \in Nat \ {0} /\ l.offset \in Nat /\ rest \in Nat \ {0}
  BY LineAssumption
<1>2. getSDOlineRestBytes(r) = rest
  BY <1>1 DEF getSDOlineRestBytes, RestartTimer, Fields
<1>3. f.cs = 0 /\ (f.last <=> rest <= SEGMENT) /\ f.n = IF rest > SEGMENT THEN SEGMENT ELSE rest
  <2> HIDE DEF rest, r
  <2> QED BY <1>2 DEF Segment, Frame
<1>4. GoesOn(l, d) /\ d.state = l.state /\ d.count = l.count /\ d.offset = l.offset + f.n
  <2>1. l.state \in InProgress
    BY StatesDiffer
  <2> HIDE DEF f
  <2> QED BY <2>1, SentGoesOn
<1> HIDE DEF f, d, r
<1>5. d.offset \in 0 .. l.count /\ (f.last <=> d.offset = l.count)
  BY <1>1, <1>3, <1>4 DEF SEGMENT
<1> QED BY <1>3, <1>4, <1>5 DEF f, d, r

\* The next segment of a plain download, or its end.
LEMMA ClientNextSegment ==
  ASSUME Agreed, NEW k \in Conns, ForgetsBlocks, NEW toggle,
         NextSegment(k, transfers[client[k]], ClientLine(k), toggle),
         NEW c, ClientParties(k) = {c}, c.state = DOWNLOAD, Produces(c),
         c.offset = c.count => ServerParties(k) = {},
         \A s \in ServerParties(k) : s.state = DOWNLOAD, req[k] = <<>>,
         Tail(resp[k]) = <<>> \/ (c.offset = c.count /\ Tail(resp[k]) = <<Abort>>)
  PROVE  Agreed'
<1> DEFINE t == transfers[client[k]]
           i == ClientLine(k)
           e == t[i]
           r == RestartTimer(e)
           f == Segment(r, toggle)
           d == [lineToSDO(r, f.n) EXCEPT !.toggle = toggle]
<1>1. i # NoLine /\ DOMAIN e = Fields /\ c = Party(e, block[client[k]][i])
  BY AgreedIsSettled, ClientSees
<1>2. e.state = DOWNLOAD /\ e.count = c.count /\ e.offset = c.offset
  <2> DEFINE b == block[client[k]][i]
  <2> HIDE DEF e, b
  <2>1. c = Party(e, b)
    BY <1>1 DEF e, b
  <2> QED BY <2>1, PartyIsSeen
<1>3. e.count \in 1 .. SDO_MAX_LENGTH_TRANSFER /\ e.offset \in 0 .. e.count
  BY <1>2 DEF Produces
<1>4. getSDOlineRestBytes(r) = 0 <=> e.offset = e.count
  <2>1. e.count \in Nat \ {0} /\ e.offset \in Nat
    BY <1>3, LineAssumption
  <2>2. r.count = e.count /\ r.offset = e.offset
    <3> HIDE DEF e
    <3> QED BY <1>1 DEF RestartTimer, Fields, e
  <2> HIDE DEF e, r
  <2> QED BY <2>1, <2>2 DEF getSDOlineRestBytes
<1>5. IF e.offset = e.count THEN ClientDoes(k, [t EXCEPT ![i] = Finished(r)], <<>>)
      ELSE ClientDoes(k, [t EXCEPT ![i] = d], <<f>>)
  <2>1. IF getSDOlineRestBytes(r) = 0 THEN ClientDoes(k, [t EXCEPT ![i] = Finished(r)], <<>>)
        ELSE ClientDoes(k, [t EXCEPT ![i] = d], <<f>>)
    BY DEF NextSegment, ClientEnds, ClientGoesOn
  <2> QED BY <1>4, <2>1
<1>6. CASE e.offset = e.count
  <2>1. Ends(e, Finished(r))
    <3> HIDE DEF e
    <3>1. e.state # RESET /\ DOMAIN e = Fields
      BY <1>1, <1>2, BlockStatesDiffer DEF e
    <3> QED BY <3>1, StatesDiffer DEF Ends, Owned, Fields, Finished, StopTimer, RestartTimer
  <2> DEFINE g == Finished(r)
  <2>2. ClientDoes(k, [t EXCEPT ![i] = g], <<>>)
    BY <1>5, <1>6
  <2>3. Ends(t[i], g)
    BY <2>1
  <2>4. Tail(resp[k]) \in {<<>>, <<Abort>>} /\ ServerParties(k) = {}
    BY <1>2, <1>6
  <2> HIDE DEF g, i
  <2> QED BY <1>1, <2>2, <2>3, <2>4, ClientEndsPlain DEF i
<1>7. CASE e.offset # e.count
  <2>1. /\ GoesOn(e, d) /\ d.state = DOWNLOAD /\ d.count = e.count
        /\ d.offset \in 0 .. e.count /\ f.cs = 0 /\ (f.last <=> d.offset = e.count)
    <3> HIDE DEF e
    <3>1. DOMAIN e = Fields
      BY <1>1 DEF e
    <3> QED BY <3>1, <1>2, <1>3, <1>7, SegmentGoesOut
  <2>2. ClientDoes(k, [t EXCEPT ![i] = d], <<f>>)
    BY <1>5, <1>7
  <2>3. GoesOn(t[i], d)
    BY <2>1
  <2>4. ASSUME NEW y, y.state = d.state, y.count = d.count, y.offset = d.offset
        PROVE  AsksPlain(f, y, ServerParties(k))
    <3> HIDE DEF d, f, e
    <3> QED BY <1>3, <2>1, <2>4 DEF AsksPlain, Produces
  <2>5. Tail(resp[k]) = <<>>
    BY <1>2, <1>7
  <2> HIDE DEF d, f, i
  <2> QED BY <1>1, <2>2, <2>3, <2>4, <2>5, ClientGoesOnPlain DEF i
<1> QED BY <1>6, <1>7

\* The answer to a request to download, or to a segment.
LEMMA ClientDownloadAnswered ==
  ASSUME Agreed, NEW k \in Conns, ForgetsBlocks,
         ClientInitiateDownload(k) \/ ClientDownloadSegment(k),
         NEW c, ClientParties(k) = {c}, c.state = DOWNLOAD, Produces(c),
         c.offset = c.count => ServerParties(k) = {},
         \A s \in ServerParties(k) : s.state = DOWNLOAD, req[k] = <<>>,
         Tail(resp[k]) = <<>> \/ (c.offset = c.count /\ Tail(resp[k]) = <<Abort>>)
  PROVE  Agreed'
<1>1. ClientFails(k) \/ \E toggle : NextSegment(k, transfers[client[k]], ClientLine(k), toggle)
  <2>1. CASE ClientInitiateDownload(k)
    BY <2>1 DEF ClientInitiateDownload, ClientLine
  <2>2. CASE ClientDownloadSegment(k)
    BY <2>2 DEF ClientDownloadSegment, ClientLine
  <2> QED BY <2>1, <2>2
<1>2. CASE ClientFails(k)
  BY <1>2, ClientFailsAgrees
<1>3. ASSUME NEW toggle, NextSegment(k, transfers[client[k]], ClientLine(k), toggle)
      PROVE  Agreed'
  BY <1>3, ClientNextSegment
<1> QED BY <1>1, <1>2, <1>3

\* The answer to a request to upload, or a segment.
LEMMA ClientUploadAnswered ==
  ASSUME Agreed, NEW k \in Conns, ForgetsBlocks,
         ClientInitiateUpload(k) \/ ClientUploadSegment(k),
         NEW c, ClientParties(k) = {c}, c.state = UPLOAD,
         Head(resp[k]).last => ServerParties(k) = {},
         \A s \in ServerParties(k) : s.state = UPLOAD, req[k] = <<>>, Tail(resp[k]) = <<>>
  PROVE  Agreed'
<1> DEFINE t == transfers[client[k]]
           i == ClientLine(k)
           e == t[i]
           m == Head(resp[k])
           taken == [SDOtoLine(RestartTimer(e), m) EXCEPT !.toggle = Inverted(@)]
           ends == [Finished(SDOtoLine(e, m)) EXCEPT !.count = m.n]
           goes == [RestartTimer(e) EXCEPT !.count = m.n]
<1>1. i # NoLine /\ DOMAIN e = Fields /\ e.state = UPLOAD
  <2>1. i # NoLine /\ DOMAIN e = Fields /\ c = Party(e, block[client[k]][i])
    BY AgreedIsSettled, ClientSees
  <2> DEFINE b == block[client[k]][i]
  <2> HIDE DEF e, b
  <2>2. c = Party(e, b)
    BY <2>1 DEF e, b
  <2> QED BY <2>1, <2>2, PartyIsSeen DEF e
<1>2. \/ ClientFails(k)
      \/ m.last /\ \E l \in {ends, Finished(taken)} : ClientDoes(k, [t EXCEPT ![i] = l], <<>>)
      \/ \E l \in {goes, taken} : \E f : f.cs = 3 /\ ClientDoes(k, [t EXCEPT ![i] = l], <<f>>)
  <2>0. \A toggle : Frame(3).cs = 3 /\ [Frame(3) EXCEPT !.toggle = toggle].cs = 3
    BY DEF Frame
  <2>1. CASE ClientInitiateUpload(k)
    <3>1. \/ ClientFails(k)
          \/ m.last /\ ClientDoes(k, [t EXCEPT ![i] = ends], <<>>)
          \/ ClientDoes(k, [t EXCEPT ![i] = goes], <<Frame(3)>>)
      BY <2>1 DEF ClientInitiateUpload, ClientLine, ClientEnds, ClientGoesOn
    <3> QED BY <2>0, <3>1
  <2>2. CASE ClientUploadSegment(k)
    <3>1. \/ ClientFails(k)
          \/ m.last /\ ClientDoes(k, [t EXCEPT ![i] = Finished(taken)], <<>>)
          \/ ClientDoes(k, [t EXCEPT ![i] = taken], <<[Frame(3) EXCEPT !.toggle = taken.toggle]>>)
      BY <2>2 DEF ClientUploadSegment, ClientLine, ClientEnds, ClientGoesOn
    <3> QED BY <2>0, <3>1
  <2> QED BY <2>1, <2>2
<1>3. /\ Ends(e, ends) /\ Ends(e, Finished(taken))
      /\ GoesOn(e, goes) /\ goes.state = UPLOAD /\ GoesOn(e, taken) /\ taken.state = UPLOAD
  <2>1. DOMAIN e = Fields /\ e.state = UPLOAD /\ e.state # RESET /\ e.state \in InProgress
    BY <1>1, StatesDiffer, BlockStatesDiffer
  <2> HIDE DEF e, m
  <2>2. Ends(e, ends) /\ Ends(e, Finished(taken))
    BY <2>1, StatesDiffer DEF Ends, Owned, Fields, Finished, StopTimer, RestartTimer, SDOtoLine
  <2>3. GoesOn(e, goes) /\ goes.state = UPLOAD /\ GoesOn(e, taken) /\ taken.state = UPLOAD
    BY <2>1 DEF GoesOn, Owned, Fields, RestartTimer, SDOtoLine
  <2> QED BY <2>2, <2>3
<1> HIDE DEF taken, ends, goes
<1>4. CASE ClientFails(k)
  BY <1>4, ClientFailsAgrees
<1>5. CASE m.last /\ \E l \in {ends, Finished(taken)} : ClientDoes(k, [t EXCEPT ![i] = l], <<>>)
  <2>1. PICK l \in {ends, Finished(taken)} : ClientDoes(k, [t EXCEPT ![i] = l], <<>>)
    BY <1>5
  <2>2. Ends(t[i], l) /\ ServerParties(k) = {} /\ Tail(resp[k]) \in {<<>>, <<Abort>>}
    BY <1>3, <1>5, <2>1
  <2> HIDE DEF i
  <2> QED BY <1>1, <2>1, <2>2, ClientEndsPlain DEF i
<1>6. CASE \E l \in {goes, taken} : \E f : f.cs = 3 /\ ClientDoes(k, [t EXCEPT ![i] = l], <<f>>)
  <2>1. PICK l \in {goes, taken} : \E f : f.cs = 3 /\ ClientDoes(k, [t EXCEPT ![i] = l], <<f>>)
    BY <1>6
  <2>4. PICK f : f.cs = 3 /\ ClientDoes(k, [t EXCEPT ![i] = l], <<f>>)
    BY <2>1
  <2>2. GoesOn(t[i], l) /\ l.state = UPLOAD
    BY <1>3, <2>1
  <2>3. ASSUME NEW y, y.state = l.state PROVE AsksPlain(f, y, ServerParties(k))
    BY <2>2, <2>3, <2>4 DEF AsksPlain
  <2> HIDE DEF i
  <2> QED BY <1>1, <2>4, <2>2, <2>3, ClientGoesOnPlain DEF i
<1> QED BY <1>2, <1>4, <1>5, <1>6

\* The line on use goes on with a block.
LEMMA ClientGoesOnBlock ==
  ASSUME Agreed, NEW k \in Conns, ClientLine(k) # NoLine,
         transfers[client[k]][ClientLine(k)].state \in InProgress,
         NEW s, ClientBlockGoesOn(k, ClientLine(k), s),
         Same(RestartTimer(transfers[client[k]][ClientLine(k)]), s.line),
         DOMAIN s.block = BlockFields,
         Talk({Party(s.line, s.block)}, ServerParties(k), req[k] \o s.frames, Tail(resp[k]))
  PROVE  Agreed'
<1> DEFINE t == transfers[client[k]]
           i == ClientLine(k)
<1>1. i \in Lines /\ client[k] \in Nodes /\ DOMAIN t[i] = Fields
  BY AgreedIsSettled, ClientSees, PartiesTalk, ClientStatics
<1>2. /\ ClientDoes(k, [t EXCEPT ![i] = s.line], s.frames)
      /\ block' = [block EXCEPT ![client[k]][i] = s.block]
  BY DEF ClientBlockGoesOn
<1>3. GoesOn(t[i], s.line)
  <2> DEFINE l == t[i]
  <2>1. DOMAIN l = Fields /\ l.state \in InProgress /\ Same(RestartTimer(l), s.line)
    BY <1>1
  <2> HIDE DEF l
  <2>2. GoesOn(l, s.line)
    BY <2>1, TimerIsNotSeen DEF GoesOn, Same, Owned
  <2> QED BY <2>2 DEF l
<1> HIDE DEF i
<1>4. BlocksKept' /\ BlocksStay(client[k], i) /\ block'[client[k]][i] = s.block
  BY <1>1, <1>2, BlockChanges DEF Agreed, Settled
<1>5. Talk({Party(s.line, block'[client[k]][i])}, ServerParties(k), req[k] \o s.frames,
           Tail(resp[k]))
  BY <1>4
<1> QED BY <1>2, <1>3, <1>4, <1>5, ClientContinues DEF i

\* The client's line of a block transfer.
LEMMA ClientIsParty ==
  ASSUME Settled, NEW k \in Conns, NEW c, ClientParties(k) = {c},
         c.state \in {BLOCK_DOWNLOAD, BLOCK_UPLOAD}
  PROVE  LET i == ClientLine(k)
             e == transfers[client[k]][i]
             b == block[client[k]][i]
         IN  /\ i # NoLine /\ i \in Lines /\ DOMAIN b = BlockFields /\ e.state \in InProgress
             /\ Party(RestartTimer(e), b) = c /\ DOMAIN RestartTimer(e) = Fields
             /\ b.rxstep = c.rxstep /\ e.state = c.state /\ DOMAIN e = Fields
<1> DEFINE i == ClientLine(k)
           e == transfers[client[k]][i]
           b == block[client[k]][i]
<1>1. /\ i # NoLine /\ i \in Lines /\ DOMAIN e = Fields /\ DOMAIN b = BlockFields
      /\ c = Party(e, b)
  BY ClientSees
<1> HIDE DEF e, b, i
<1>2. e.state = c.state /\ b.rxstep = c.rxstep
  BY <1>1, PartyIsSeen
<1>3. Party(RestartTimer(e), b) = c /\ DOMAIN RestartTimer(e) = Fields
  BY <1>1, TimerIsNotSeen
<1> QED BY <1>1, <1>2, <1>3, BlockStatesDiffer DEF e, b, i

\* Frames that go out on an empty wire.
LEMMA FirstFrames ==
  ASSUME NEW w, IsSequence(w) \/ \E f : w = <<f>>
  PROVE  <<>> \o w = w
<1>1. \A f : <<f>> \in Seq({f})
  OBVIOUS
<1>2. IsSequence(w)
  BY <1>1 DEF IsSequence
<1> QED BY <1>2, NothingBehind

\* A producing client gets an answer.
LEMMA ClientGetsAck ==
  ASSUME Agreed, NEW k \in Conns, ClientBlockDownload(k), req[k] = <<>>,
         NEW c, NEW s, ClientParties(k) = {c}, ServerParties(k) = {s},
         c.state = BLOCK_DOWNLOAD, s.state = BLOCK_DOWNLOAD,
         resp[k] = <<Head(resp[k])>>,
         \/ /\ Head(resp[k]).sub = INITIATE /\ Head(resp[k]).n = SDO_BLOCK_SIZE /\ Ready(c, s)
         \/ Acks(c, s, Head(resp[k]))
  PROVE  Agreed'
<1> DEFINE m == Head(resp[k])
           i == ClientLine(k)
           e == transfers[client[k]][i]
           l == RestartTimer(e)
           b == block[client[k]][i]
<1>1. /\ i # NoLine /\ DOMAIN b = BlockFields /\ e.state \in InProgress
      /\ Party(l, b) = c /\ DOMAIN l = Fields /\ e.state = BLOCK_DOWNLOAD
  BY AgreedIsSettled, ClientIsParty
<1>2. Started(transfers[client[k]], k, CLIENT, BLOCK_DOWNLOAD)
  BY AgreedIsSettled, ClientIsAt
<1>3. Tail(resp[k]) = <<>>
  BY OneFrame
<1>4. m.n = SDO_BLOCK_SIZE /\ ~(m.n > 127) /\ m.sub # START_UPLOAD
  <2>1. m.n = SDO_BLOCK_SIZE
    BY DEF Acks
  <2>2. m.sub # START_UPLOAD
    BY FramesDiffer DEF Acks
  <2>3. ~(SDO_BLOCK_SIZE > 127)
    BY BlockAssumption
  <2> QED BY <2>1, <2>2, <2>3
<1>5. IF m.sub = INITIATE THEN ClientBlockGoesOn(k, i, AfterBlock(l, b, m.n))
      ELSE IF BadAckSeq(l, b, m) THEN ClientBlockFails(k)
      ELSE ClientBlockGoesOn(k, i, Acknowledged(l, b, m, Block(6, END)))
  <2> HIDE DEF i
  <2> QED BY <1>2, <1>4 DEF ClientBlockDownload, i
<1>6. l.state = BLOCK_DOWNLOAD
  <2> HIDE DEF e, b
  <2>1. Party(RestartTimer(e), b).state = RestartTimer(e).state
    BY PartyIsSeen
  <2> QED BY <1>1, <2>1
<1>7. ASSUME NEW r, ClientBlockGoesOn(k, i, r), Same(l, r.line), DOMAIN r.block = BlockFields,
             \/ Streaming(Party(r.line, r.block), s, r.frames)
             \/ \E f : r.frames = <<f>> /\ Over(s, f)
      PROVE  Agreed'
  <2> DEFINE y == Party(r.line, r.block)
  <2>1. y.state = BLOCK_DOWNLOAD
    BY <1>6, <1>7, PartyIsSeen DEF Same
  <2>2. req[k] \o r.frames = r.frames
    BY <1>7, FirstFrames DEF Streaming
  <2> HIDE DEF y
  <2>3. Streaming(y, s, r.frames) \/ \E f : r.frames = <<f>> /\ Over(s, f)
    BY <1>7 DEF y
  <2>4. BlockDownloads(y, s, r.frames, <<>>)
    BY <2>1, <2>3 DEF BlockDownloads
  <2>5. Talk({y}, {s}, r.frames, <<>>)
    BY <2>4 DEF Talk
  <2> HIDE DEF l, b, e, i
  <2> QED BY <1>1, <1>3, <1>7, <2>2, <2>5, ClientGoesOnBlock DEF i, e, l, y
<1>8. CASE m.sub = INITIATE /\ Ready(c, s)
  <2> DEFINE r == AfterBlock(l, b, m.n)
  <2>1. ClientBlockGoesOn(k, i, r)
    BY <1>5, <1>8
  <2> HIDE DEF r, l, b, m
  <2>2. /\ Streaming(Party(r.line, r.block), s, r.frames)
        /\ r.line = [l EXCEPT !.offset = r.line.offset]
        /\ DOMAIN r.block = BlockFields
    BY <1>1, <1>4, <1>8, BlockGoesOut DEF r
  <2>3. Same(l, r.line)
    BY <1>1, <2>2, SameButOffset
  <2> HIDE DEF i
  <2> QED BY <1>7, <2>1, <2>2, <2>3
<1>9. CASE Acks(c, s, m)
  <2> DEFINE r == Acknowledged(l, b, m, Block(6, END))
  <2>1. m.sub # INITIATE
    BY <1>9, FramesDiffer DEF Acks
  <2>2. /\ ~BadAckSeq(l, b, m) /\ Same(l, r.line) /\ DOMAIN r.block = BlockFields
        /\ \/ Streaming(Party(r.line, r.block), s, r.frames)
           \/ \E f : r.frames = <<f>> /\ Over(s, f)
    <3> HIDE DEF l, b, m
    <3> QED BY <1>1, <1>9, AcknowledgedGoesOn
  <2>3. ClientBlockGoesOn(k, i, r)
    BY <1>5, <2>1, <2>2
  <2> HIDE DEF r, l, i
  <2> QED BY <1>7, <2>2, <2>3
<1> QED BY <1>8, <1>9

\* The answer that all has been downloaded.
LEMMA ClientIsConfirmed ==
  ASSUME Agreed, NEW k \in Conns, ClientEndsBlockDownload(k), req[k] = <<>>,
         ClientParties(k) # {}, ServerParties(k) = {}, Tail(resp[k]) \in {<<>>, <<Abort>>}
  PROVE  Agreed'
<1> DEFINE t == transfers[client[k]]
           i == ClientLine(k)
           e == t[i]
           g == Finished(e)
<1>1. i # NoLine /\ DOMAIN e = Fields /\ e.state # RESET
  BY AgreedIsSettled, ClientSees
<1>2. ClientDoes(k, [t EXCEPT ![i] = g], <<>>) /\ UNCHANGED block
  <2>1. ClientDoes(k, [t EXCEPT ![i] = Finished(@)], <<>>) /\ UNCHANGED block
    BY <1>1 DEF ClientEndsBlockDownload
  <2> QED BY <2>1
<1>3. Ends(e, g)
  <2> HIDE DEF e
  <2> QED BY <1>1, StatesDiffer DEF Ends, Owned, Fields, Finished, StopTimer
<1> HIDE DEF g, i
<1> QED BY <1>1, <1>2, <1>3, ClientEndsPlain DEF i

\* ClientBlockUpload, case by case.
LEMMA ClientUploadCases ==
  ASSUME NEW k \in Conns, ClientBlockUpload(k), ClientLine(k) # NoLine
  PROVE  LET m == Head(resp[k])
             t == transfers[client[k]]
             i == ClientLine(k)
             l == RestartTimer(t[i])
             b == block[client[k]][i]
         IN  /\ b.rxstep = RXSTEP_INIT /\ LowBit(m) = INITIATE =>
                  ClientBlockGoesOn(k, i,
                    [line |-> l, frames |-> <<Block(5, START_UPLOAD)>>,
                     block |-> [b EXCEPT !.rxstep = RXSTEP_STARTED, !.objsize = m.n]])
             /\ b.rxstep = RXSTEP_STARTED =>
                  IF SegmentOverflows(l, b, m) THEN ClientBlockFails(k)
                  ELSE ClientBlockGoesOn(k, i, Received(l, b, m))
             /\ b.rxstep = RXSTEP_END =>
                  \/ ClientFails(k) /\ ForgetsBlocks
                  \/ /\ UNCHANGED block
                     /\ ClientDoes(k, [t EXCEPT ![i] = Finished(Completed(l, b, m))],
                                   <<Block(5, END)>>)
<1> DEFINE m == Head(resp[k])
           t == transfers[client[k]]
           i == ClientLine(k)
           l == RestartTimer(t[i])
           b == block[client[k]][i]
           told == [line |-> l, frames |-> <<Block(5, START_UPLOAD)>>,
                    block |-> [b EXCEPT !.rxstep = RXSTEP_STARTED, !.objsize = m.n]]
           starts == ClientBlockGoesOn(k, i, IF LowBit(m) # INITIATE
                                             THEN [line |-> l, block |-> b, frames |-> <<>>]
                                             ELSE told)
           goes == IF SegmentOverflows(l, b, m) THEN ClientBlockFails(k)
                   ELSE ClientBlockGoesOn(k, i, Received(l, b, m))
           ends == IF LowBit(m) # END \/ WrongSize(l, b, m) THEN ClientBlockFails(k)
                   ELSE /\ ClientDoes(k, [t EXCEPT ![i] = Finished(Completed(l, b, m))],
                                      <<Block(5, END)>>)
                        /\ CallBack(k)
                        /\ UNCHANGED block
           x == b.rxstep
<1>1. (x = RXSTEP_INIT /\ starts) \/ (x = RXSTEP_STARTED /\ goes) \/ (x = RXSTEP_END /\ ends)
  BY DEF ClientBlockUpload
<1>2. /\ RXSTEP_INIT # RXSTEP_STARTED /\ RXSTEP_INIT # RXSTEP_END
      /\ RXSTEP_STARTED # RXSTEP_END
  BY DEF RXSTEP_INIT, RXSTEP_STARTED, RXSTEP_END
<1> HIDE DEF x, starts, goes, ends
<1>3. (x = RXSTEP_INIT => starts) /\ (x = RXSTEP_STARTED => goes) /\ (x = RXSTEP_END => ends)
  BY <1>1, <1>2
<1>4. starts /\ LowBit(m) = INITIATE => ClientBlockGoesOn(k, i, told)
  <2> HIDE DEF told
  <2> QED BY DEF starts
<1>5. ends => \/ ClientFails(k) /\ ForgetsBlocks
              \/ /\ UNCHANGED block
                 /\ ClientDoes(k, [t EXCEPT ![i] = Finished(Completed(l, b, m))],
                               <<Block(5, END)>>)
  BY DEF ends, ClientBlockFails
<1> QED BY <1>3, <1>4, <1>5 DEF x, goes

\* A consuming client gets a frame.
LEMMA ClientGetsUpload ==
  ASSUME Agreed, NEW k \in Conns, ClientBlockUpload(k), req[k] = <<>>,
         NEW c, NEW s, ClientParties(k) = {c}, ServerParties(k) = {s},
         c.state = BLOCK_UPLOAD, s.state = BLOCK_UPLOAD, NEW m, m = Head(resp[k]),
         \/ /\ resp[k] = <<m>> /\ m.cs = 6 /\ m.sub = INITIATE
            /\ c.rxstep = RXSTEP_INIT /\ c.offset = 0 /\ c.seqno = 0
            /\ Produces(s) /\ s.offset = 0 /\ s.blksize = SDO_BLOCK_SIZE
         \/ Streaming(s, c, resp[k])
         \/ resp[k] = <<m>> /\ Over(c, m)
  PROVE  Agreed'
<1> DEFINE i == ClientLine(k)
           e == transfers[client[k]][i]
           l == RestartTimer(e)
           b == block[client[k]][i]
<1>1. /\ i # NoLine /\ DOMAIN b = BlockFields /\ e.state \in InProgress
      /\ Party(l, b) = c /\ DOMAIN l = Fields /\ e.state = BLOCK_UPLOAD /\ b.rxstep = c.rxstep
      /\ DOMAIN e = Fields
  BY AgreedIsSettled, ClientIsParty
<1>2. l.state = BLOCK_UPLOAD
  <2> HIDE DEF e, b
  <2>1. Party(RestartTimer(e), b).state = RestartTimer(e).state
    BY PartyIsSeen
  <2> QED BY <1>1, <2>1
<1>3. ASSUME NEW r, ClientBlockGoesOn(k, i, r), Same(l, r.line), DOMAIN r.block = BlockFields,
             NEW y, y = Party(r.line, r.block), y.state = BLOCK_UPLOAD =>
               BlockUploads(y, s, <<>> \o r.frames, Tail(resp[k]))
      PROVE  Agreed'
  <2>1. y.state = BLOCK_UPLOAD
    BY <1>2, <1>3, PartyIsSeen DEF Same
  <2>2. Talk({Party(r.line, r.block)}, ServerParties(k), req[k] \o r.frames, Tail(resp[k]))
    BY <1>3, <2>1 DEF Talk
  <2> HIDE DEF l, b, e, i
  <2> QED BY <1>1, <1>3, <2>2, ClientGoesOnBlock DEF i, e, l
<1>4. CASE /\ resp[k] = <<m>> /\ m.cs = 6 /\ m.sub = INITIATE
           /\ c.rxstep = RXSTEP_INIT /\ c.offset = 0 /\ c.seqno = 0
           /\ Produces(s) /\ s.offset = 0 /\ s.blksize = SDO_BLOCK_SIZE
  <2> DEFINE f == Block(5, START_UPLOAD)
             g == [b EXCEPT !.rxstep = RXSTEP_STARTED, !.objsize = m.n]
             r == [line |-> l, frames |-> <<f>>, block |-> g]
             y == Party(r.line, r.block)
  <2>1. LowBit(m) = INITIATE
    <3>1. ~IsSegment(m)
      BY <1>4 DEF IsSegment
    <3> QED BY <1>4, <3>1 DEF LowBit, INITIATE
  <2>2. ClientBlockGoesOn(k, i, r)
    <3>1. b.rxstep = RXSTEP_INIT /\ LowBit(Head(resp[k])) = INITIATE
      BY <1>1, <1>4, <2>1
    <3> QED BY <1>1, <3>1, ClientUploadCases
  <2> HIDE DEF f
  <2>3. r.line = l /\ r.block = g /\ r.frames = <<f>>
    OBVIOUS
  <2>4. DOMAIN g = BlockFields /\ g.rxstep = RXSTEP_STARTED /\ g.seqno = b.seqno
    <3> HIDE DEF b
    <3> QED BY <1>1 DEF BlockFields, b
  <2>5. Same(l, l)
    <3> HIDE DEF l
    <3> QED BY <1>1 DEF Same, Owned, l
  <2> HIDE DEF g, r
  <2>6. y.rxstep = RXSTEP_STARTED /\ y.offset = 0 /\ y.seqno = 0
    <3> HIDE DEF l, b
    <3>1. /\ Party(l, b).offset = l.offset /\ Party(l, b).seqno = b.seqno
          /\ y.rxstep = r.block.rxstep /\ y.offset = r.line.offset /\ y.seqno = r.block.seqno
      BY PartyIsSeen
    <3>2. l.offset = 0 /\ b.seqno = 0
      BY <1>1, <1>4, <3>1
    <3> QED BY <2>3, <2>4, <3>1, <3>2
  <2> HIDE DEF y
  <2>7. Ready(s, y)
    <3>1. s.offset # s.count
      <4>1. s.count \in Nat \ {0}
        BY <1>4, LineAssumption DEF Produces
      <4> QED BY <1>4, <4>1
    <3> QED BY <1>4, <2>6, <3>1 DEF Ready
  <2>8. y.state = BLOCK_UPLOAD => BlockUploads(y, s, <<>> \o r.frames, Tail(resp[k]))
    <3>1. f.cs = 5 /\ f.sub = START_UPLOAD
      BY DEF f, Block, Frame
    <3>2. <<>> \o r.frames = <<f>> /\ Tail(resp[k]) = <<>>
      BY <1>4, <2>3, OneBehindOther, OneFrame
    <3> QED BY <1>4, <2>7, <3>1, <3>2 DEF BlockUploads
  <2> HIDE DEF l
  <2> QED BY <1>3, <2>2, <2>3, <2>4, <2>5, <2>8 DEF y
<1>5. CASE Streaming(s, c, resp[k])
  <2> DEFINE r == Received(l, b, m)
             y == Party(r.line, r.block)
             p == resp[k]
  <2>1. b.rxstep = RXSTEP_STARTED
    BY <1>1, <1>5 DEF Streaming
  <2>2. /\ ~SegmentOverflows(l, b, m) /\ Same(l, r.line) /\ DOMAIN r.block = BlockFields
        /\ \/ r.frames = <<>> /\ Streaming(s, y, Tail(p))
           \/ Tail(p) = <<>> /\ \E a : r.frames = <<a>> /\ a.cs = 5 /\ Acks(s, y, a)
    <3>1. Streaming(s, Party(l, b), p) /\ m = Head(p)
      BY <1>1, <1>5
    <3> HIDE DEF l, b, p
    <3>2. LET g == Received(l, b, Head(p))
              z == Party(g.line, g.block)
          IN  /\ ~SegmentOverflows(l, b, Head(p))
              /\ Same(l, g.line) /\ DOMAIN g.block = BlockFields
              /\ \/ g.frames = <<>> /\ Streaming(s, z, Tail(p))
                 \/ Tail(p) = <<>> /\ \E a : g.frames = <<a>> /\ a.cs = 5 /\ Acks(s, z, a)
      BY <1>1, <3>1, ReceivedGoesOn
    <3> QED BY <3>1, <3>2
  <2>3. ClientBlockGoesOn(k, i, r)
    BY <1>1, <2>1, <2>2, ClientUploadCases
  <2> HIDE DEF r, y, l
  <2>4. y.state = BLOCK_UPLOAD => BlockUploads(y, s, <<>> \o r.frames, Tail(p))
    <3>1. CASE r.frames = <<>> /\ Streaming(s, y, Tail(p))
      <4>1. <<>> \o r.frames = <<>>
        BY <3>1
      <4> QED BY <3>1, <4>1 DEF BlockUploads
    <3>2. CASE Tail(p) = <<>> /\ \E a : r.frames = <<a>> /\ a.cs = 5 /\ Acks(s, y, a)
      <4>1. PICK a : r.frames = <<a>> /\ a.cs = 5 /\ Acks(s, y, a)
        BY <3>2
      <4>2. <<>> \o r.frames = <<a>>
        BY <4>1, OneBehindOther
      <4> QED BY <3>2, <4>1, <4>2 DEF BlockUploads
    <3> QED BY <2>2, <3>1, <3>2
  <2> QED BY <1>3, <2>2, <2>3, <2>4 DEF y
<1>6. CASE resp[k] = <<m>> /\ Over(c, m)
  <2> DEFINE g == Completed(l, b, m)
             d == Finished(g)
             f == Block(5, END)
  <2>1. b.rxstep = RXSTEP_END /\ Tail(resp[k]) = <<>>
    <3>1. Tail(resp[k]) = <<>>
      BY <1>6, OneFrame
    <3> QED BY <1>1, <1>6, <3>1 DEF Over
  <2>2. \/ ClientFails(k) /\ ForgetsBlocks
        \/ UNCHANGED block /\ ClientDoes(k, [transfers[client[k]] EXCEPT ![i] = d], <<f>>)
    BY <1>1, <2>1, ClientUploadCases
  <2>3. CASE ClientFails(k) /\ ForgetsBlocks
    BY <2>1, <2>3, ClientFailsAgrees
  <2>4. CASE UNCHANGED block /\ ClientDoes(k, [transfers[client[k]] EXCEPT ![i] = d], <<f>>)
    <3>1. Ends(e, d)
      <4>1. /\ DOMAIN l = Fields /\ l.CliServNbr = e.CliServNbr /\ l.whoami = e.whoami
        <5> HIDE DEF e
        <5> QED BY <1>1, TimerIsNotSeen DEF e
      <4>2. e.state # RESET
        BY <1>1, BlockStatesDiffer
      <4> HIDE DEF l, e, b
      <4> QED BY <4>1, <4>2, StatesDiffer
              DEF Ends, Owned, Fields, Finished, StopTimer, Completed, SDOtoLine
    <3>2. Rests(ServerParties(k), req[k] \o <<f>>, Tail(resp[k]))
      <4>1. Closes(f, {s})
        BY DEF Closes
      <4>2. req[k] \o <<f>> = <<f>>
        BY OneBehindOther
      <4> QED BY <2>1, <4>1, <4>2 DEF Rests
    <3> HIDE DEF d, f, i
    <3> QED BY <1>1, <2>4, <3>1, <3>2, ClientFinishes DEF i
  <2> QED BY <2>2, <2>3, <2>4
<1> QED BY <1>4, <1>5, <1>6

\* The answer of a server in a plain transfer.
LEMMA ClientPlainAgrees ==
  ASSUME Agreed, NEW k \in Conns, ClientDispatches(k), req[k] = <<>>,
         NEW m, m = Head(resp[k]), NEW c, ClientParties(k) = {c},
         \/ Tail(resp[k]) = <<>> /\ AnswersPlain(m, c, ServerParties(k))
         \/ /\ Tail(resp[k]) \in {<<>>, <<Abort>>} /\ ServerParties(k) = {} /\ ConfirmsAll(m, c)
            /\ m.cs = 1
  PROVE  Agreed'
<1>1. /\ \A s \in ServerParties(k) : s.state = c.state
      /\ \/ /\ m.cs \in {1, 3} /\ c.state = DOWNLOAD /\ Produces(c)
            /\ c.offset = c.count => ServerParties(k) = {}
            /\ Tail(resp[k]) = <<>> \/ (c.offset = c.count /\ Tail(resp[k]) = <<Abort>>)
         \/ /\ m.cs \in {0, 2} /\ c.state = UPLOAD /\ (m.last => ServerParties(k) = {})
            /\ Tail(resp[k]) = <<>>
  BY DEF AnswersPlain, ConfirmsAll
<1>2. ~ClientReadsData(k)
  <2>1. ~\E x : ClientParties(k) = {x} /\ x.state = BLOCK_UPLOAD
    BY <1>1, BlockStatesDiffer
  <2>2. ~Started(transfers[client[k]], k, CLIENT, BLOCK_UPLOAD)
    BY <2>1, AgreedIsSettled, ClientIsAt
  <2> QED BY <2>2 DEF ClientReadsData
<1>3. /\ m.cs = 1 => ClientDownloadSegment(k) /\ ForgetsBlocks
      /\ m.cs = 3 => ClientInitiateDownload(k) /\ ForgetsBlocks
      /\ m.cs = 0 => ClientUploadSegment(k) /\ ForgetsBlocks
      /\ m.cs = 2 => ClientInitiateUpload(k) /\ ForgetsBlocks
  BY <1>2, ClientHandlers
<1>4. CASE /\ m.cs \in {1, 3} /\ c.state = DOWNLOAD /\ Produces(c)
           /\ c.offset = c.count => ServerParties(k) = {}
           /\ Tail(resp[k]) = <<>> \/ (c.offset = c.count /\ Tail(resp[k]) = <<Abort>>)
  <2>1. (ClientInitiateDownload(k) \/ ClientDownloadSegment(k)) /\ ForgetsBlocks
    BY <1>3, <1>4
  <2>2. \A s \in ServerParties(k) : s.state = DOWNLOAD
    BY <1>1, <1>4
  <2> QED BY <1>4, <2>1, <2>2, ClientDownloadAnswered
<1>5. CASE /\ m.cs \in {0, 2} /\ c.state = UPLOAD /\ (m.last => ServerParties(k) = {})
           /\ Tail(resp[k]) = <<>>
  <2>1. (ClientInitiateUpload(k) \/ ClientUploadSegment(k)) /\ ForgetsBlocks
    BY <1>3, <1>5
  <2>2. \A s \in ServerParties(k) : s.state = UPLOAD
    BY <1>1, <1>5
  <2> QED BY <1>5, <2>1, <2>2, ClientUploadAnswered
<1> QED BY <1>1, <1>4, <1>5

\* The answer that ends a download in blocks.
LEMMA ClientConfirmedAgrees ==
  ASSUME Agreed, NEW k \in Conns, ClientDispatches(k), req[k] = <<>>,
         NEW c, ClientParties(k) = {c}, ServerParties(k) = {},
         Tail(resp[k]) \in {<<>>, <<Abort>>}, Head(resp[k]).cs = 5, Head(resp[k]).sub = END,
         c.state = BLOCK_DOWNLOAD
  PROVE  Agreed'
<1>1. ~ClientReadsData(k)
  <2>1. ~\E x : ClientParties(k) = {x} /\ x.state = BLOCK_UPLOAD
    BY BlockStatesDiffer
  <2>2. ~Started(transfers[client[k]], k, CLIENT, BLOCK_UPLOAD)
    BY <2>1, AgreedIsSettled, ClientIsAt
  <2> QED BY <2>2 DEF ClientReadsData
<1>2. ClientEndsBlockDownload(k)
  BY <1>1, ClientHandlers
<1> QED BY <1>2, ClientIsConfirmed

\* A frame of a transfer in blocks.
LEMMA ClientBlockAgrees ==
  ASSUME Agreed, NEW k \in Conns, ClientDispatches(k), req[k] = <<>>, resp[k] # <<>>,
         NEW c, NEW s, ClientParties(k) = {c}, ServerParties(k) = {s},
         ClientReadsBlock(c, s, resp[k])
  PROVE  Agreed'
<1> DEFINE m == Head(resp[k])
<1>1. CASE /\ c.state = BLOCK_DOWNLOAD /\ s.state = BLOCK_DOWNLOAD
           /\ resp[k] = <<m>> /\ m.cs = 5
           /\ \/ m.sub = INITIATE /\ m.n = SDO_BLOCK_SIZE /\ Ready(c, s)
              \/ Acks(c, s, m)
  <2>1. ~ClientReadsData(k)
    <3>1. ~\E x : ClientParties(k) = {x} /\ x.state = BLOCK_UPLOAD
      BY <1>1, BlockStatesDiffer
    <3>2. ~Started(transfers[client[k]], k, CLIENT, BLOCK_UPLOAD)
      BY <3>1, AgreedIsSettled, ClientIsAt
    <3> QED BY <3>2 DEF ClientReadsData
  <2>2. m.sub # END
    BY <1>1, FramesDiffer DEF Acks
  <2>3. ClientBlockDownload(k)
    BY <1>1, <2>1, <2>2, ClientHandlers
  <2> QED BY <1>1, <2>3, ClientGetsAck
<1>2. CASE /\ c.state = BLOCK_UPLOAD /\ s.state = BLOCK_UPLOAD
           /\ \/ /\ resp[k] = <<m>> /\ m.cs = 6 /\ m.sub = INITIATE
                 /\ c.rxstep = RXSTEP_INIT /\ c.offset = 0 /\ c.seqno = 0
                 /\ Produces(s) /\ s.offset = 0 /\ s.blksize = SDO_BLOCK_SIZE
              \/ Streaming(s, c, resp[k])
              \/ resp[k] = <<m>> /\ Over(c, m)
  <2>1. m # Abort
    <3>1. CASE Streaming(s, c, resp[k])
      BY <3>1, FirstOfBlock
    <3>2. CASE m.cs = 6
      BY <3>2, FramesDiffer
    <3> QED BY <1>2, <3>1, <3>2 DEF Over
  <2>2. ClientReadsData(k)
    BY <1>2, <2>1, AgreedIsSettled, ClientIsAt DEF ClientReadsData
  <2>3. ClientBlockUpload(k)
    BY <2>2, ClientHandlers
  <2> QED BY <1>2, <2>3, ClientGetsUpload
<1> QED BY <1>1, <1>2 DEF ClientReadsBlock

LEMMA TwoFrames ==
  ASSUME NEW w, NEW m, NEW x, w = <<m, x>>
  PROVE  Tail(w) = <<x>>
OBVIOUS

\* Whatever the client reads, the parties agree on it.
LEMMA ClientAgrees ==
  ASSUME Agreed, NEW k \in Conns, ClientDispatches(k)
  PROVE  Agreed'
<1> DEFINE C == ClientParties(k)
           S == ServerParties(k)
           q == req[k]
           p == resp[k]
<1>1. p # <<>>
  BY DEF ClientDispatches, ClientHandles, ClientInitiateDownload, ClientDownloadSegment,
         ClientInitiateUpload, ClientUploadSegment, ClientAbort, ClientBlockDownload,
         ClientEndsBlockDownload, ClientBlockUpload, ClientGets, ClientGetsBlock
<1>2. Talk(C, S, q, p)
  BY AgreedIsSettled, PartiesTalk, ClientStatics
<1> HIDE DEF C, S, q, p
<1>3. \/ ClientIsTold(S, q, p)
      \/ ClientReadsAnswer(C, S, q, p)
      \/ q = <<>> /\ \E c, s : C = {c} /\ S = {s} /\ ClientReadsBlock(c, s, p)
  BY <1>1, <1>2, WhatClientReads
<1>4. CASE ClientIsTold(S, q, p)
  BY <1>4, ClientToldAgrees DEF S, q, p
<1>5. CASE ClientReadsAnswer(C, S, q, p)
  <2> DEFINE m == Head(p)
  <2>1. PICK c : /\ q = <<>> /\ C = {c}
                 /\ \/ p = <<m>> /\ AnswersPlain(m, c, S)
                    \/ p \in {<<m>>, <<m, Abort>>} /\ S = {} /\ ConfirmsAll(m, c)
    BY <1>5 DEF ClientReadsAnswer
  <2>2. /\ p = <<m>> => Tail(p) = <<>>
        /\ p = <<m, Abort>> => Tail(p) = <<Abort>>
    <3> HIDE DEF m
    <3> QED BY OneFrame, TwoFrames
  <2>3. \/ Tail(p) = <<>> /\ AnswersPlain(m, c, S)
        \/ Tail(p) \in {<<>>, <<Abort>>} /\ S = {} /\ ConfirmsAll(m, c)
    BY <2>1, <2>2
  <2> HIDE DEF m
  <2>4. \/ Tail(p) = <<>> /\ AnswersPlain(m, c, S)
        \/ Tail(p) \in {<<>>, <<Abort>>} /\ S = {} /\ ConfirmsAll(m, c) /\ m.cs = 1
        \/ /\ Tail(p) \in {<<>>, <<Abort>>} /\ S = {} /\ m.cs = 5 /\ m.sub = END
           /\ c.state = BLOCK_DOWNLOAD
    BY <2>3 DEF ConfirmsAll
  <2>5. CASE /\ Tail(p) \in {<<>>, <<Abort>>} /\ S = {} /\ m.cs = 5 /\ m.sub = END
             /\ c.state = BLOCK_DOWNLOAD
    BY <2>1, <2>5, ClientConfirmedAgrees DEF C, S, q, p, m
  <2>6. CASE \/ Tail(p) = <<>> /\ AnswersPlain(m, c, S)
             \/ Tail(p) \in {<<>>, <<Abort>>} /\ S = {} /\ ConfirmsAll(m, c) /\ m.cs = 1
    BY <2>1, <2>6, ClientPlainAgrees DEF C, S, q, p, m
  <2> QED BY <2>4, <2>5, <2>6
<1>6. CASE q = <<>> /\ \E c, s : C = {c} /\ S = {s} /\ ClientReadsBlock(c, s, p)
  BY <1>1, <1>6, ClientBlockAgrees DEF C, S, q, p
<1> QED BY <1>3, <1>4, <1>5, <1>6

-----------------------------------------------------------------------------
(***************************************************************************)
(* The watchdog.                                                           *)
(***************************************************************************)
\* A line that is k's in role w is its party there, if it is one.
LEMMA LineIsParty ==
  ASSUME NEW t, LinesOK(t), NEW b, NEW k \in Conns, NEW w \in {SERVER, CLIENT},
         NEW i \in Lines, LineToClose(t, k, w, i)
  PROVE  /\ Parties(t, b, k, w) = AParty(t[i], b[i])
         /\ \A j \in Lines \ {i} : ~OnUse(t, k, w, j)
         /\ Belongs(t[i], k, w)
<1>1. \A j \in Lines \ {i} : ~OnUse(t, k, w, j)
  BY DEF LinesOK, OnUse
<1>2. OnUse(t, k, w, i) <=> InUse(t[i])
  BY DEF OnUse, LineToClose, InUse
<1>3. CASE InUse(t[i])
  <2>1. {j \in Lines : OnUse(t, k, w, j)} = {i}
    BY <1>1, <1>2, <1>3
  <2>2. Parties(t, b, k, w) = {Party(t[i], b[i])}
    BY <2>1 DEF Parties
  <2> QED BY <1>1, <1>3, <2>2 DEF AParty, Belongs, LineToClose
<1>4. CASE ~InUse(t[i])
  <2>1. {j \in Lines : OnUse(t, k, w, j)} = {}
    BY <1>1, <1>2, <1>4
  <2>2. Parties(t, b, k, w) = {}
    BY <2>1 DEF Parties
  <2> QED BY <1>1, <1>4, <2>2 DEF AParty, Belongs, LineToClose
<1> QED BY <1>3, <1>4

\* A client that is at nothing waits for nothing.
LEMMA ClientAtRest ==
  ASSUME NEW C, \A c \in C : c.state \notin InProgress, NEW S, NEW q, NEW p, Talk(C, S, q, p)
  PROVE  Quiet(C, S, q, p) \/ GivenUp(C, S, q, p)
<1>1. \A c : C = {c} => c.state \notin {DOWNLOAD, UPLOAD, BLOCK_DOWNLOAD, BLOCK_UPLOAD}
  BY DEF InProgress
<1>2. ASSUME NEW c, Asks(c, S, q, p) \/ Answers(c, S, q, p)
      PROVE  c.state \in {DOWNLOAD, UPLOAD, BLOCK_DOWNLOAD, BLOCK_UPLOAD}
  BY <1>2 DEF Asks, Answers, Requests, AsksPlain, AnswersPlain, ConfirmsAll
<1>3. ASSUME NEW c, NEW s, BlockDownloads(c, s, q, p) \/ BlockUploads(c, s, q, p)
      PROVE  c.state \in {DOWNLOAD, UPLOAD, BLOCK_DOWNLOAD, BLOCK_UPLOAD}
  BY <1>3 DEF BlockDownloads, BlockUploads
<1> QED BY <1>1, <1>2, <1>3 DEF Talk

\* Where no frame is in flight nobody is at anything.
LEMMA NobodyTalks ==
  ASSUME NEW C, NEW S, NEW q, NEW p, q = <<>>, p = <<>>, Talk(C, S, q, p)
  PROVE  S = {} /\ \A c \in C : c.state \notin InProgress
<1>1. \A c, s : ~Streaming(c, s, <<>>)
  BY DEF Streaming
<1>2. \A m, x : <<>> # <<m>> /\ <<>> # <<x, m>>
  OBVIOUS
<1>3. ~GivenUp(C, S, q, p) /\ \A c : ~Asks(c, S, q, p) /\ ~Answers(c, S, q, p)
  BY <1>2 DEF GivenUp, Asks, Answers
<1>4. \A c, s : ~BlockDownloads(c, s, q, p) /\ ~BlockUploads(c, s, q, p)
  BY <1>1, <1>2 DEF BlockDownloads, BlockUploads
<1>5. Quiet(C, S, q, p)
  BY <1>3, <1>4 DEF Talk
<1> QED BY <1>2, <1>5 DEF Quiet

\* A watchdog that goes off in vain.
LEMMA LateAlarmActs ==
  ASSUME Settled, LineInvariant', NEW n \in Nodes, NEW i \in Lines,
         SDOTimeoutAlarm(n, i), ForgetsBlocks, n \notin HasClientEntry,
         NEW k, k = transfers[n][i].CliServNbr
  PROVE  k \in Conns /\ Acts(k, ClientParties(k), ServerParties(k), req[k], resp[k])
<1> DEFINE t == transfers[n]
           l == t[i]
           w == l.whoami
           late == [l EXCEPT !.timer = STALE]
<1>1. LinesOK(t) /\ DOMAIN transfers = Nodes /\ Placed(n, l) /\ BlocksKept
  BY DEF Settled, LineInvariant
<1>2. /\ l.timer = ARMED /\ UNCHANGED <<req, resp>> /\ running' = running
      /\ transfers' = [transfers EXCEPT ![n] = [t EXCEPT ![i] = late]]
  BY DEF SDOTimeoutAlarm, AlarmDue, faultVars
<1>3. /\ k \in Conns /\ l.state # RESET /\ w \in {SERVER, CLIENT}
      /\ n = IF w = SERVER THEN server[k] ELSE client[k]
  BY <1>1, <1>2, StatesDiffer DEF Placed
<1>4. /\ late.state = l.state /\ late.CliServNbr = k /\ late.whoami = w
      /\ \A b : Party(late, b) = Party(l, b)
  <2>1. DOMAIN l = Fields /\ l.CliServNbr = k
    BY <1>1 DEF LinesOK
  <2> HIDE DEF l
  <2> QED BY <2>1 DEF Party, Fields
<1>5. LineToClose(t, k, w, i)
  BY <1>3 DEF LineToClose
<1> HIDE DEF w, late
<1>6. BlocksKept' /\ BlocksStay(n, i) /\ block'[n][i] = block[n][i]
  BY <1>1, <1>2, <1>3, <1>4, OneBlockForgotten DEF Settled
<1>7. /\ Parties(t, block[n], k, w) = AParty(l, block[n][i])
      /\ \A j \in Lines \ {i} : ~OnUse(t, k, w, j)
      /\ Belongs(l, k, w)
  BY <1>1, <1>3, <1>5, LineIsParty
<1>8. AParty(late, block'[n][i]) = AParty(l, block[n][i]) /\ Belongs(late, k, w)
  BY <1>4, <1>6 DEF AParty, InUse, Belongs
<1>9. Turns(n, k, w, i, late)
  BY <1>2, <1>3, <1>6, <1>7, <1>8 DEF Turns
<1>10. OthersWait(k) /\ req'[k] = req[k] /\ resp'[k] = resp[k]
  BY <1>2 DEF OthersWait, Settled
<1>11. /\ w = SERVER => ServerParties(k) = AParty(late, block'[n][i])
       /\ w # SERVER => ClientParties(k) = AParty(late, block'[n][i])
  BY <1>3, <1>7, <1>8 DEF ServerParties, ClientParties
<1> DEFINE A == AParty(late, block'[n][i])
<1>12. Acts(k, IF w = SERVER THEN ClientParties(k) ELSE A,
            IF w = SERVER THEN A ELSE ServerParties(k), req'[k], resp'[k])
  BY <1>3, <1>6, <1>9, <1>10, TurnActs
<1> HIDE DEF A
<1>13. Acts(k, ClientParties(k), ServerParties(k), req[k], resp[k])
  BY <1>10, <1>11, <1>12 DEF A
<1> QED BY <1>3, <1>13

\* A watchdog that closes its line and tells the other side.
LEMMA AlarmActs ==
  ASSUME Settled, LineInvariant', ~LateAnswers, NEW n \in Nodes, NEW i \in Lines,
         SDOTimeoutAlarm(n, i), ForgetsBlocks, n \in HasClientEntry,
         NEW k, k = transfers[n][i].CliServNbr
  PROVE  /\ k \in Conns /\ req[k] = <<>> /\ resp[k] = <<>>
         /\ \/ Acts(k, {}, ServerParties(k), <<Abort>>, <<>>) /\ CallBack(k)
            \/ Acts(k, ClientParties(k), {}, <<>>, <<Abort>>) /\ calls' = calls
<1> DEFINE t == transfers[n]
           l == t[i]
           w == l.whoami
<1>1. LinesOK(t) /\ DOMAIN transfers = Nodes /\ Placed(n, l) /\ BlocksKept
  BY DEF Settled, LineInvariant
<1>2. /\ l.timer = ARMED /\ req[k] = <<>> /\ resp[k] = <<>> /\ running' = running
      /\ transfers' = [transfers EXCEPT ![n] = [t EXCEPT ![i] = ResetLine]]
      /\ req' = IF w = CLIENT THEN [req EXCEPT ![k] = Append(@, Abort)] ELSE req
      /\ resp' = IF w = SERVER THEN [resp EXCEPT ![k] = Append(@, Abort)] ELSE resp
      /\ IF w = CLIENT THEN CallBack(k) ELSE UNCHANGED calls
  BY DEF SDOTimeoutAlarm, AlarmDue, NothingLate, faultVars
<1>3. /\ k \in Conns /\ l.state # RESET
      /\ (w = CLIENT /\ client[k] = n) \/ (w = SERVER /\ server[k] = n)
  BY <1>1, <1>2 DEF Placed
<1>4. LineToClose(t, k, w, i)
  BY <1>3 DEF LineToClose
<1> HIDE DEF w
<1>5. Belongs(l, k, w) /\ \A j \in Lines \ {i} : ~OnUse(t, k, w, j)
  BY <1>1, <1>3, <1>4, LineIsParty
<1>6. BlocksKept' /\ BlocksStay(n, i)
  BY <1>1, <1>2, OneBlockForgotten DEF Settled
<1>7. Belongs(ResetLine, k, w) /\ AParty(ResetLine, block'[n][i]) = {} /\ CLIENT # SERVER
  BY ResetIsNotInUse, StatesDiffer DEF AParty
<1>8. Turns(n, k, w, i, ResetLine) /\ w \in {SERVER, CLIENT}
  BY <1>2, <1>3, <1>5, <1>6, <1>7 DEF Turns
<1>9. /\ OthersWait(k) /\ req'[k] = (IF w = CLIENT THEN <<Abort>> ELSE <<>>)
      /\ resp'[k] = (IF w = SERVER THEN <<Abort>> ELSE <<>>)
  <2>1. Append(<<>>, Abort) = <<Abort>>
    OBVIOUS
  <2>2. DOMAIN req = Conns /\ DOMAIN resp = Conns
    BY DEF Settled
  <2> QED BY <1>2, <1>3, <1>7, <2>1, <2>2 DEF OthersWait
<1> DEFINE A == AParty(ResetLine, block'[n][i])
<1>10. Acts(k, IF w = SERVER THEN ClientParties(k) ELSE A,
            IF w = SERVER THEN A ELSE ServerParties(k), req'[k], resp'[k])
  BY <1>3, <1>6, <1>8, <1>9, TurnActs
<1> HIDE DEF A
<1>11. \/ Acts(k, {}, ServerParties(k), <<Abort>>, <<>>) /\ CallBack(k)
       \/ Acts(k, ClientParties(k), {}, <<>>, <<Abort>>) /\ calls' = calls
  <2>1. CASE w = CLIENT
    BY <1>2, <1>7, <1>9, <1>10, <2>1 DEF A
  <2>2. CASE w = SERVER
    BY <1>2, <1>7, <1>9, <1>10, <2>2 DEF A
  <2> QED BY <1>8, <2>1, <2>2
<1> QED BY <1>2, <1>3, <1>11

\* The watchdog goes off when no frame is in flight.
LEMMA AlarmAgrees ==
  ASSUME Agreed, ~LateAnswers, NEW n \in Nodes, NEW i \in Lines, Elapses(n, i)
  PROVE  Agreed'
<1>0. PICK k : k = transfers[n][i].CliServNbr
  OBVIOUS
<1>1. /\ SDOTimeoutAlarm(n, i) /\ ForgetsBlocks /\ Settled /\ od' = od
  BY AgreedIsSettled DEF Elapses, SDOTimeoutAlarm
<1>2. LineInvariant' /\ ObjectsHold'
  BY <1>1, TimeoutKeeps, ObjectsStay DEF Settled
<1>3. CASE n \notin HasClientEntry
  <2>1. k \in Conns /\ Acts(k, ClientParties(k), ServerParties(k), req[k], resp[k])
    BY <1>1, <1>2, <1>3, <1>0, LateAlarmActs
  <2> QED BY <1>2, <2>1, PartiesTalk, ActsAgree
<1>4. CASE n \in HasClientEntry
  <2>1. /\ k \in Conns /\ req[k] = <<>> /\ resp[k] = <<>>
        /\ \/ Acts(k, {}, ServerParties(k), <<Abort>>, <<>>)
           \/ Acts(k, ClientParties(k), {}, <<>>, <<Abort>>)
    BY <1>1, <1>2, <1>4, <1>0, AlarmActs
  <2>2. ServerParties(k) = {}
    BY <2>1, PartiesTalk, NobodyTalks
  <2>3. Talk({}, {}, <<Abort>>, <<>>)
    <3>1. Closes(Abort, {})
      BY DEF Closes
    <3>2. Quiet({}, {}, <<Abort>>, <<>>)
      BY <3>1 DEF Quiet
    <3> QED BY <3>2 DEF Talk
  <2>4. Talk(ClientParties(k), {}, <<>>, <<Abort>>)
    BY DEF Talk, GivenUp
  <2> QED BY <1>2, <2>1, <2>2, <2>3, <2>4, ActsAgree
<1> QED BY <1>3, <1>4

-----------------------------------------------------------------------------
(***************************************************************************)
(* The user starts a transfer.                                             *)
(***************************************************************************)
\* The client of k has a line of its own, and its request is on its way.
LEMMA StartsActs ==
  ASSUME Settled, ~LateAnswers, BlocksKept', NEW k \in Conns, NEW r, NEW l, NEW f,
         Starts(k, r, l, f), DOMAIN l = Fields, l.CliServNbr = k, l.whoami = CLIENT,
         l.state \in InProgress, l.timer \in Watchdogs,
         BlocksStay(client[k], getSDOfreeLine(transfers[client[k]]))
  PROVE  LET i == getSDOfreeLine(transfers[client[k]])
         IN  /\ Acts(k, {Party(l, block'[client[k]][i])}, ServerParties(k), Append(req[k], f), <<>>)
             /\ ObjectsHold' /\ ClientParties(k) = {} /\ resp[k] = <<>>
<1> DEFINE n == client[k]
           t == transfers[n]
           i == getSDOfreeLine(t)
           A == AParty(l, block'[n][i])
<1>1. /\ getSDOlineOnUse(t, k, CLIENT) = NoLine /\ i # NoLine /\ resp[k] = <<>>
      /\ transfers' = [transfers EXCEPT ![n] = [t EXCEPT ![i] = l]]
      /\ req' = [req EXCEPT ![k] = Append(@, f)]
      /\ resp' = resp /\ od' = od /\ running' = running
  BY DEF Starts, faultVars
<1>2. LineInvariant'
  BY StartsKeeps DEF Settled
<1>3. i \in Lines /\ t[i].state = RESET /\ \A j \in Lines : ~OnUse(t, k, CLIENT, j)
  BY <1>1, FreeLineIsFree, LineOnUseIsOnUse
<1>4. /\ Belongs(t[i], k, CLIENT) /\ Belongs(l, k, CLIENT) /\ InUse(l) /\ CLIENT # SERVER
  BY <1>3, StatesDiffer, BlockStatesDiffer DEF Belongs, InUse
<1>5. BlocksStay(n, i)
  OBVIOUS
<1> HIDE DEF i
<1>6. Turns(n, k, CLIENT, i, l)
  BY <1>1, <1>3, <1>4, <1>5 DEF Turns
<1>7. A = {Party(l, block'[n][i])}
  BY <1>4 DEF AParty
<1>8. ClientParties(k) = {}
  BY <1>3 DEF ClientParties, Parties
<1>9. OthersWait(k) /\ req'[k] = Append(req[k], f) /\ resp'[k] = <<>> /\ ObjectsHold'
  <2>1. DOMAIN req = Conns /\ DOMAIN resp = Conns
    BY DEF Settled
  <2> QED BY <1>1, <2>1, ObjectsStay DEF OthersWait
<1>10. Acts(k, IF CLIENT = SERVER THEN ClientParties(k) ELSE A,
            IF CLIENT = SERVER THEN A ELSE ServerParties(k), req'[k], resp'[k])
  BY <1>2, <1>3, <1>6, <1>9, TurnActs
<1>11. Acts(k, A, ServerParties(k), Append(req[k], f), <<>>)
  BY <1>4, <1>9, <1>10
<1> QED BY <1>1, <1>7, <1>8, <1>9, <1>11 DEF i

\* The request is sent behind at most one frame that closes the server's line.
LEMMA StartsAgree ==
  ASSUME Agreed, ~LateAnswers, BlocksKept', NEW k \in Conns, NEW r, NEW l, NEW f,
         Starts(k, r, l, f), DOMAIN l = Fields, l.CliServNbr = k, l.whoami = CLIENT,
         l.state \in InProgress, l.timer \in Watchdogs,
         LET i == getSDOfreeLine(transfers[client[k]])
         IN  BlocksStay(client[k], i) /\ Requests(f, Party(l, block'[client[k]][i]))
  PROVE  Agreed'
<1> DEFINE i == getSDOfreeLine(transfers[client[k]])
           c == Party(l, block'[client[k]][i])
           S == ServerParties(k)
           q == req[k]
<1>1. /\ Acts(k, {c}, S, Append(q, f), <<>>) /\ ObjectsHold'
      /\ ClientParties(k) = {} /\ resp[k] = <<>>
  BY AgreedIsSettled, StartsActs
<1>2. Requests(f, c) /\ Talk({}, S, q, <<>>)
  BY <1>1, PartiesTalk
<1> HIDE DEF c, S, q
<1>3. (q = <<>> /\ S = {}) \/ \E x : q = <<x>> /\ Closes(x, S)
  <2>1. Quiet({}, S, q, <<>>) \/ GivenUp({}, S, q, <<>>)
    BY <1>2, ClientAtRest
  <2>2. <<>> # <<Abort>>
    OBVIOUS
  <2> QED BY <2>1, <2>2 DEF Quiet, GivenUp
<1>4. Asks(c, S, Append(q, f), <<>>)
  <2>1. Append(<<>>, f) = <<f>>
    OBVIOUS
  <2>2. CASE q = <<>> /\ S = {}
    BY <1>2, <2>1, <2>2 DEF Asks
  <2>3. CASE \E x : q = <<x>> /\ Closes(x, S)
    <3>1. PICK x : q = <<x>> /\ Closes(x, S)
      BY <2>3
    <3>2. Append(q, f) = <<x, f>>
      BY <3>1, AppendToOne
    <3> QED BY <1>2, <3>1, <3>2 DEF Asks
  <2> QED BY <1>3, <2>2, <2>3
<1>5. Talk({c}, S, Append(q, f), <<>>)
  BY <1>4 DEF Talk
<1> QED BY <1>1, <1>5, ActsAgree

\* A transfer in segments leaves the blocks alone.
LEMMA PlainBlocks ==
  ASSUME Settled, NEW k \in Conns, NEW r, NEW l, NEW f, Starts(k, r, l, f), UNCHANGED block
  PROVE  BlocksKept' /\ BlocksStay(client[k], getSDOfreeLine(transfers[client[k]]))
BY DEF Settled, BlocksKept, BlocksStay

LEMMA WriteAgrees ==
  ASSUME Agreed, ~LateAnswers, NEW k \in Conns, NEW index \in Indexes, NEW v \in Values,
         writeNetworkDict(k, index, v), UNCHANGED block
  PROVE  Agreed'
<1> DEFINE expedited == Size[v] <= EXPEDITED
           r == [op |-> DOWNLOAD, index |-> index, value |-> v]
           l(w) == [InitLine(CLIENT, k, index, DOWNLOAD, w)
                    EXCEPT !.count = Size[v], !.data = v,
                           !.offset = IF expedited THEN Size[v] ELSE 0]
           f == [Frame(1) EXCEPT !.index = index, !.last = expedited, !.n = Size[v],
                                 !.data = IF expedited THEN v ELSE Nothing]
<1>1. PICK w \in Watchdogs : Starts(k, r, l(w), f)
  BY DEF writeNetworkDict
<1> DEFINE line == l(w)
           i == getSDOfreeLine(transfers[client[k]])
           c == Party(line, block'[client[k]][i])
<1>2. /\ DOMAIN line = Fields /\ line.CliServNbr = k /\ line.whoami = CLIENT
      /\ line.state = DOWNLOAD /\ line.timer = w /\ line.count = Size[v]
      /\ line.offset = IF expedited THEN Size[v] ELSE 0
  BY DEF InitLine, ResetLine, Fields
<1>3. f.cs = 1 /\ (f.last <=> expedited)
  BY DEF Frame
<1>4. Size[v] \in Nat \ {0} /\ Size[v] <= SDO_MAX_LENGTH_TRANSFER
      /\ SDO_MAX_LENGTH_TRANSFER \in Nat
  BY LineAssumption DEF writeNetworkDict
<1>5. Starts(k, r, line, f)
  BY <1>1
<1>6. DOWNLOAD \in InProgress
  BY DEF InProgress
<1> HIDE DEF line, f, r
<1>7. c.state = DOWNLOAD /\ c.count = Size[v] /\ c.offset = IF expedited THEN Size[v] ELSE 0
  BY <1>2, PartyIsSeen
<1> HIDE DEF c, expedited
<1>8. Produces(c) /\ (c.offset = c.count <=> expedited)
  BY <1>4, <1>7 DEF Produces
<1>9. Requests(f, c)
  BY <1>3, <1>7, <1>8 DEF Requests
<1>10. BlocksKept' /\ BlocksStay(client[k], i)
  BY <1>5, AgreedIsSettled, PlainBlocks
<1> QED BY <1>2, <1>5, <1>6, <1>9, <1>10, StartsAgree DEF c

LEMMA ReadAgrees ==
  ASSUME Agreed, ~LateAnswers, NEW k \in Conns, NEW index \in Indexes,
         readNetworkDict(k, index), UNCHANGED block
  PROVE  Agreed'
<1> DEFINE r == [op |-> UPLOAD, index |-> index, value |-> Nothing]
           f == [Frame(2) EXCEPT !.index = index]
           i == getSDOfreeLine(transfers[client[k]])
<1>1. PICK w \in Watchdogs : Starts(k, r, InitLine(CLIENT, k, index, UPLOAD, w), f)
  BY DEF readNetworkDict
<1> DEFINE line == InitLine(CLIENT, k, index, UPLOAD, w)
           c == Party(line, block'[client[k]][i])
<1>2. /\ DOMAIN line = Fields /\ line.CliServNbr = k /\ line.whoami = CLIENT
      /\ line.state = UPLOAD /\ line.timer = w
  BY DEF InitLine, ResetLine, Fields
<1>3. f.cs = 2
  BY DEF Frame
<1>4. UPLOAD \in InProgress
  BY DEF InProgress
<1>5. Starts(k, r, line, f)
  BY <1>1
<1> HIDE DEF line, f, r
<1>6. c.state = UPLOAD
  BY <1>2, PartyIsSeen
<1> HIDE DEF c
<1>7. Requests(f, c)
  BY <1>3, <1>6 DEF Requests
<1>8. BlocksKept' /\ BlocksStay(client[k], i)
  BY <1>5, AgreedIsSettled, PlainBlocks
<1> QED BY <1>2, <1>4, <1>5, <1>7, <1>8, StartsAgree DEF c

\* A transfer in blocks begins with a block of its own.
LEMMA BlockOfStart ==
  ASSUME Settled, NEW k \in Conns, NEW r, NEW l, NEW f, Starts(k, r, l, f),
         NEW objsize, StartsBlock(k, objsize)
  PROVE  LET i == getSDOfreeLine(transfers[client[k]])
         IN  /\ BlocksKept' /\ BlocksStay(client[k], i)
             /\ block'[client[k]][i] = [NoBlock EXCEPT !.objsize = objsize]
             /\ block'[client[k]][i].rxstep = RXSTEP_INIT /\ block'[client[k]][i].seqno = 0
<1> DEFINE i == getSDOfreeLine(transfers[client[k]])
           b == [NoBlock EXCEPT !.objsize = objsize]
<1>1. i \in Lines /\ client[k] \in Nodes
  BY FreeLineIsFree, SDOAssumption DEF Starts
<1>2. DOMAIN b = BlockFields /\ b.rxstep = RXSTEP_INIT /\ b.seqno = 0
  BY DEF NoBlock, BlockFields
<1>3. block' = [block EXCEPT ![client[k]][i] = b]
  BY DEF StartsBlock
<1> HIDE DEF i, b
<1>4. BlocksKept' /\ BlocksStay(client[k], i) /\ block'[client[k]][i] = b
  BY <1>1, <1>2, <1>3, BlockChanges DEF Settled
<1> QED BY <1>2, <1>4 DEF i, b

LEMMA WriteBlockAgrees ==
  ASSUME Agreed, ~LateAnswers, NEW k \in Conns, NEW index \in Indexes, NEW v \in Values,
         writeNetworkDictBlock(k, index, v)
  PROVE  Agreed'
<1> DEFINE r == [op |-> DOWNLOAD, index |-> index, value |-> v]
           l(w) == [InitLine(CLIENT, k, index, BLOCK_DOWNLOAD, w)
                    EXCEPT !.count = Size[v], !.data = v]
           f == [Block(6, INITIATE) EXCEPT !.index = index, !.n = Size[v]]
           i == getSDOfreeLine(transfers[client[k]])
<1>1. PICK w \in Watchdogs : Starts(k, r, l(w), f)
  BY DEF writeNetworkDictBlock
<1> DEFINE line == l(w)
           c == Party(line, block'[client[k]][i])
<1>2. /\ DOMAIN line = Fields /\ line.CliServNbr = k /\ line.whoami = CLIENT
      /\ line.state = BLOCK_DOWNLOAD /\ line.timer = w /\ line.count = Size[v]
      /\ line.offset = 0
  BY DEF InitLine, ResetLine, Fields
<1>3. f.cs = 6 /\ f.sub = INITIATE
  BY DEF Block, Frame
<1>4. Size[v] \in Nat \ {0} /\ Size[v] <= SDO_MAX_LENGTH_TRANSFER
      /\ SDO_MAX_LENGTH_TRANSFER \in Nat
  BY LineAssumption DEF writeNetworkDictBlock
<1>5. Starts(k, r, line, f)
  BY <1>1
<1>6. BLOCK_DOWNLOAD \in InProgress
  BY DEF InProgress
<1> HIDE DEF line, f, r
<1>7. c.state = BLOCK_DOWNLOAD /\ c.count = Size[v] /\ c.offset = 0
  BY <1>2, PartyIsSeen
<1> HIDE DEF c
<1>8. Produces(c)
  BY <1>4, <1>7 DEF Produces
<1>9. Requests(f, c)
  BY <1>3, <1>7, <1>8 DEF Requests
<1>10. BlocksKept' /\ BlocksStay(client[k], i)
  BY <1>5, AgreedIsSettled, BlockOfStart DEF writeNetworkDictBlock
<1> QED BY <1>2, <1>5, <1>6, <1>9, <1>10, StartsAgree DEF c

LEMMA ReadBlockAgrees ==
  ASSUME Agreed, ~LateAnswers, NEW k \in Conns, NEW index \in Indexes,
         readNetworkDictBlock(k, index)
  PROVE  Agreed'
<1> DEFINE r == [op |-> UPLOAD, index |-> index, value |-> Nothing]
           f == [Block(5, INITIATE) EXCEPT !.index = index, !.n = SDO_BLOCK_SIZE]
           i == getSDOfreeLine(transfers[client[k]])
<1>1. PICK w \in Watchdogs : Starts(k, r, InitLine(CLIENT, k, index, BLOCK_UPLOAD, w), f)
  BY DEF readNetworkDictBlock
<1> DEFINE line == InitLine(CLIENT, k, index, BLOCK_UPLOAD, w)
           c == Party(line, block'[client[k]][i])
<1>2. /\ DOMAIN line = Fields /\ line.CliServNbr = k /\ line.whoami = CLIENT
      /\ line.state = BLOCK_UPLOAD /\ line.timer = w /\ line.offset = 0
  BY DEF InitLine, ResetLine, Fields
<1>3. f.cs = 5 /\ f.sub = INITIATE /\ f.n = SDO_BLOCK_SIZE /\ f.index = index
  BY DEF Block, Frame
<1>4. BLOCK_UPLOAD \in InProgress
  BY DEF InProgress
<1>5. Starts(k, r, line, f)
  BY <1>1
<1> HIDE DEF line, f, r
<1>6. /\ BlocksKept' /\ BlocksStay(client[k], i)
      /\ block'[client[k]][i].rxstep = RXSTEP_INIT /\ block'[client[k]][i].seqno = 0
  BY <1>5, AgreedIsSettled, BlockOfStart DEF readNetworkDictBlock
<1>7. c.state = BLOCK_UPLOAD /\ c.offset = 0 /\ c.rxstep = RXSTEP_INIT /\ c.seqno = 0
  BY <1>2, <1>6, PartyIsSeen
<1> HIDE DEF c
<1>8. Requests(f, c)
  BY <1>3, <1>7 DEF Requests
<1> QED BY <1>2, <1>4, <1>5, <1>6, <1>8, StartsAgree DEF c

-----------------------------------------------------------------------------
(***************************************************************************)
(* The user takes the result.                                              *)
(***************************************************************************)
\* A line of k's in role w is closed, or none.
Closed(t, u, k, w) ==
  u = t \/ \E i \in Lines : LineToClose(t, k, w, i) /\ u = resetSDOline(t, i)

\* Nobody but k in role w sees a difference.
OthersSame(t, b, u, d, k, w) ==
  \A h, v : (h = k /\ v = w) \/ Parties(u, d, h, v) = Parties(t, b, h, v)

LEMMA OthersSee ==
  ASSUME NEW t, LinesOK(t), NEW b, NEW d, NEW k \in Conns, NEW w \in {SERVER, CLIENT}, NEW u,
         Closed(t, u, k, w),
         \A j \in Lines : u[j].state = RESET \/ d[j] = b[j]
  PROVE  OthersSame(t, b, u, d, k, w)
<1>1. CASE u = t
  <2>1. \A h, v : \A j \in Lines : OnUse(t, h, v, j) => d[j] = b[j]
    BY <1>1 DEF OnUse, LineToClose
  <2> QED BY <1>1, <2>1 DEF Parties, OthersSame
<1>2. ASSUME NEW i \in Lines, LineToClose(t, k, w, i), u = resetSDOline(t, i)
      PROVE  OthersSame(t, b, u, d, k, w)
  <2>1. u = [t EXCEPT ![i] = ResetLine] /\ DOMAIN t = Lines
    BY <1>2 DEF resetSDOline, LinesOK
  <2>2. \A j \in Lines \ {i} : u[j] = t[j]
    BY <2>1
  <2>3. Belongs(t[i], k, w) /\ Belongs(ResetLine, k, w) /\ \A j \in Lines \ {i} : ~OnUse(t, k, w, j)
    BY <1>2, LineIsParty, ResetIsNotInUse
  <2>4. TurnsTo(t, b, u, d, k, w, i, ResetLine)
    BY <2>1, <2>2, <2>3 DEF TurnsTo
  <2>5. PartiesTo(t, b, u, d, k, w, i, ResetLine)
    BY <2>1, <2>4, OnePartyChanges
  <2> QED BY <2>5 DEF PartiesTo, OthersSame
<1> QED BY <1>1, <1>2 DEF Closed

LEMMA ResultActs ==
  ASSUME Settled, NEW k \in Conns, GetResult(k), ForgetsBlocks
  PROVE  /\ Acts(k, {}, ServerParties(k), req[k], resp[k]) /\ ObjectsHold'
         /\ \A c \in ClientParties(k) : c.state \notin InProgress
<1> DEFINE n == client[k]
           t == transfers[n]
           i == getSDOlineOnUse(t, k, CLIENT)
           a == AfterResult(t, k)
           u == closeSDOtransfer(a, k)
           b == block[n]
           d == block'[n]
<1>1. /\ LinesOK(t) /\ DOMAIN transfers = Nodes /\ n \in Nodes /\ DOMAIN open = Conns
      /\ BlocksKept /\ LineInvariant /\ CLIENT # SERVER
  BY SDOAssumption, StatesDiffer DEF Settled, LineInvariant
<1>2. /\ i = NoLine \/ t[i].state \notin InProgress
      /\ transfers' = [transfers EXCEPT ![n] = u] /\ open' = [open EXCEPT ![k] = FALSE]
      /\ UNCHANGED <<req, resp, od>> /\ running' = running
  BY DEF GetResult, faultVars
<1>3. LineInvariant'
  BY <1>1, GetResultKeeps
<1>4. BlocksKept' /\ \A m \in Nodes, j \in Lines :
                       block'[m][j] = IF transfers'[m][j].state = RESET THEN NoBlock ELSE block[m][j]
  BY <1>1, BlocksForgotten
<1>5. Closed(t, a, k, CLIENT)
  <2>1. Started(t, k, CLIENT, FINISHED) => i \in Lines /\ LineToClose(t, k, CLIENT, i)
    BY LineOnUseIsOnUse DEF Started, OnUse
  <2>2. a = IF Started(t, k, CLIENT, FINISHED) THEN resetSDOline(t, i) ELSE t
    BY DEF AfterResult
  <2> HIDE DEF a, i, t
  <2> QED BY <2>1, <2>2 DEF Closed
<1>6. LinesOK(a)
  <2>1. Narrows(t, a)
    BY <1>1, <1>5, SameNarrows, ResetNarrows DEF Closed
  <2> QED BY <1>1, <2>1, NarrowsKeeps
<1>7. Closed(a, u, k, CLIENT)
  <2> DEFINE j == getSDOlineToClose(a, k, CLIENT)
  <2>1. j = NoLine \/ (j \in Lines /\ LineToClose(a, k, CLIENT, j))
    BY LineToCloseIsToClose
  <2>2. u = IF j = NoLine THEN a ELSE resetSDOline(a, j)
    BY DEF closeSDOtransfer
  <2> HIDE DEF a, u, j
  <2> QED BY <2>1, <2>2 DEF Closed
<1> HIDE DEF a, u
<1>8. transfers'[n] = u /\ \A m \in Nodes \ {n} : transfers'[m] = transfers[m]
  BY <1>1, <1>2
<1>9. \A j \in Lines : u[j].state = RESET \/ d[j] = b[j]
  BY <1>1, <1>4, <1>8
<1>10. OthersSame(t, b, u, d, k, CLIENT)
  <2> HIDE DEF t, b, d, n
  <2>1. \A j \in Lines : a[j].state = RESET \/ b[j] = b[j]
    OBVIOUS
  <2>2. OthersSame(t, b, a, b, k, CLIENT)
    BY <1>1, <1>5, <2>1, OthersSee
  <2>3. OthersSame(a, b, u, d, k, CLIENT)
    BY <1>6, <1>7, <1>9, OthersSee
  <2> QED BY <2>2, <2>3 DEF OthersSame
<1>11. \A m \in Nodes \ {n} : \A h, v :
         Parties(transfers'[m], block'[m], h, v) = Parties(transfers[m], block[m], h, v)
  BY <1>4, <1>8 DEF Parties, OnUse, LineToClose
<1>12. \A h \in Conns : ServerParties(h)' = ServerParties(h)
  BY <1>1, <1>8, <1>10, <1>11, SDOAssumption DEF ServerParties, OthersSame
<1>13. \A h \in Conns \ {k} : ClientParties(h)' = ClientParties(h)
  BY <1>1, <1>8, <1>10, <1>11, SDOAssumption DEF ClientParties, OthersSame
<1>14. ClientParties(k)' = {}
  <2>1. ~open'[k]
    BY <1>1, <1>2
  <2>2. \A j \in Lines : ~OnUse(transfers'[n], k, CLIENT, j)
    BY <1>3, <2>1 DEF LineInvariant, OnUse
  <2> QED BY <2>2 DEF ClientParties, Parties
<1>15. \A c \in ClientParties(k) : c.state \notin InProgress
  <2>1. /\ i = NoLine => ClientParties(k) = {}
        /\ i # NoLine => ClientParties(k) = {Party(t[i], b[i])}
    BY <1>1, TheParty DEF ClientParties
  <2> HIDE DEF i, t, b
  <2> QED BY <1>2, <2>1, PartyIsSeen
<1>16. ObjectsHold' /\ OthersWait(k)
  BY <1>2, ObjectsStay DEF Settled, OthersWait
<1> QED BY <1>2, <1>3, <1>4, <1>12, <1>13, <1>14, <1>15, <1>16 DEF Acts

LEMMA ResultAgrees ==
  ASSUME Agreed, NEW k \in Conns, GetResult(k), ForgetsBlocks
  PROVE  Agreed'
<1>1. /\ Acts(k, {}, ServerParties(k), req[k], resp[k]) /\ ObjectsHold'
      /\ \A c \in ClientParties(k) : c.state \notin InProgress
  BY AgreedIsSettled, ResultActs
<1>2. \/ Quiet(ClientParties(k), ServerParties(k), req[k], resp[k])
      \/ GivenUp(ClientParties(k), ServerParties(k), req[k], resp[k])
  BY <1>1, PartiesTalk, ClientAtRest
<1>3. Talk({}, ServerParties(k), req[k], resp[k])
  BY <1>2 DEF Talk, Quiet, GivenUp
<1> QED BY <1>1, <1>3, ActsAgree

-----------------------------------------------------------------------------
(***************************************************************************)
(* The theorem.                                                            *)
(***************************************************************************)
FaultsStay == losses' = losses /\ stops' = stops

LEMMA ServerFaults ==
  ASSUME NEW k, ServerDispatches(k)
  PROVE  FaultsStay
<1>1. CASE ServerHandles(k)
  BY <1>1 DEF ServerHandles, ServerInitiateDownload, ServerDownloadSegment,
     ServerInitiateUpload, ServerUploadSegment, ServerAbort, ServerFails, ServerDoes,
     faultVars, FaultsStay
<1>2. CASE ServerInitiateBlockUpload(k)
  BY <1>2 DEF ServerInitiateBlockUpload, ServerBlockFails, ServerFails, ServerDoes,
     faultVars, FaultsStay
<1>3. CASE ServerBlockUpload(k)
  BY <1>3 DEF ServerBlockUpload, ServerBlockFails, ServerFails, ServerGoesOn, ServerDoes,
     faultVars, FaultsStay
<1>4. CASE ServerInitiateBlockDownload(k)
  BY <1>4 DEF ServerInitiateBlockDownload, ServerBlockFails, ServerFails, ServerGoesOn,
     ServerDoes, faultVars, FaultsStay
<1>5. CASE ServerBlockDownload(k)
  BY <1>5 DEF ServerBlockDownload, ServerBlockFails, ServerFails, ServerGoesOn, ServerDoes,
     faultVars, FaultsStay
<1> QED BY <1>1, <1>2, <1>3, <1>4, <1>5 DEF ServerDispatches

LEMMA ClientFaults ==
  ASSUME NEW k, ClientDispatches(k)
  PROVE  FaultsStay
<1>1. CASE ClientHandles(k)
  BY <1>1 DEF ClientHandles, ClientInitiateDownload, ClientDownloadSegment,
     ClientInitiateUpload, ClientUploadSegment, ClientAbort, NextSegment, ClientFails,
     ClientEnds, ClientGoesOn, ClientDoes, faultVars, FaultsStay
<1>2. CASE ClientBlockDownload(k)
  BY <1>2 DEF ClientBlockDownload, ClientBlockFails, ClientFails, ClientBlockGoesOn,
     ClientDoes, faultVars, FaultsStay
<1>3. CASE ClientEndsBlockDownload(k)
  BY <1>3 DEF ClientEndsBlockDownload, ClientDoes, faultVars, FaultsStay
<1>4. CASE ClientBlockUpload(k)
  BY <1>4 DEF ClientBlockUpload, ClientBlockFails, ClientFails, ClientBlockGoesOn,
     ClientDoes, faultVars, FaultsStay
<1> QED BY <1>1, <1>2, <1>3, <1>4 DEF ClientDispatches

\* Only a lost frame and a node that stops count.
LEMMA FaultsCount ==
  ASSUME [BlockNext]_blockVars,
         \A k \in Conns : ~Lose(k), \A n \in Nodes : ~Stop(n)
  PROVE  FaultsStay
<1>1. ASSUME NEW k, PlainStart(k) \/ BlockStart(k) PROVE FaultsStay
  BY <1>1 DEF PlainStart, BlockStart, writeNetworkDict, readNetworkDict,
     writeNetworkDictBlock, readNetworkDictBlock, Starts, faultVars, FaultsStay
<1>2. ASSUME NEW n, NEW i, Elapses(n, i) PROVE FaultsStay
  BY <1>2 DEF Elapses, SDOTimeoutAlarm, faultVars, FaultsStay
<1>3. ASSUME NEW k, GetResult(k) \/ Discard(k) \/ Start(k) PROVE FaultsStay
  BY <1>3 DEF GetResult, Discard, Start, faultVars, FaultsStay
<1>4. CASE UNCHANGED blockVars
  BY <1>4 DEF blockVars, vars, FaultsStay
<1> QED BY <1>1, <1>2, <1>3, <1>4, ServerFaults, ClientFaults DEF BlockNext, Elsewhere

\* At first nobody is at anything.
LEMMA AgreedAtFirst == BlockInit => Agreed
<1> SUFFICES ASSUME BlockInit PROVE Agreed
  OBVIOUS
<1>1. Init /\ LineInvariant /\ ObjectsHold
  BY LinesAtFirst, NothingIsServed DEF BlockInit, ServedInvariant
<1>2. \A m \in Nodes : \A k, w : Parties(transfers[m], block[m], k, w) = {}
  <2>1. \A m \in Nodes, i \in Lines : transfers[m][i].state = RESET
    BY <1>1 DEF Init, ResetLine
  <2> QED BY <2>1 DEF Parties, OnUse, LineToClose
<1>3. \A k \in Conns : ServerParties(k) = {} /\ ClientParties(k) = {}
  BY <1>2, SDOAssumption DEF ServerParties, ClientParties
<1>4. BlocksKept
  <2>1. DOMAIN NoBlock = BlockFields
    BY DEF NoBlock, BlockFields
  <2> HIDE DEF NoBlock
  <2> QED BY <2>1 DEF BlockInit, BlocksKept
<1>5. Talk({}, {}, <<>>, <<>>)
  BY DEF Talk, Quiet
<1>6. Talks
  BY <1>1, <1>3, <1>5 DEF Talks, Init
<1> QED BY <1>1, <1>4, <1>6 DEF Agreed, Settled, Init

\* While no frame is lost and no node stops, every step leaves them agreed.
LEMMA StepAgrees ==
  ASSUME Agreed, ~LateAnswers, [BlockNext]_blockVars,
         \A k \in Conns : ~Lose(k), \A n \in Nodes : ~Stop(n)
  PROVE  Agreed'
<1>1. ASSUME NEW k \in Conns, ServerDispatches(k) PROVE Agreed'
  BY <1>1, ServerAgrees
<1>2. ASSUME NEW k \in Conns, ClientDispatches(k) PROVE Agreed'
  BY <1>2, ClientAgrees
<1>3. ASSUME NEW k \in Conns, PlainStart(k) PROVE Agreed'
  BY <1>3, WriteAgrees, ReadAgrees DEF PlainStart
<1>4. ASSUME NEW k \in Conns, BlockStart(k) PROVE Agreed'
  BY <1>4, WriteBlockAgrees, ReadBlockAgrees DEF BlockStart
<1>5. ASSUME NEW n \in Nodes, NEW i \in Lines, Elapses(n, i) PROVE Agreed'
  BY <1>5, AlarmAgrees
<1>6. CASE Elsewhere
  <2>1. ASSUME NEW k \in Conns, GetResult(k) PROVE Agreed'
    BY <1>6, <2>1, ResultAgrees DEF Elsewhere
  <2>2. ASSUME NEW k \in Conns PROVE ~Discard(k)
    BY SDOAssumption DEF Discard, Agreed, Settled
  <2>3. ASSUME NEW n \in Nodes PROVE ~Start(n)
    BY DEF Start, Agreed, Settled
  <2> QED BY <1>6, <2>1, <2>2, <2>3 DEF Elsewhere
<1>7. CASE UNCHANGED blockVars
  <2>1. /\ UNCHANGED <<transfers, running, od, req, resp, open>> /\ UNCHANGED block
    BY <1>7 DEF blockVars, vars
  <2>2. LineInvariant'
    BY <2>1 DEF LineInvariant, LinesOK, Agreed, Settled
  <2>3. BlocksKept' /\ ObjectsHold'
    BY <2>1, AgreedIsSettled, ObjectsStay DEF BlocksKept, Agreed, Settled
  <2>4. \A h \in Conns : ServerParties(h)' = ServerParties(h) /\ ClientParties(h)' = ClientParties(h)
    BY <2>1, PartiesStay
  <2>5. Talks'
    BY <2>1, <2>4 DEF Talks, Agreed, Settled
  <2> QED BY <2>1, <2>2, <2>3, <2>5 DEF Agreed, Settled
<1> QED BY <1>1, <1>2, <1>3, <1>4, <1>5, <1>6, <1>7 DEF BlockNext

\* While no frame is lost client and server agree on how far a transfer has come.
AgreedInvariant == losses \in Nat /\ stops \in Nat /\ (losses = 0 => Agreed)

(***************************************************************************)
(* When no frame outlives its transfer and no node stops, the two ends of  *)
(* a connection agree, whatever a dictionary refuses: AgreedInvariant.     *)
(***************************************************************************)
THEOREM PartiesAgree ==
  ASSUME ~LateAnswers, MaxStops = 0 PROVE BlockSpec => []AgreedInvariant
<1>1. BlockInit => AgreedInvariant
  BY AgreedAtFirst DEF AgreedInvariant, BlockInit, Init
<1>2. AgreedInvariant /\ [BlockNext]_blockVars => AgreedInvariant'
  <2> SUFFICES ASSUME AgreedInvariant, [BlockNext]_blockVars PROVE AgreedInvariant'
    OBVIOUS
  <2>1. losses \in Nat /\ stops \in Nat
    BY DEF AgreedInvariant
  <2>2. \A n \in Nodes : ~Stop(n)
    BY <2>1 DEF Stop
  <2>3. CASE \E k \in Conns : Lose(k)
    BY <2>1, <2>3 DEF Lose, AgreedInvariant
  <2>4. CASE \A k \in Conns : ~Lose(k)
    <3>1. FaultsStay
      BY <2>2, <2>4, FaultsCount
    <3>2. losses = 0 => Agreed'
      BY <2>2, <2>4, StepAgrees DEF AgreedInvariant
    <3> QED BY <2>1, <3>1, <3>2 DEF AgreedInvariant, FaultsStay
  <2> QED BY <2>3, <2>4
<1> QED BY <1>1, <1>2, PTL DEF BlockSpec

(***************************************************************************)
(* NothingLeft under the same conditions: where the user has the result    *)
(* and no frame is in flight, neither the client nor the server, which     *)
(* resets its line by itself (sdo.c:420), holds a line.                    *)
(***************************************************************************)
THEOREM NoLineIsLeft ==
  ASSUME ~LateAnswers, MaxStops = 0 PROVE BlockSpec => []NothingLeft
<1>1. ASSUME AgreedInvariant PROVE NothingLeft
  <2> SUFFICES ASSUME Agreed, NEW k \in Conns, ~open[k], req[k] = <<>>, resp[k] = <<>>
               PROVE  /\ getSDOlineToClose(transfers[client[k]], k, CLIENT) = NoLine
                      /\ getSDOlineToClose(transfers[server[k]], k, SERVER) = NoLine
    BY <1>1 DEF AgreedInvariant, NothingLeft
  <2>1. getSDOlineToClose(transfers[client[k]], k, CLIENT) = NoLine
    BY LineToCloseIsToClose DEF Agreed, Settled, LineInvariant
  <2>2. ServerParties(k) = {}
    BY NobodyTalks DEF Agreed, Settled, Talks
  <2>3. LinesOK(transfers[server[k]])
    BY SDOAssumption DEF Agreed, Settled, LineInvariant
  <2>4. \A i \in Lines : ~LineToClose(transfers[server[k]], k, SERVER, i)
    <3>1. \A i \in Lines : ~OnUse(transfers[server[k]], k, SERVER, i)
      BY <2>2 DEF ServerParties, Parties
    <3> QED BY <2>3, <3>1 DEF OnUse, LineToClose, LinesOK
  <2>5. getSDOlineToClose(transfers[server[k]], k, SERVER) = NoLine
    BY <2>4, LineToCloseIsToClose
  <2> QED BY <2>1, <2>5
<1> QED BY <1>1, PartiesAgree, PTL

-----------------------------------------------------------------------------
(***************************************************************************)
(* Lost frames.  What the parties hold of the value, and the frames        *)
(* between them, whatever was lost, as long as no server takes the request *)
(* of a new transfer for the data of an old one.                           *)
(***************************************************************************)
\* A free line keeps nothing of a block.
FreeLinesForget ==
  \A n \in Nodes, i \in Lines : transfers[n][i].state = RESET => block[n][i] = NoBlock

\* No object is torn.
Whole == \A n \in Nodes, index \in Indexes : od[n][index] \in Values

\* What a party shows of its line.
Shown(c) ==
  [state |-> c.state, index |-> c.index, count |-> c.count, offset |-> c.offset, data |-> c.data]

\* Client c is at request r, no callback has been called.
ForDownload(c, r, n) ==
  /\ c.state = BLOCK_DOWNLOAD /\ n = 0 /\ c.index \in Indexes
  /\ r.op = DOWNLOAD /\ r.index = c.index /\ r.value = c.data

ForUpload(c, r, n) ==
  /\ c.state = BLOCK_UPLOAD /\ n = 0 /\ c.index \in Indexes /\ c.count = 0
  /\ r.op = UPLOAD /\ r.index = c.index

\* The server has done what client c is about.
ServedTo(s, c, op, value) == s = [op |-> op, index |-> c.index, value |-> value]

\* A producer holds a value; a consumer holds a part of the same value.
Producer(p) ==
  /\ p.data \in Values /\ p.count = Size[p.data] /\ p.count <= SDO_MAX_LENGTH_TRANSFER
  /\ p.offset \in 0 .. p.count /\ p.lastblockoffset \in 0 .. p.offset

Sound(x) == x.offset \in Nat /\ x.data # Mixed

Consumer(p, x) ==
  /\ Sound(x) /\ (x.offset = 0 \/ x.data = p.data)
  /\ x.count = 0 /\ x.objsize = p.count

\* Nothing has been sent yet.
Fresh(p, x) ==
  /\ Producer(p) /\ p.offset = 0
  /\ Consumer(p, x) /\ x.offset = 0 /\ x.seqno = 0 /\ x.rxstep = RXSTEP_STARTED

\* Where the last segment of the block sent begins.
LastSegment(p) == p.lastblockoffset + SEGMENT * (p.seqno - 1)

\* Producer p has sent a block.
HasSent(p) ==
  /\ Producer(p) /\ p.seqno \in 1 .. SDO_BLOCK_SIZE
  /\ LastSegment(p) < p.offset /\ p.offset <= LastSegment(p) + SEGMENT
  /\ IF p.offset = p.count THEN p.endfield = p.count - LastSegment(p)
     ELSE p.seqno = SDO_BLOCK_SIZE /\ p.offset = LastSegment(p) + SEGMENT

\* Frame f is segment s of it.
Carries(f, p, s) ==
  /\ f.seq = s /\ f.data = p.data /\ f.from = p.lastblockoffset + SEGMENT * (s - 1)
  /\ f.cs = IF s = p.seqno /\ p.offset = p.count THEN 4 ELSE 0
  /\ f.cs = 0 => f.n = SEGMENT

\* The frames w are the last ones of it; some before them may be lost.
Flows(p, x, w) ==
  /\ IsSequence(w) /\ HasSent(p) /\ Len(w) \in 1 .. p.seqno
  /\ \A i \in 1 .. Len(w) : Carries(w[i], p, p.seqno - Len(w) + i)
  /\ Consumer(p, x) /\ x.rxstep = RXSTEP_STARTED
  /\ x.seqno \in 0 .. p.seqno - Len(w)
  /\ x.offset = p.lastblockoffset + SEGMENT * x.seqno

\* The consumer keeps the last segment until it knows its size.
HasLast(p, x) ==
  /\ Producer(p) /\ Consumer(p, x) /\ x.rxstep = RXSTEP_END
  /\ p.offset = p.count /\ p.endfield \in 1 .. SEGMENT /\ x.offset + p.endfield = p.count
  /\ x.tmpData.data = p.data /\ x.tmpData.from = x.offset
  /\ p.lastblockoffset <= x.offset

\* The consumer's answer m to a block: all segments up to one have come.
Heard(p, x, m) ==
  /\ HasSent(p) /\ Consumer(p, x) /\ x.seqno = 0
  /\ m.sub = RESPONSE /\ m.n = SDO_BLOCK_SIZE /\ m.seq \in 0 .. p.seqno
  /\ \/ m.seq = p.seqno /\ HasLast(p, x)
     \/ /\ x.rxstep = RXSTEP_STARTED
        /\ x.offset = p.lastblockoffset + SEGMENT * m.seq /\ x.offset < p.count

\* What the producer will not send again the consumer has.
Covers(p, x) == x.rxstep # RXSTEP_INIT => p.lastblockoffset <= x.offset /\ x.data # Mixed

\* A server line left over is at no block download, but after two losses, or
\* with an abort to come after one.
Stale(S, q, l) ==
  \A s \in S : s.state = BLOCK_DOWNLOAD =>
    Sound(s) /\ (l >= 2 \/ (l >= 1 /\ q # <<>> /\ Head(q) = Abort))

\* The end of a block upload is for a server that is at one.
Ahead(S, q) ==
  q # <<>> /\ Head(q) = Block(5, END) => \E s \in S : S = {s} /\ s.state = BLOCK_UPLOAD

\* The client has sent m; what closes the transfer before may be ahead of it.
Begun(q, m) == q = <<m>> \/ \E x \in Closing : q = <<x, m>>

\* Request m begins a transfer in blocks.
BlockRequest(c, m) ==
  /\ m.sub = INITIATE /\ m.index = c.index
  /\ \/ /\ m.cs = 6 /\ m.n = c.count
        /\ c.state = BLOCK_DOWNLOAD /\ Producer(c) /\ c.offset = 0
     \/ /\ m.cs = 5 /\ m.n = SDO_BLOCK_SIZE
        /\ c.state = BLOCK_UPLOAD /\ c.offset = 0 /\ c.seqno = 0
        /\ c.data # Mixed /\ c.rxstep = RXSTEP_INIT

BlockAsks(S, q, p, c, l) ==
  /\ Stale(S, q, l) /\ Ahead(S, q) /\ p = <<>>
  /\ \E m : Begun(q, m) /\ BlockRequest(c, m)

\* A frame was lost, the watchdog has to end the transfer.
Silent(S, q, p, c, l) ==
  /\ q = <<>> /\ p = <<>>
  /\ \A s \in S : s.state = BLOCK_DOWNLOAD => Sound(s) /\ l >= 1
  /\ c.state = BLOCK_DOWNLOAD => \A s \in S : s.state = BLOCK_DOWNLOAD => Covers(c, s)
  /\ c.state = BLOCK_UPLOAD => \A s \in S : s.state = BLOCK_UPLOAD => Covers(s, c)

\* The server has given up.
Refused(S, q, p) == q = <<>> /\ p = <<Abort>> /\ S = {}

DownloadConfirmed(S, q, p, c, s) ==
  /\ S = {} /\ q = <<>> /\ \E m : p = <<m>> /\ m.cs = 5 /\ m.sub = END
  /\ ServedTo(s, c, DOWNLOAD, c.data) /\ Producer(c) /\ c.offset = c.count

\* Client c produces, server x consumes.
DownloadGoesOn(q, p, c, x) ==
  /\ x.state = BLOCK_DOWNLOAD /\ x.index = c.index
  /\ \/ /\ q = <<>>
        /\ \E m : /\ p = <<m>> /\ m.cs = 5
                  /\ \/ m.sub = INITIATE /\ m.n = SDO_BLOCK_SIZE /\ Fresh(c, x)
                     \/ Heard(c, x, m)
     \/ p = <<>> /\ Flows(c, x, q)
     \/ /\ p = <<>>
        /\ \E m : q = <<m>> /\ m.cs = 6 /\ m.sub = END /\ m.n = c.endfield /\ HasLast(c, x)

\* Server y produces, client c consumes.
UploadGoesOn(q, p, c, y, s) ==
  /\ y.state = BLOCK_UPLOAD /\ ServedTo(s, c, UPLOAD, y.data)
  /\ \/ /\ q = <<>>
        /\ \E m : p = <<m>> /\ m.cs = 6 /\ m.sub = INITIATE /\ m.n = y.count
        /\ Producer(y) /\ y.offset = 0 /\ y.blksize = SDO_BLOCK_SIZE
        /\ c.offset = 0 /\ c.seqno = 0 /\ c.data # Mixed /\ c.rxstep = RXSTEP_INIT
     \/ /\ p = <<>>
        /\ \E m : /\ q = <<m>> /\ m.cs = 5
                  /\ \/ m.sub = START_UPLOAD /\ Fresh(y, c) /\ y.blksize = SDO_BLOCK_SIZE
                     \/ Heard(y, c, m)
     \/ q = <<>> /\ Flows(y, c, p)
     \/ /\ q = <<>>
        /\ \E m : p = <<m>> /\ m.cs = 6 /\ m.sub = END /\ m.n = y.endfield /\ HasLast(y, c)

\* The client is at a transfer in blocks.
InBlocks(c, S, q, p, r, s, n, l) ==
  /\ ForDownload(c, r, n) \/ ForUpload(c, r, n)
  /\ \/ BlockAsks(S, q, p, c, l)
     \/ Silent(S, q, p, c, l)
     \/ Refused(S, q, p)
     \/ c.state = BLOCK_DOWNLOAD /\ DownloadConfirmed(S, q, p, c, s)
     \/ c.state = BLOCK_DOWNLOAD /\ \E x : S = {x} /\ DownloadGoesOn(q, p, c, x)
     \/ c.state = BLOCK_UPLOAD /\ \E y : S = {y} /\ UploadGoesOn(q, p, c, y, s)

\* The client is at a plain transfer, or at none.
InSegments(C, S, q, p, r, s, n, l) ==
  /\ Dialogue({Shown(c) : c \in C}, {Shown(x) : x \in S}, q, p, r, s, n, TRUE)
  /\ Stale(S, q, l) /\ Ahead(S, q)
  /\ \A c \in C : c.state \notin {BLOCK_DOWNLOAD, BLOCK_UPLOAD}
  /\ p # <<>> => Head(p).cs \in 0 .. 4

\* A server is at a transfer, and keeps a step of a block download in no other.
StepFits(x) == x.state \in InProgress /\ (x.rxstep = RXSTEP_INIT \/ x.state = BLOCK_DOWNLOAD)

\* Parties C and S with frames q and p between them, for request r, of which the
\* server has done s, with n callbacks, after l losses.
Exchange(C, S, q, p, r, s, n, l) ==
  /\ \A x \in S : StepFits(x)
  /\ \/ InSegments(C, S, q, p, r, s, n, l)
     \/ \E c : C = {c} /\ InBlocks(c, S, q, p, r, s, n, l)

Exchanges ==
  \A k \in Conns :
    Exchange(ClientParties(k), ServerParties(k), req[k], resp[k],
              Asked(k), served[k], calls[k], losses)

Ordered ==
  /\ Settled /\ Wires /\ Whole /\ FreeLinesForget /\ losses \in Nat
  /\ Exchanges

-----------------------------------------------------------------------------
(***************************************************************************)
(* Producer and consumer of a block, lost segments or not.                 *)
(***************************************************************************)
\* A producer's line, and what it needs to send.
Holds(l) ==
  /\ l.data \in Values /\ l.count = Size[l.data] /\ l.count <= SDO_MAX_LENGTH_TRANSFER
  /\ l.offset \in 0 .. l.count

LEMMA HoldsSomething ==
  ASSUME NEW l, Holds(l)
  PROVE  /\ l.count \in Nat \ {0} /\ l.offset \in Nat /\ l.offset <= l.count
         /\ l.count \in 1 .. SDO_MAX_LENGTH_TRANSFER
         /\ SDO_MAX_LENGTH_TRANSFER \in Nat /\ SDO_BLOCK_SIZE \in Nat \ {0}
<1>1. Size[l.data] \in Nat \ {0} /\ SDO_MAX_LENGTH_TRANSFER \in Nat
  BY LineAssumption DEF Holds
<1>2. SDO_BLOCK_SIZE \in Nat \ {0}
  BY BlockAssumption
<1> QED BY <1>1, <1>2 DEF Holds

LEMMA ProducerHolds ==
  ASSUME NEW p, Producer(p)
  PROVE  Holds(p) /\ p.lastblockoffset \in Nat /\ p.lastblockoffset <= p.offset
<1>1. Holds(p)
  BY DEF Holds, Producer
<1>2. p.offset \in Nat
  BY <1>1, HoldsSomething
<1> QED BY <1>1, <1>2 DEF Producer

\* The block just sent, all numbers in sight.
LEMMA BlockSent ==
  ASSUME NEW p, HasSent(p)
  PROVE  /\ Producer(p) /\ p.seqno \in Nat \ {0} /\ p.seqno <= SDO_BLOCK_SIZE
         /\ p.lastblockoffset \in Nat /\ p.offset \in Nat /\ p.count \in Nat \ {0}
         /\ p.offset <= p.count /\ p.count <= SDO_MAX_LENGTH_TRANSFER
         /\ SDO_MAX_LENGTH_TRANSFER \in Nat /\ SDO_BLOCK_SIZE \in Nat \ {0}
         /\ p.lastblockoffset + 7 * (p.seqno - 1) < p.offset
         /\ p.offset <= p.lastblockoffset + 7 * p.seqno
         /\ p.offset = p.count =>
              /\ p.endfield = p.count - (p.lastblockoffset + 7 * (p.seqno - 1))
              /\ p.endfield \in 1 .. 7
         /\ p.offset # p.count =>
              p.seqno = SDO_BLOCK_SIZE /\ p.offset = p.lastblockoffset + 7 * p.seqno
<1>1. /\ Producer(p) /\ Holds(p) /\ p.lastblockoffset \in Nat /\ p.count <= SDO_MAX_LENGTH_TRANSFER
      /\ p.count \in Nat \ {0} /\ p.offset \in Nat /\ p.offset <= p.count
      /\ SDO_MAX_LENGTH_TRANSFER \in Nat /\ SDO_BLOCK_SIZE \in Nat \ {0}
  BY ProducerHolds, HoldsSomething DEF HasSent, Holds
<1>2. /\ p.seqno \in 1 .. SDO_BLOCK_SIZE
      /\ p.lastblockoffset + 7 * (p.seqno - 1) < p.offset
      /\ p.offset <= p.lastblockoffset + 7 * (p.seqno - 1) + 7
      /\ IF p.offset = p.count THEN p.endfield = p.count - (p.lastblockoffset + 7 * (p.seqno - 1))
         ELSE p.seqno = SDO_BLOCK_SIZE /\ p.offset = p.lastblockoffset + 7 * (p.seqno - 1) + 7
  BY DEF HasSent, LastSegment, SEGMENT
<1>3. p.seqno \in Nat \ {0} /\ p.seqno <= SDO_BLOCK_SIZE
  BY <1>1, <1>2
<1>4. p.offset <= p.lastblockoffset + 7 * p.seqno
  BY <1>1, <1>2, <1>3
<1>5. p.offset = p.count =>
        /\ p.endfield = p.count - (p.lastblockoffset + 7 * (p.seqno - 1))
        /\ p.endfield \in 1 .. 7
  BY <1>1, <1>2, <1>3
<1>6. p.offset # p.count =>
        p.seqno = SDO_BLOCK_SIZE /\ p.offset = p.lastblockoffset + 7 * p.seqno
  BY <1>1, <1>2, <1>3
<1> QED BY <1>1, <1>2, <1>3, <1>4, <1>5, <1>6

\* The consumer has what the producer will not send again.
LEMMA NothingMissing ==
  ASSUME NEW p, NEW x,
         \/ Fresh(p, x)
         \/ \E w : Flows(p, x, w)
         \/ \E m : Heard(p, x, m)
         \/ HasLast(p, x)
  PROVE  Producer(p) /\ Sound(x) /\ Covers(p, x)
<1>1. CASE Fresh(p, x)
  BY <1>1, ProducerHolds DEF Fresh, Consumer, Sound, Covers
<1>2. CASE HasLast(p, x)
  BY <1>2 DEF HasLast, Consumer, Sound, Covers
<1>3. ASSUME NEW w, Flows(p, x, w) PROVE Producer(p) /\ Sound(x) /\ Covers(p, x)
  <2>1. HasSent(p) /\ Consumer(p, x) /\ x.offset = p.lastblockoffset + 7 * x.seqno
    BY <1>3 DEF Flows, SEGMENT
  <2>2. p.lastblockoffset \in Nat /\ Producer(p) /\ p.seqno \in Nat
    BY <2>1, BlockSent
  <2>3. x.seqno \in Nat
    <3>1. PICK X : w \in Seq(X)
      BY <1>3 DEF Flows, IsSequence
    <3>2. Len(w) \in Nat
      BY <3>1
    <3>3. x.seqno \in 0 .. p.seqno - Len(w)
      BY <1>3 DEF Flows
    <3> QED BY <2>2, <3>2, <3>3
  <2> QED BY <2>1, <2>2, <2>3 DEF Consumer, Sound, Covers
<1>4. ASSUME NEW m, Heard(p, x, m) PROVE Producer(p) /\ Sound(x) /\ Covers(p, x)
  <2>1. CASE HasLast(p, x)
    BY <1>2, <2>1
  <2>2. CASE ~HasLast(p, x)
    <3>1. /\ HasSent(p) /\ Consumer(p, x) /\ x.offset = p.lastblockoffset + 7 * m.seq
          /\ m.seq \in 0 .. p.seqno
      BY <1>4, <2>2 DEF Heard, SEGMENT
    <3>2. p.lastblockoffset \in Nat /\ Producer(p) /\ p.seqno \in Nat
      BY <3>1, BlockSent
    <3> QED BY <3>1, <3>2 DEF Consumer, Sound, Covers
  <2> QED BY <2>1, <2>2
<1> QED BY <1>1, <1>2, <1>3, <1>4

\* The first frame of a flow, and the others.
LEMMA FirstOfFlow ==
  ASSUME NEW p, NEW x, NEW w, Flows(p, x, w)
  PROVE  /\ w # <<>> /\ Head(w) = w[1] /\ Len(w) \in Nat \ {0} /\ Len(w) <= p.seqno
         /\ Head(w) # Abort /\ Head(w).cs \in {0, 4} /\ Head(w).seq = p.seqno - Len(w) + 1
         /\ Head(w).seq \in Nat \ {0} /\ Head(w).data = p.data
         /\ Head(w).from = p.lastblockoffset + 7 * (Head(w).seq - 1)
         /\ Head(w).cs = IF Len(w) = 1 /\ p.offset = p.count THEN 4 ELSE 0
         /\ Head(w).cs = 0 => Head(w).n = 7
         /\ IsSequence(Tail(w)) /\ Len(Tail(w)) = Len(w) - 1
         /\ \A i \in 1 .. Len(w) - 1 : Tail(w)[i] = w[i + 1]
         /\ Tail(w) = <<>> <=> Len(w) = 1
<1> DEFINE e == Len(w)
           v == Tail(w)
<1>1. PICK X : w \in Seq(X)
  BY DEF Flows, IsSequence
<1>2. /\ e \in 1 .. p.seqno /\ HasSent(p)
      /\ \A i \in 1 .. e : Carries(w[i], p, p.seqno - e + i)
  BY DEF Flows
<1>3. p.seqno \in Nat
  BY <1>2, BlockSent
<1>4. e \in Nat \ {0} /\ e <= p.seqno /\ 1 \in 1 .. e
  BY <1>1, <1>2, <1>3
<1>5. w # <<>> /\ Head(w) = w[1]
  BY <1>1, <1>4
<1>6. v \in Seq(X) /\ Len(v) = e - 1 /\ \A i \in 1 .. e - 1 : v[i] = w[i + 1]
  BY <1>1, <1>4
<1>7. Carries(w[1], p, p.seqno - e + 1)
  BY <1>2, <1>4
<1> HIDE DEF e, v
<1>8. /\ w[1].seq = p.seqno - e + 1 /\ w[1].data = p.data
      /\ w[1].from = p.lastblockoffset + 7 * (w[1].seq - 1)
      /\ w[1].cs = (IF p.seqno - e + 1 = p.seqno /\ p.offset = p.count THEN 4 ELSE 0)
      /\ w[1].cs = 0 => w[1].n = 7
  BY <1>7 DEF Carries, SEGMENT
<1>9. (p.seqno - e + 1 = p.seqno) <=> e = 1
  BY <1>3, <1>4
<1>10. w[1].seq \in Nat \ {0}
  BY <1>3, <1>4, <1>8
<1>11. w[1].cs \in {0, 4} /\ w[1] # Abort
  BY <1>8, <1>10, FramesDiffer
<1>12. v = <<>> <=> e = 1
  BY <1>4, <1>6
<1>13. IsSequence(v)
  BY <1>6, Zenon DEF IsSequence
<1> QED BY <1>4, <1>5, <1>6, <1>8, <1>9, <1>10, <1>11, <1>12, <1>13 DEF e, v

\* Without its first frame a flow goes on.
LEMMA FlowShortens ==
  ASSUME NEW p, NEW x, NEW w, Flows(p, x, w), Tail(w) # <<>>,
         NEW y, Consumer(p, y), y.rxstep = RXSTEP_STARTED,
         y.seqno \in 0 .. p.seqno - Len(w) + 1,
         y.offset = p.lastblockoffset + SEGMENT * y.seqno
  PROVE  Flows(p, y, Tail(w))
<1> DEFINE e == Len(w)
           v == Tail(w)
           d == Len(v)
<1>1. /\ e \in Nat \ {0} /\ e <= p.seqno /\ d = e - 1 /\ e # 1 /\ IsSequence(v)
      /\ \A i \in 1 .. e - 1 : v[i] = w[i + 1]
  BY FirstOfFlow
<1>2. HasSent(p) /\ \A i \in 1 .. e : Carries(w[i], p, p.seqno - e + i)
  BY DEF Flows
<1>3. p.seqno \in Nat
  BY <1>2, BlockSent
<1> HIDE DEF e, v, d
<1>4. d \in 1 .. p.seqno /\ p.seqno - e + 1 = p.seqno - d
  BY <1>1, <1>3
<1>5. ASSUME NEW i \in 1 .. d PROVE Carries(v[i], p, p.seqno - d + i)
  <2>1. i \in Nat /\ i \in 1 .. e - 1 /\ d = e - 1 /\ e \in Nat /\ p.seqno \in Nat
    BY <1>1, <1>3
  <2>2. i + 1 \in 1 .. e /\ p.seqno - e + (i + 1) = p.seqno - d + i
    BY <2>1
  <2>3. v[i] = w[i + 1]
    BY <1>1, <2>1
  <2>4. Carries(w[i + 1], p, p.seqno - e + (i + 1))
    BY <1>2, <2>2
  <2> QED BY <2>2, <2>3, <2>4
<1>6. y.seqno \in 0 .. p.seqno - d
  BY <1>4 DEF e
<1> QED BY <1>1, <1>2, <1>4, <1>5, <1>6 DEF Flows, v, d

\* A producer that sends a block to a consumer that waits for it.
LEMMA BlockFlows ==
  ASSUME NEW l, DOMAIN l = Fields, NEW b, DOMAIN b = BlockFields, NEW x, Holds(l),
         l.offset # l.count, Consumer(Party(l, b), x), x.offset = l.offset, x.seqno = 0,
         x.rxstep = RXSTEP_STARTED
  PROVE  LET r == AfterBlock(l, b, SDO_BLOCK_SIZE)
         IN  /\ Flows(Party(r.line, r.block), x, r.frames)
             /\ r.line = [l EXCEPT !.offset = r.line.offset]
             /\ DOMAIN r.block = BlockFields /\ r.block.rxstep = b.rxstep
<1> DEFINE r == AfterBlock(l, b, SDO_BLOCK_SIZE)
           w == BlockOf(l, SDO_BLOCK_SIZE)
           rest == l.count - l.offset
           all == (rest + SEGMENT - 1) \div SEGMENT
           e == IF all < SDO_BLOCK_SIZE THEN all ELSE SDO_BLOCK_SIZE
           p == Party(r.line, r.block)
<1>1. /\ l.count \in 1 .. SDO_MAX_LENGTH_TRANSFER /\ l.offset \in 0 .. l.count
      /\ l.count \in Nat \ {0} /\ l.offset \in Nat /\ l.offset < l.count
      /\ SDO_MAX_LENGTH_TRANSFER \in Nat /\ SDO_BLOCK_SIZE \in Nat \ {0}
  BY HoldsSomething
<1>2. rest \in Nat \ {0}
  BY <1>1
<1>3. all \in Nat \ {0} /\ SEGMENT * (all - 1) < rest /\ rest <= SEGMENT * all
  BY <1>2, SegmentsOf
<1>4. /\ e \in Nat /\ IsSequence(w) /\ Len(w) = e
      /\ \A s \in 1 .. e :
           /\ w[s].seq = s /\ w[s].cs = (IF s = all THEN 4 ELSE 0)
           /\ w[s].from = l.offset + SEGMENT * (s - 1)
           /\ w[s].n = (IF s = all THEN rest - SEGMENT * (s - 1) ELSE SEGMENT)
           /\ w[s].data = l.data
  BY <1>1, FramesOfBlock
<1> HIDE DEF w, all
<1>5. /\ r.frames = w /\ r.line = [l EXCEPT !.offset = w[e].from + w[e].n]
      /\ r.block = [b EXCEPT !.blksize = SDO_BLOCK_SIZE, !.lastblockoffset = l.offset, !.seqno = e,
                             !.endfield = IF w[e].cs = 4 THEN w[e].n ELSE @]
  BY <1>4 DEF AfterBlock, w
<1>6. /\ r.line.offset = w[e].from + w[e].n /\ r.line.count = l.count /\ r.line.data = l.data
      /\ r.line = [l EXCEPT !.offset = r.line.offset]
      /\ r.block.lastblockoffset = l.offset /\ r.block.seqno = e /\ DOMAIN r.block = BlockFields
      /\ r.block.rxstep = b.rxstep
      /\ w[e].cs = 4 => r.block.endfield = w[e].n
  BY <1>5 DEF Fields, BlockFields
<1>7. /\ p.offset = w[e].from + w[e].n /\ p.count = l.count /\ p.data = l.data
      /\ p.lastblockoffset = l.offset /\ p.seqno = e
      /\ w[e].cs = 4 => p.endfield = w[e].n
  BY <1>6, PartyIsSeen
<1> HIDE DEF r, p
<1>8. e > 0 /\ e <= SDO_BLOCK_SIZE /\ e <= all /\ (e # all => e = SDO_BLOCK_SIZE)
  BY <1>1, <1>3
<1>9. rest = l.count - l.offset
  OBVIOUS
<1> HIDE DEF rest, e
<1>10. /\ w[e].from = l.offset + 7 * (e - 1) /\ w[e].cs = (IF e = all THEN 4 ELSE 0)
       /\ w[e].n = (IF e = all THEN rest - 7 * (e - 1) ELSE 7)
  <2>1. e \in 1 .. e
    BY <1>4, <1>8
  <2> QED BY <1>4, <2>1 DEF SEGMENT
<1>11. /\ p.offset \in 0 .. p.count /\ (p.offset = p.count <=> e = all)
       /\ l.offset + 7 * (e - 1) < p.offset /\ p.offset <= l.offset + 7 * (e - 1) + 7
       /\ p.offset = p.count => p.endfield = p.count - (l.offset + 7 * (e - 1))
       /\ p.offset # p.count => p.offset = l.offset + 7 * (e - 1) + 7
  <2>1. 7 * (all - 1) < rest /\ rest <= 7 * all
    BY <1>3 DEF SEGMENT
  <2>2. CASE e = all
    <3>1. /\ p.offset = l.offset + 7 * (e - 1) + (rest - 7 * (e - 1))
          /\ p.endfield = rest - 7 * (e - 1)
      BY <1>7, <1>10, <2>2
    <3>2. p.offset = l.count
      BY <1>1, <1>4, <1>9, <3>1
    <3>3. 7 * (e - 1) < rest /\ rest <= 7 * e
      BY <2>1, <2>2
    <3>4. p.endfield = l.count - (l.offset + 7 * (e - 1))
      BY <1>1, <1>4, <1>9, <3>1
    <3>5. l.offset + 7 * (e - 1) < l.count /\ l.count <= l.offset + 7 * (e - 1) + 7
      BY <1>1, <1>4, <1>9, <3>3
    <3> QED BY <1>1, <1>7, <2>2, <3>2, <3>4, <3>5
  <2>3. CASE e # all
    <3>1. p.offset = l.offset + 7 * (e - 1) + 7
      BY <1>7, <1>10, <2>3
    <3>2. e <= all - 1
      BY <1>3, <1>4, <1>8, <2>3
    <3>3. 7 * e < rest
      BY <1>2, <1>3, <1>4, <2>1, <3>2
    <3>4. p.offset < l.count /\ p.offset \in Nat
      BY <1>1, <1>4, <1>8, <1>9, <3>1, <3>3
    <3>5. l.offset + 7 * (e - 1) < p.offset
      BY <1>1, <1>4, <3>1
    <3> QED BY <1>1, <1>7, <2>3, <3>1, <3>4, <3>5
  <2> QED BY <2>2, <2>3
<1>12. Producer(p)
  <2>1. p.lastblockoffset \in 0 .. p.offset
    BY <1>1, <1>4, <1>7, <1>8, <1>11
  <2> QED BY <1>7, <1>11, <2>1 DEF Producer, Holds
<1>13. HasSent(p)
  BY <1>1, <1>4, <1>7, <1>8, <1>11, <1>12 DEF HasSent, LastSegment, SEGMENT
<1>14. \A s \in 1 .. e : Carries(w[s], p, s)
  BY <1>3, <1>4, <1>7, <1>8, <1>11 DEF Carries
<1>15. Consumer(p, x)
  BY <1>7, PartyIsSeen DEF Consumer
<1>16. Flows(p, x, w)
  <2>1. \A s \in 1 .. e : e - e + s = s
    BY <1>4
  <2>2. \A s \in 1 .. e : Carries(w[s], p, e - e + s)
    BY <1>14, <2>1
  <2>3. x.seqno \in 0 .. e - e /\ x.offset = p.lastblockoffset + SEGMENT * x.seqno
    BY <1>1, <1>4, <1>7 DEF SEGMENT
  <2>4. e \in 1 .. e
    BY <1>4, <1>8
  <2> QED BY <1>4, <1>7, <1>13, <1>15, <2>2, <2>3, <2>4 DEF Flows
<1> QED BY <1>5, <1>6, <1>16 DEF r, p

\* Frame f says how long the last segment was.
SaysEnd(p, x, f) == f.cs = 6 /\ f.sub = END /\ f.n = p.endfield /\ HasLast(p, x)

\* A producer that hears how far the consumer has come.
LEMMA HeardGoesOn ==
  ASSUME NEW l, DOMAIN l = Fields, NEW b, DOMAIN b = BlockFields, NEW x, NEW m,
         Heard(Party(l, b), x, m)
  PROVE  LET r == Acknowledged(l, b, m, Block(6, END))
             p == Party(r.line, r.block)
         IN  /\ ~BadAckSeq(l, b, m)
             /\ Same(l, r.line) /\ DOMAIN r.block = BlockFields
             /\ r.line.index = l.index /\ r.line.data = l.data
             /\ r.block.rxstep = b.rxstep
             /\ \/ Flows(p, x, r.frames)
                \/ \E f : r.frames = <<f>> /\ SaysEnd(p, x, f)
<1> DEFINE r == Acknowledged(l, b, m, Block(6, END))
           p == Party(r.line, r.block)
           a == Party(l, b)
           g == GoneBack(l, b, m)
<1>1. /\ HasSent(a) /\ Consumer(a, x) /\ x.seqno = 0
      /\ m.sub = RESPONSE /\ m.n = SDO_BLOCK_SIZE /\ m.seq \in 0 .. b.seqno
      /\ \/ m.seq = b.seqno /\ HasLast(a, x)
         \/ /\ x.rxstep = RXSTEP_STARTED
            /\ x.offset = b.lastblockoffset + 7 * m.seq /\ x.offset < l.count
  BY PartyIsSeen DEF Heard, SEGMENT
<1>2. /\ b.seqno \in Nat \ {0} /\ b.lastblockoffset \in Nat /\ l.offset \in Nat
      /\ l.count \in Nat \ {0} /\ l.offset <= l.count /\ Producer(a)
      /\ l.offset <= b.lastblockoffset + 7 * b.seqno
  BY <1>1, BlockSent, PartyIsSeen
<1>3. Holds(a) /\ Holds(l)
  BY <1>2, ProducerHolds, PartyIsSeen DEF Holds
<1>4. AllAcknowledged(l, b, m) <=> l.offset = l.count /\ m.seq = b.seqno
  BY <1>2 DEF AllAcknowledged, getSDOlineRestBytes
<1>5. CASE AllAcknowledged(l, b, m)
  <2> DEFINE f == [Block(6, END) EXCEPT !.n = b.endfield]
  <2>1. /\ r.line = l /\ r.frames = <<f>> /\ r.block = [b EXCEPT !.blksize = m.n]
    BY <1>5 DEF Acknowledged
  <2>2. HasLast(a, x)
    BY <1>1, <1>2, <1>4, <1>5
  <2>3. /\ Same(l, r.line) /\ DOMAIN r.block = BlockFields /\ ~BadAckSeq(l, b, m)
        /\ r.block.rxstep = b.rxstep /\ r.block.lastblockoffset = b.lastblockoffset
        /\ r.block.endfield = b.endfield
    BY <1>5, <2>1 DEF Same, Owned, BlockFields, BadAckSeq
  <2>4. f.cs = 6 /\ f.sub = END /\ f.n = b.endfield
    BY DEF Block, Frame
  <2> HIDE DEF f, r
  <2>5. /\ p.data = a.data /\ p.count = a.count /\ p.offset = a.offset
        /\ p.lastblockoffset = a.lastblockoffset /\ p.endfield = a.endfield
        /\ p.endfield = b.endfield
    <3>1. /\ p.data = r.line.data /\ p.count = r.line.count /\ p.offset = r.line.offset
          /\ p.lastblockoffset = r.block.lastblockoffset /\ p.endfield = r.block.endfield
      BY PartyIsSeen
    <3>2. /\ a.data = l.data /\ a.count = l.count /\ a.offset = l.offset
          /\ a.lastblockoffset = b.lastblockoffset /\ a.endfield = b.endfield
      BY PartyIsSeen
    <3> QED BY <2>1, <2>3, <3>1, <3>2
  <2> HIDE DEF p, a
  <2>6. HasLast(p, x)
    BY <2>2, <2>5 DEF HasLast, Producer, Consumer
  <2>7. SaysEnd(p, x, f)
    BY <2>4, <2>5, <2>6 DEF SaysEnd
  <2> QED BY <2>1, <2>3, <2>7 DEF r, p
<1>6. CASE ~AllAcknowledged(l, b, m)
  <2>1. /\ x.rxstep = RXSTEP_STARTED
        /\ x.offset = b.lastblockoffset + 7 * m.seq /\ x.offset < l.count
    <3>1. ASSUME m.seq = b.seqno, HasLast(a, x) PROVE FALSE
      BY <1>4, <1>6, <3>1, PartyIsSeen DEF HasLast
    <3> QED BY <1>1, <3>1
  <2>2. g.offset = x.offset /\ Same(l, g) /\ DOMAIN g = Fields /\ g.count = l.count
        /\ g.data = l.data /\ g.index = l.index
    BY <2>1 DEF GoneBack, Same, Owned, Fields, SEGMENT
  <2>3. r = AfterBlock(g, b, SDO_BLOCK_SIZE)
    BY <1>1, <1>6 DEF Acknowledged
  <2>4. x.offset \in Nat
    BY <1>1 DEF Consumer, Sound
  <2>5. ~BadAckSeq(l, b, m)
    <3>1. g.offset <= l.count
      BY <1>2, <2>1, <2>2, <2>4
    <3>2. ~(g.offset > l.count)
      BY <1>2, <2>2, <2>4, <3>1
    <3> QED BY <3>2 DEF BadAckSeq
  <2> HIDE DEF g, r
  <2>6. Holds(g) /\ g.offset # g.count
    BY <1>2, <1>3, <2>1, <2>2, <2>4 DEF Holds
  <2>7. Consumer(Party(g, b), x)
    BY <1>1, <2>2, PartyIsSeen DEF Consumer
  <2>8. /\ Flows(p, x, r.frames) /\ r.line = [g EXCEPT !.offset = r.line.offset]
        /\ DOMAIN r.block = BlockFields /\ r.block.rxstep = b.rxstep
    BY <1>1, <2>1, <2>2, <2>3, <2>6, <2>7, BlockFlows
  <2>9. Same(g, r.line) /\ r.line.index = g.index /\ r.line.data = g.data
    <3>1. Same(g, r.line)
      BY <2>2, <2>8, SameButOffset
    <3> QED BY <2>2, <2>8, <3>1 DEF Fields
  <2>10. Same(l, r.line)
    BY <2>2, <2>9 DEF Same, Owned
  <2> QED BY <2>2, <2>5, <2>8, <2>9, <2>10 DEF r, p
<1> QED BY <1>5, <1>6

\* A consumer that gets a segment: it waits for the next one, or says what it has.
LEMMA FlowReceived ==
  ASSUME NEW l, DOMAIN l = Fields, NEW b, DOMAIN b = BlockFields, NEW p, NEW w,
         Flows(p, Party(l, b), w)
  PROVE  LET r == Received(l, b, Head(w))
             y == Party(r.line, r.block)
         IN  /\ ~SegmentOverflows(l, b, Head(w))
             /\ Same(l, r.line) /\ DOMAIN r.block = BlockFields
             /\ r.line.index = l.index
             /\ \/ r.frames = <<>> /\ Flows(p, y, Tail(w))
                \/ Tail(w) = <<>> /\ \E a : r.frames = <<a>> /\ a.cs = 5 /\ Heard(p, y, a)
<1> DEFINE m == Head(w)
           r == Received(l, b, m)
           x == Party(l, b)
           y == Party(r.line, r.block)
           e == Len(w)
<1>1. /\ HasSent(p) /\ Consumer(p, x) /\ b.rxstep = RXSTEP_STARTED
      /\ b.seqno \in 0 .. p.seqno - e
      /\ l.offset = p.lastblockoffset + 7 * b.seqno
  BY PartyIsSeen DEF Flows, SEGMENT
<1>2. /\ e \in Nat \ {0} /\ e <= p.seqno /\ m.seq = p.seqno - e + 1 /\ m.seq \in Nat \ {0}
      /\ m.data = p.data /\ m.from = p.lastblockoffset + 7 * (m.seq - 1)
      /\ m.cs = (IF e = 1 /\ p.offset = p.count THEN 4 ELSE 0)
      /\ m.cs = 0 => m.n = 7
      /\ Tail(w) = <<>> <=> e = 1
  BY FirstOfFlow
<1> HIDE DEF m, e
<1>3. /\ Producer(p) /\ p.seqno \in Nat \ {0} /\ p.seqno <= SDO_BLOCK_SIZE
      /\ p.lastblockoffset \in Nat /\ p.offset \in Nat /\ p.count \in Nat \ {0}
      /\ p.offset <= p.count /\ p.count <= SDO_MAX_LENGTH_TRANSFER
      /\ SDO_MAX_LENGTH_TRANSFER \in Nat /\ SDO_BLOCK_SIZE \in Nat \ {0}
      /\ p.lastblockoffset + 7 * (p.seqno - 1) < p.offset
      /\ p.offset = p.count =>
           /\ p.endfield = p.count - (p.lastblockoffset + 7 * (p.seqno - 1))
           /\ p.endfield \in 1 .. 7
      /\ p.offset # p.count =>
           p.seqno = SDO_BLOCK_SIZE /\ p.offset = p.lastblockoffset + 7 * p.seqno
  BY <1>1, BlockSent
<1>4. b.seqno \in Nat /\ b.seqno <= p.seqno - e /\ l.offset \in Nat
  <2>1. p.seqno - e \in Int
    BY <1>2, <1>3
  <2>2. b.seqno \in Nat /\ b.seqno <= p.seqno - e
    BY <1>1, <2>1
  <2> QED BY <1>1, <1>3, <2>2
<1>5. /\ SeqNo(m) = m.seq /\ (Expected(b, m) <=> m.seq = b.seqno + 1) /\ (IsLast(m) <=> m.cs = 4)
  BY <1>2 DEF SeqNo, IsSegment, Expected, IsLast
<1>6. /\ l.data # Mixed /\ (l.offset = 0 \/ l.data = p.data) /\ l.count = 0 /\ b.objsize = p.count
      /\ p.data \in Values
  <2>1. /\ x.data # Mixed /\ (x.offset = 0 \/ x.data = p.data) /\ x.count = 0 /\ x.objsize = p.count
        /\ p.data \in Values
    BY <1>1, <1>3 DEF Consumer, Sound, Producer
  <2> QED BY <2>1, PartyIsSeen
<1> HIDE DEF x
<1>7. Expected(b, m) => m.from = l.offset
  <2>1. ASSUME Expected(b, m) PROVE m.from = l.offset
    <3>1. m.seq - 1 = b.seqno
      BY <1>4, <1>5, <2>1
    <3> QED BY <1>1, <1>2, <3>1
  <2> QED BY <2>1
<1>8. Expected(b, m) /\ ~IsLast(m) =>
        /\ l.offset + 7 <= p.offset
        /\ e = 1 => l.offset + 7 = p.offset /\ p.offset # p.count
  <2>1. CASE e = 1
    <3>1. ASSUME Expected(b, m), ~IsLast(m) PROVE l.offset + 7 = p.offset /\ p.offset # p.count
      <4>1. p.offset # p.count
        BY <1>2, <1>5, <2>1, <3>1
      <4>2. b.seqno + 1 = p.seqno
        BY <1>2, <1>3, <1>4, <1>5, <2>1, <3>1
      <4>3. p.offset = p.lastblockoffset + 7 * p.seqno /\ l.offset = p.lastblockoffset + 7 * b.seqno
        BY <1>1, <1>3, <4>1
      <4>4. b.seqno \in Nat /\ p.lastblockoffset \in Nat
        BY <1>3, <1>4
      <4> QED BY <4>1, <4>2, <4>3, <4>4
    <3> QED BY <1>3, <3>1
  <2>2. CASE e # 1
    <3>1. b.seqno + 1 <= p.seqno - 1
      BY <1>2, <1>3, <1>4, <2>2
    <3>2. b.seqno \in Nat /\ p.lastblockoffset \in Nat /\ p.seqno \in Nat /\ p.offset \in Nat
      BY <1>3, <1>4
    <3>3. /\ p.lastblockoffset + 7 * (p.seqno - 1) < p.offset
          /\ l.offset = p.lastblockoffset + 7 * b.seqno
      BY <1>1, <1>3
    <3>4. l.offset + 7 <= p.offset
      BY <3>1, <3>2, <3>3
    <3> QED BY <2>2, <3>4
  <2> QED BY <2>1, <2>2
<1>9. ~SegmentOverflows(l, b, m)
  <2>1. Expected(b, m) /\ ~IsLast(m) => l.offset + 7 <= SDO_MAX_LENGTH_TRANSFER
    BY <1>3, <1>4, <1>8
  <2> QED BY <2>1 DEF SegmentOverflows, Fits, SEGMENT
<1>10. /\ r.line = (IF Expected(b, m) /\ ~IsLast(m) THEN SDOtoLine(l, m) ELSE l)
       /\ r.block = [IF Expected(b, m) /\ IsLast(m)
                     THEN [b EXCEPT !.rxstep = RXSTEP_END, !.tmpData = m] ELSE b
                     EXCEPT !.seqno = IF IsLast(m) \/ m.seq = SDO_BLOCK_SIZE THEN 0
                                      ELSE IF Expected(b, m) THEN m.seq ELSE b.seqno]
       /\ r.frames = IF IsLast(m) \/ m.seq = SDO_BLOCK_SIZE
                     THEN <<[Block(5, RESPONSE) EXCEPT
                              !.seq = IF Expected(b, m) THEN m.seq ELSE b.seqno,
                               !.n = SDO_BLOCK_SIZE]>>
                     ELSE <<>>
  BY <1>5 DEF Received
<1>11. /\ Same(l, r.line) /\ DOMAIN r.block = BlockFields /\ r.line.index = l.index
       /\ r.line.count = 0
       /\ r.line.offset = (IF Expected(b, m) /\ ~IsLast(m) THEN l.offset + m.n ELSE l.offset)
       /\ r.line.data = (IF Expected(b, m) /\ ~IsLast(m) THEN Joined(l, m) ELSE l.data)
       /\ r.block.rxstep = (IF Expected(b, m) /\ IsLast(m) THEN RXSTEP_END ELSE RXSTEP_STARTED)
       /\ (Expected(b, m) /\ IsLast(m) => r.block.tmpData = m)
       /\ r.block.objsize = p.count
       /\ r.block.seqno = IF IsLast(m) \/ m.seq = SDO_BLOCK_SIZE THEN 0
                          ELSE IF Expected(b, m) THEN m.seq ELSE b.seqno
  BY <1>1, <1>6, <1>10 DEF Same, Owned, SDOtoLine, Fields, BlockFields
<1>12. Expected(b, m) => Joined(l, m) = p.data
  BY <1>2, <1>6, <1>7 DEF Joined
<1>13. p.data # Mixed
  BY <1>6, LineAssumption
<1>14. /\ y.offset = r.line.offset /\ y.data = r.line.data /\ y.count = r.line.count
       /\ y.rxstep = r.block.rxstep /\ y.seqno = r.block.seqno /\ y.objsize = r.block.objsize
       /\ y.tmpData = r.block.tmpData
  BY PartyIsSeen
<1> DEFINE a == [Block(5, RESPONSE) EXCEPT
                   !.seq = IF Expected(b, m) THEN m.seq ELSE b.seqno, !.n = SDO_BLOCK_SIZE]
<1>15. /\ a.cs = 5 /\ a.sub = RESPONSE /\ a.n = SDO_BLOCK_SIZE
       /\ a.seq = (IF Expected(b, m) THEN m.seq ELSE b.seqno)
  BY DEF Block, Frame
<1>16. r.frames = IF IsLast(m) \/ m.seq = SDO_BLOCK_SIZE THEN <<a>> ELSE <<>>
  BY <1>10
<1> HIDE DEF r, y, a
<1>17. Consumer(p, y)
  <2>1. y.offset \in Nat /\ y.data # Mixed /\ (y.offset = 0 \/ y.data = p.data)
    BY <1>2, <1>4, <1>6, <1>11, <1>12, <1>13, <1>14, <1>5
  <2> QED BY <1>11, <1>14, <2>1 DEF Consumer, Sound
<1>18. CASE e = 1
  <2>1. m.seq = p.seqno /\ Tail(w) = <<>>
    <3>1. m.seq = p.seqno - e + 1 /\ p.seqno \in Nat
      BY <1>2, <1>3
    <3> QED BY <1>2, <1>18, <3>1
  <2>2. IsLast(m) <=> p.offset = p.count
    BY <1>2, <1>5, <1>18
  <2>3. IsLast(m) \/ m.seq = SDO_BLOCK_SIZE
    BY <1>3, <2>1, <2>2
  <2>4. r.frames = <<a>> /\ y.seqno = 0
    BY <1>11, <1>14, <1>16, <2>3
  <2>5. a.seq \in 0 .. p.seqno
    BY <1>2, <1>3, <1>4, <1>15, <2>1
  <2>6. CASE Expected(b, m) /\ IsLast(m)
    <3>1. a.seq = p.seqno /\ y.rxstep = RXSTEP_END /\ y.tmpData = m /\ y.offset = l.offset
      BY <1>11, <1>14, <1>15, <2>1, <2>6
    <3>2. l.offset = p.lastblockoffset + 7 * (p.seqno - 1) /\ p.offset = p.count
      BY <1>1, <1>3, <1>4, <1>5, <2>1, <2>2, <2>6
    <3>3. /\ p.endfield \in 1 .. SEGMENT /\ y.offset + p.endfield = p.count
          /\ p.lastblockoffset <= y.offset
      BY <1>3, <1>4, <3>1, <3>2 DEF SEGMENT
    <3>4. m.data = p.data /\ m.from = y.offset
      BY <1>2, <1>7, <2>6, <3>1
    <3>5. HasLast(p, y)
      BY <1>3, <1>17, <3>1, <3>2, <3>3, <3>4 DEF HasLast
    <3>6. Heard(p, y, a)
      BY <1>1, <1>15, <1>17, <2>4, <2>5, <3>1, <3>5 DEF Heard
    <3> QED BY <1>9, <1>11, <1>15, <2>1, <2>4, <3>6 DEF r, y, m
  <2>7. CASE ~(Expected(b, m) /\ IsLast(m))
    <3>1. y.rxstep = RXSTEP_STARTED
      BY <1>11, <1>14, <2>7
    <3>2. y.offset = p.lastblockoffset + 7 * a.seq /\ y.offset < p.count
      <4>1. CASE Expected(b, m)
        <5>1. y.offset = l.offset + 7 /\ a.seq = b.seqno + 1 /\ l.offset + 7 = p.offset
              /\ p.offset # p.count
          BY <1>2, <1>5, <1>8, <1>11, <1>14, <1>15, <1>18, <2>7, <4>1
        <5> QED BY <1>1, <1>3, <1>4, <5>1
      <4>2. CASE ~Expected(b, m)
        <5>1. y.offset = l.offset /\ a.seq = b.seqno /\ b.seqno <= p.seqno - 1
          BY <1>4, <1>11, <1>14, <1>15, <1>18, <4>2
        <5>2. l.offset <= p.lastblockoffset + 7 * (p.seqno - 1)
          BY <1>1, <1>3, <1>4, <5>1
        <5> QED BY <1>1, <1>3, <1>4, <5>1, <5>2
      <4> QED BY <4>1, <4>2
    <3>3. Heard(p, y, a)
      BY <1>1, <1>15, <1>17, <2>4, <2>5, <3>1, <3>2 DEF Heard, SEGMENT
    <3> QED BY <1>9, <1>11, <1>15, <2>1, <2>4, <3>3 DEF r, y, m
  <2> QED BY <2>6, <2>7
<1>19. CASE e # 1
  <2>1. ~IsLast(m) /\ m.seq # SDO_BLOCK_SIZE
    BY <1>2, <1>3, <1>5, <1>19
  <2>2. r.frames = <<>> /\ Tail(w) # <<>>
    BY <1>2, <1>16, <1>19, <2>1
  <2>3. y.rxstep = RXSTEP_STARTED /\ y.seqno = IF Expected(b, m) THEN m.seq ELSE b.seqno
    BY <1>11, <1>14, <2>1
  <2>4. y.seqno \in 0 .. p.seqno - e + 1
    BY <1>2, <1>3, <1>4, <2>3
  <2>5. y.offset = p.lastblockoffset + 7 * y.seqno
    <3>1. CASE Expected(b, m)
      <4>1. y.offset = l.offset + 7 /\ y.seqno = b.seqno + 1
        BY <1>2, <1>5, <1>11, <1>14, <2>1, <2>3, <3>1
      <4> QED BY <1>1, <1>3, <1>4, <4>1
    <3>2. CASE ~Expected(b, m)
      BY <1>1, <1>11, <1>14, <2>3, <3>2
    <3> QED BY <3>1, <3>2
  <2>6. Flows(p, y, Tail(w))
    BY <1>17, <2>2, <2>3, <2>4, <2>5, FlowShortens DEF e, SEGMENT
  <2> QED BY <1>9, <1>11, <2>2, <2>6 DEF r, y, m
<1> QED BY <1>18, <1>19

\* A consumer that is told how long the last segment is has the whole value.
LEMMA LastIsWhole ==
  ASSUME NEW l, DOMAIN l = Fields, NEW b, NEW p, NEW m, HasLast(p, Party(l, b)), m.n = p.endfield
  PROVE  LET d == Completed(l, b, m)
         IN  /\ d.data = p.data /\ d.offset = p.count /\ d.count = 0
             /\ Assembled(d) = p.data /\ Same(l, d) /\ d.index = l.index
<1> DEFINE d == Completed(l, b, m)
           f == [b.tmpData EXCEPT !.n = m.n]
<1>1. /\ l.data # Mixed /\ (l.offset = 0 \/ l.data = p.data) /\ l.count = 0 /\ l.offset \in Nat
      /\ p.endfield \in 1 .. 7 /\ l.offset + p.endfield = p.count
      /\ b.tmpData.data = p.data /\ b.tmpData.from = l.offset
      /\ p.data \in Values /\ p.count = Size[p.data] /\ p.count \in Nat \ {0}
  BY ProducerHolds, HoldsSomething, PartyIsSeen DEF HasLast, Producer, Consumer, Sound, SEGMENT
<1>2. d = SDOtoLine(l, f)
  BY DEF Completed
<1>3. Joined(l, f) = p.data
  BY <1>1 DEF Joined
<1>4. f.n = m.n
  OBVIOUS
<1> QED BY <1>1, <1>2, <1>3 DEF SDOtoLine, Fields, Same, Owned, Assembled

-----------------------------------------------------------------------------
(***************************************************************************)
(* A step of one connection.                                               *)
(***************************************************************************)
\* The parties and the views of a line show the same.
LEMMA PartiesShow ==
  ASSUME NEW t, NEW b, NEW k, NEW w
  PROVE  {Shown(c) : c \in Parties(t, b, k, w)} = Views(t, k, w)
<1>1. \A l, d : Shown(Party(l, d)) = View(l)
  BY PartyIsSeen DEF Shown, View
<1> QED BY <1>1 DEF Parties, Views

\* The dialogue of a connection, as its parties show it.
Plainly(k) ==
  Dialogue({Shown(c) : c \in ClientParties(k)}, {Shown(x) : x \in ServerParties(k)},
           req[k], resp[k], Asked(k), served[k], calls[k], TRUE)

LEMMA PlainlyServed ==
  ASSUME NEW k \in Conns, running = Nodes
  PROVE  Plainly(k) <=> Dialogues({k})
<1>1. /\ {Shown(c) : c \in ClientParties(k)} = ClientViews(k)
      /\ {Shown(x) : x \in ServerParties(k)} = ServerViews(k)
  BY PartiesShow DEF ClientParties, ServerParties, ClientViews, ServerViews
<1>2. (client[k] \in running) = TRUE
  BY SDOAssumption
<1> QED BY <1>1, <1>2 DEF Plainly, Dialogues

LEMMA PlainlyServedThen ==
  ASSUME NEW k \in Conns, running' = Nodes
  PROVE  Plainly(k)' <=> Dialogues({k})'
<1>1. /\ {Shown(c) : c \in ClientParties(k)'} = ClientViews(k)'
      /\ {Shown(x) : x \in ServerParties(k)'} = ServerViews(k)'
  BY PartiesShow DEF ClientParties, ServerParties, ClientViews, ServerViews
<1>2. (client[k] \in running') = TRUE
  BY SDOAssumption
<1> QED BY <1>1, <1>2 DEF Plainly, Dialogues

\* More frames may have been lost.
LEMMA ExchangeGrows ==
  ASSUME NEW C, NEW S, NEW q, NEW p, NEW r, NEW s, NEW n, NEW l \in Nat, NEW l2 \in Nat, l <= l2,
         Exchange(C, S, q, p, r, s, n, l)
  PROVE  Exchange(C, S, q, p, r, s, n, l2)
<1>1. (l >= 1 => l2 >= 1) /\ (l >= 2 => l2 >= 2)
  OBVIOUS
<1>2. Stale(S, q, l) => Stale(S, q, l2)
  BY <1>1 DEF Stale
<1>3. InSegments(C, S, q, p, r, s, n, l) => InSegments(C, S, q, p, r, s, n, l2)
  BY <1>2 DEF InSegments
<1>4. ASSUME NEW c, InBlocks(c, S, q, p, r, s, n, l) PROVE InBlocks(c, S, q, p, r, s, n, l2)
  <2>1. BlockAsks(S, q, p, c, l) => BlockAsks(S, q, p, c, l2)
    BY <1>2 DEF BlockAsks
  <2>2. Silent(S, q, p, c, l) => Silent(S, q, p, c, l2)
    BY <1>1 DEF Silent
  <2> QED BY <1>4, <2>1, <2>2 DEF InBlocks
<1> QED BY <1>3, <1>4 DEF Exchange

\* What has been asked for, served and told to the user, of k alone.
Minds(k) ==
  /\ Wires' /\ Whole' /\ FreeLinesForget' /\ ObjectsHold' /\ losses' \in Nat /\ losses <= losses'
  /\ \A h \in Conns \ {k} :
       requests'[h] = requests[h] /\ served'[h] = served[h] /\ calls'[h] = calls[h]

LEMMA ActsOrdered ==
  ASSUME Ordered, NEW k \in Conns, NEW C, NEW S, NEW q, NEW p, Acts(k, C, S, q, p), Minds(k),
         Exchange(C, S, q, p, Asked(k)', served'[k], calls'[k], losses')
  PROVE  Ordered'
<1>1. ASSUME NEW h \in Conns \ {k}
      PROVE  Exchange(ClientParties(h)', ServerParties(h)', req'[h], resp'[h], Asked(h)',
                      served'[h], calls'[h], losses')
  <2>1. Exchange(ClientParties(h), ServerParties(h), req[h], resp[h], Asked(h), served[h],
                 calls[h], losses)
    BY DEF Ordered, Exchanges
  <2>2. Exchange(ClientParties(h), ServerParties(h), req[h], resp[h], Asked(h), served[h],
                 calls[h], losses')
    BY <2>1, ExchangeGrows DEF Ordered, Minds
  <2>3. /\ ClientParties(h)' = ClientParties(h) /\ ServerParties(h)' = ServerParties(h)
        /\ req'[h] = req[h] /\ resp'[h] = resp[h]
    BY DEF Acts, OthersWait
  <2>4. Asked(h)' = Asked(h) /\ served'[h] = served[h] /\ calls'[h] = calls[h]
    BY DEF Minds, Asked
  <2> QED BY <2>2, <2>3, <2>4
<1>2. /\ req'[k] = q /\ resp'[k] = p /\ ClientParties(k)' = C /\ ServerParties(k)' = S
  BY DEF Acts
<1>3. ASSUME NEW h \in Conns
      PROVE  Exchange(ClientParties(h)', ServerParties(h)', req'[h], resp'[h], Asked(h)',
                      served'[h], calls'[h], losses')
  BY <1>1, <1>2
<1>4. Exchanges'
  BY <1>3 DEF Exchanges
<1>5. Settled'
  BY DEF Settled, Acts, OthersWait, Minds, Ordered
<1> QED BY <1>4, <1>5 DEF Ordered, Minds

-----------------------------------------------------------------------------
(***************************************************************************)
(* Free lines, whatever happens.                                           *)
(***************************************************************************)
LEMMA OneLineForgets ==
  ASSUME Settled, FreeLinesForget, NEW n \in Nodes, NEW i \in Lines, NEW l, l.state # RESET,
         transfers' = [transfers EXCEPT ![n] = [transfers[n] EXCEPT ![i] = l]],
         block' = block \/ \E b : block' = [block EXCEPT ![n][i] = b]
  PROVE  FreeLinesForget'
<1>1. \A m \in Nodes, j \in Lines :
        transfers'[m][j] = IF m = n /\ j = i THEN l ELSE transfers[m][j]
  BY DEF Settled, LineInvariant, LinesOK
<1>2. \A m \in Nodes, j \in Lines : (m = n /\ j = i) \/ block'[m][j] = block[m][j]
  BY DEF Settled, BlocksKept
<1> QED BY <1>1, <1>2 DEF FreeLinesForget

\* A line that goes on with a block keeps its state.
LEMMA StateGoesOn ==
  ASSUME NEW l, DOMAIN l = Fields
  PROVE  /\ RestartTimer(l).state = l.state
         /\ \A b, n : AfterBlock(l, b, n).line.state = l.state
         /\ \A b, m, f : Acknowledged(l, b, m, f).line.state = l.state
         /\ \A b, m : Received(l, b, m).line.state = l.state
         /\ \A b, m : Completed(l, b, m).state = l.state
<1>1. \A d : DOMAIN d = Fields =>
        \A b, n : AfterBlock(d, b, n).line.state = d.state
  BY DEF AfterBlock, Fields
<1>2. \A b, m : GoneBack(l, b, m).state = l.state /\ DOMAIN GoneBack(l, b, m) = Fields
  BY DEF GoneBack, Fields
<1>3. ASSUME NEW b, NEW m, NEW f PROVE Acknowledged(l, b, m, f).line.state = l.state
  <2>1. CASE AllAcknowledged(l, b, m)
    BY <2>1 DEF Acknowledged
  <2>2. CASE ~AllAcknowledged(l, b, m)
    BY <1>1, <1>2, <2>2 DEF Acknowledged
  <2> QED BY <2>1, <2>2
<1>4. \A m : SDOtoLine(l, m).state = l.state
  BY DEF SDOtoLine, Fields
<1>5. \A b, m : Received(l, b, m).line.state = l.state /\ Completed(l, b, m).state = l.state
  BY <1>4 DEF Received, Completed
<1> QED BY <1>1, <1>3, <1>5, TimerIsNotSeen

LEMMA ServerGoesOnForgets ==
  ASSUME Settled, FreeLinesForget, NEW k \in Conns, NEW i \in Lines, NEW s, s.line.state # RESET,
         ServerGoesOn(k, i, s)
  PROVE  FreeLinesForget'
<1>1. /\ transfers' = [transfers EXCEPT ![server[k]] = [transfers[server[k]] EXCEPT ![i] = s.line]]
      /\ block' = [block EXCEPT ![server[k]][i] = s.block]
  BY ServerWires DEF ServerGoesOn
<1> QED BY <1>1, OneLineForgets, ServerStatics

LEMMA ClientGoesOnForgets ==
  ASSUME Settled, FreeLinesForget, NEW k \in Conns, NEW i \in Lines, NEW l, NEW frames,
         l.state # RESET, ClientDoes(k, [transfers[client[k]] EXCEPT ![i] = l], frames),
         block' = block \/ \E b : block' = [block EXCEPT ![client[k]][i] = b]
  PROVE  FreeLinesForget'
<1>1. transfers' = [transfers EXCEPT ![client[k]] = [transfers[client[k]] EXCEPT ![i] = l]]
  BY ClientWires
<1> QED BY <1>1, OneLineForgets, ClientStatics

LEMMA ForgottenIsForgotten ==
  ASSUME Settled, ForgetsBlocks
  PROVE  FreeLinesForget'
<1>1. \A m \in Nodes, j \in Lines :
        block'[m][j] = IF transfers'[m][j].state = RESET THEN NoBlock ELSE block[m][j]
  BY BlocksForgotten DEF Settled
<1> QED BY <1>1 DEF FreeLinesForget

\* The line on use is not free.
LEMMA LinesOnUse ==
  ASSUME Settled, NEW k \in Conns
  PROVE  /\ ServerLine(k) # NoLine =>
              /\ ServerLine(k) \in Lines
              /\ DOMAIN transfers[server[k]][ServerLine(k)] = Fields
              /\ transfers[server[k]][ServerLine(k)].state # RESET
         /\ ClientLine(k) # NoLine =>
              /\ ClientLine(k) \in Lines
              /\ DOMAIN transfers[client[k]][ClientLine(k)] = Fields
              /\ transfers[client[k]][ClientLine(k)].state # RESET
<1>1. /\ LinesOK(transfers[server[k]]) /\ LinesOK(transfers[client[k]])
      /\ SERVER \in {SERVER, CLIENT} /\ CLIENT \in {SERVER, CLIENT}
  BY ServerStatics, ClientStatics
<1> QED BY <1>1, TheParty DEF ServerLine, ClientLine, InUse

LEMMA ServerForgets ==
  ASSUME Settled, FreeLinesForget, NEW k \in Conns, ServerDispatches(k)
  PROVE  FreeLinesForget'
<1> DEFINE m == Head(req[k])
           t == transfers[server[k]]
           f == getSDOfreeLine(t)
           i == ServerLine(k)
           l == RestartTimer(t[i])
           b == block[server[k]][i]
<1>1. ForgetsBlocks \/ ~ForgetsBlocks
  OBVIOUS
<1>2. CASE ForgetsBlocks
  BY <1>2, ForgottenIsForgotten
<1>3. \A s : i # NoLine /\ ServerGoesOn(k, i, s) /\ s.line.state # RESET => FreeLinesForget'
  BY LinesOnUse, ServerGoesOnForgets
<1>4. i # NoLine => /\ l.state # RESET /\ DOMAIN l = Fields /\ t[i].state # RESET
  BY LinesOnUse, StateGoesOn, TimerIsNotSeen
<1>5. \A k2, n, w : /\ InitLine(SERVER, k2, n, BLOCK_DOWNLOAD, w).state # RESET
                    /\ \A c, v : [InitLine(SERVER, k2, n, BLOCK_UPLOAD, w)
                                    EXCEPT !.count = c, !.data = v].state # RESET
  BY BlockStatesDiffer DEF InitLine, ResetLine
<1>6. f # NoLine => f \in Lines
  BY FreeLineIsFree
<1>7. CASE ServerInitiateBlockUpload(k) /\ ~ForgetsBlocks
  <2>1. ~NoLineFor(t, k)
    BY <1>7 DEF ServerInitiateBlockUpload, ServerBlockFails
  <2>2. PICK w, v, frames :
          /\ w \in Watchdogs
          /\ ServerDoes(k, [t EXCEPT ![f] = [InitLine(SERVER, k, m.index, BLOCK_UPLOAD, w)
                                             EXCEPT !.count = Size[v], !.data = v]], frames)
          /\ \E x : block' = [block EXCEPT ![server[k]][f] = x]
    BY <1>7, <2>1 DEF ServerInitiateBlockUpload, ServerBlockFails
  <2> DEFINE d == [InitLine(SERVER, k, m.index, BLOCK_UPLOAD, w)
                   EXCEPT !.count = Size[v], !.data = v]
  <2>3. transfers' = [transfers EXCEPT ![server[k]] = [t EXCEPT ![f] = d]] /\ d.state # RESET
    BY <1>5, <2>2, ServerWires
  <2> HIDE DEF d
  <2> QED BY <1>6, <2>1, <2>2, <2>3, OneLineForgets, ServerStatics DEF NoLineFor
<1>8. CASE ServerBlockUpload(k) /\ ~ForgetsBlocks
  <2>1. i # NoLine
    BY <1>8 DEF ServerBlockUpload, ServerBlockFails, Started, ServerLine
  <2>2. \/ ServerGoesOn(k, i, AfterBlock(l, b, b.blksize))
        \/ ServerGoesOn(k, i, Acknowledged(l, b, m, Block(6, END)))
    BY <1>8 DEF ServerBlockUpload, ServerBlockFails
  <2> QED BY <1>3, <1>4, <2>1, <2>2, StateGoesOn
<1>9. CASE ServerInitiateBlockDownload(k) /\ ~ForgetsBlocks
  <2>1. f # NoLine
    BY <1>9 DEF ServerInitiateBlockDownload, ServerBlockFails
  <2>2. PICK s : s.line.state # RESET /\ ServerGoesOn(k, f, s)
    BY <1>5, <1>9 DEF ServerInitiateBlockDownload, ServerBlockFails
  <2> QED BY <1>6, <2>1, <2>2, ServerGoesOnForgets
<1>10. CASE ServerBlockDownload(k) /\ ~ForgetsBlocks
  <2>1. i # NoLine
    BY <1>10 DEF ServerBlockDownload
  <2>2. \/ ServerGoesOn(k, i, [line |-> t[i], block |-> b, frames |-> <<>>])
        \/ ServerGoesOn(k, i, Received(l, b, m))
    BY <1>10 DEF ServerBlockDownload, ServerBlockFails
  <2> QED BY <1>3, <1>4, <2>1, <2>2, StateGoesOn
<1> QED BY <1>2, <1>7, <1>8, <1>9, <1>10 DEF ServerDispatches

LEMMA ClientForgets ==
  ASSUME Settled, FreeLinesForget, NEW k \in Conns, ClientDispatches(k)
  PROVE  FreeLinesForget'
<1> DEFINE m == Head(resp[k])
           t == transfers[client[k]]
           i == ClientLine(k)
           l == RestartTimer(t[i])
           b == block[client[k]][i]
<1>1. ForgetsBlocks => FreeLinesForget'
  BY ForgottenIsForgotten
<1>2. i # NoLine => /\ l.state # RESET /\ DOMAIN l = Fields /\ t[i].state # RESET /\ i \in Lines
  BY LinesOnUse, StateGoesOn, TimerIsNotSeen
<1>3. \A s : i # NoLine /\ ClientBlockGoesOn(k, i, s) /\ s.line.state # RESET => FreeLinesForget'
  BY <1>2, ClientGoesOnForgets DEF ClientBlockGoesOn
<1>4. CASE ClientBlockDownload(k) /\ ~ForgetsBlocks
  <2>1. i # NoLine
    BY <1>4 DEF ClientBlockDownload, ClientBlockFails, Started, ClientLine
  <2>2. \/ ClientBlockGoesOn(k, i, AfterBlock(l, b, m.n))
        \/ ClientBlockGoesOn(k, i, Acknowledged(l, b, m, Block(6, END)))
    BY <1>4 DEF ClientBlockDownload, ClientBlockFails
  <2> QED BY <1>2, <1>3, <2>1, <2>2, StateGoesOn
<1>5. CASE ClientEndsBlockDownload(k)
  <2> DEFINE j == IF i = NoLine THEN 0 ELSE i
  <2>1. ClientDoes(k, [t EXCEPT ![j] = Finished(t[j])], <<>>) /\ block' = block
    BY <1>5 DEF ClientEndsBlockDownload
  <2>2. j \in Lines
    BY <1>2, LineAssumption DEF Lines
  <2>3. DOMAIN t[j] = Fields
    BY <2>2, ClientStatics DEF LinesOK
  <2>4. Finished(t[j]).state # RESET
    BY <2>3, EndIsSeen, StatesDiffer
  <2> HIDE DEF j, t
  <2> QED BY <2>1, <2>2, <2>4, ClientGoesOnForgets DEF t
<1>6. CASE ClientBlockUpload(k) /\ ~ForgetsBlocks
  <2>1. i # NoLine
    BY <1>6 DEF ClientBlockUpload, ClientBlockFails
  <2>2. \/ \E d, f : ClientBlockGoesOn(k, i, [line |-> l, frames |-> f, block |-> d])
        \/ ClientBlockGoesOn(k, i, [line |-> l, block |-> b, frames |-> <<>>])
        \/ ClientBlockGoesOn(k, i, Received(l, b, m))
        \/ /\ ClientDoes(k, [t EXCEPT ![i] = Finished(Completed(l, b, m))], <<Block(5, END)>>)
           /\ block' = block
    BY <1>6 DEF ClientBlockUpload, ClientBlockFails
  <2>3. Finished(Completed(l, b, m)).state # RESET
    <3>1. DOMAIN Completed(l, b, m) = Fields
      BY <1>2, <2>1 DEF Completed, SDOtoLine
    <3> QED BY <3>1, EndIsSeen, StatesDiffer
  <2>4. \A d, f : /\ [line |-> l, frames |-> f, block |-> d].line = l
                  /\ [line |-> l, block |-> d, frames |-> f].line = l
    OBVIOUS
  <2>5. CASE \/ \E d, f : ClientBlockGoesOn(k, i, [line |-> l, frames |-> f, block |-> d])
             \/ ClientBlockGoesOn(k, i, [line |-> l, block |-> b, frames |-> <<>>])
             \/ ClientBlockGoesOn(k, i, Received(l, b, m))
    <3>1. PICK s : ClientBlockGoesOn(k, i, s) /\ (s.line = l \/ s = Received(l, b, m))
      BY <2>4, <2>5
    <3>2. s.line.state # RESET
      BY <1>2, <2>1, <3>1, StateGoesOn
    <3> QED BY <1>3, <2>1, <3>1, <3>2
  <2>6. CASE /\ ClientDoes(k, [t EXCEPT ![i] = Finished(Completed(l, b, m))], <<Block(5, END)>>)
             /\ block' = block
    BY <1>2, <2>1, <2>3, <2>6, ClientGoesOnForgets
  <2> QED BY <2>2, <2>5, <2>6
<1> QED BY <1>1, <1>4, <1>5, <1>6 DEF ClientDispatches

\* A new line keeps what a free one has, or what its block is to be.
LEMMA StartForgets ==
  ASSUME Settled, FreeLinesForget, NEW k \in Conns, NEW r, NEW l, NEW f, Starts(k, r, l, f),
         l.state # RESET, block' = block \/ \E n : StartsBlock(k, n)
  PROVE  FreeLinesForget'
<1> DEFINE i == getSDOfreeLine(transfers[client[k]])
<1>1. /\ i # NoLine
      /\ transfers' = [transfers EXCEPT ![client[k]] = [transfers[client[k]] EXCEPT ![i] = l]]
  BY DEF Starts
<1>2. i \in Lines
  BY <1>1, FreeLineIsFree
<1>3. block' = block \/ \E b : block' = [block EXCEPT ![client[k]][i] = b]
  BY DEF StartsBlock
<1> HIDE DEF i
<1> QED BY <1>1, <1>2, <1>3, OneLineForgets, ClientStatics

-----------------------------------------------------------------------------
(***************************************************************************)
(* What a step of a server or a client has to show.                        *)
(***************************************************************************)
LEMMA WholeStays ==
  ASSUME Ordered, od' = od
  PROVE  Whole' /\ ObjectsHold'
BY DEF Ordered, Settled, Whole, ObjectsHold

LEMMA WholeIsStored ==
  ASSUME Ordered, NEW k \in Conns, NEW index, NEW v \in Values, Stores(k, index, v)
  PROVE  /\ Whole' /\ ObjectsHold'
         /\ served' = [served EXCEPT ![k] = [op |-> DOWNLOAD, index |-> index, value |-> v]]
<1>1. /\ od' = [od EXCEPT ![server[k]][index] = v]
      /\ served' = [served EXCEPT ![k] = [op |-> DOWNLOAD, index |-> index, value |-> v]]
  BY DEF Stores
<1>2. ObjectsHold
  BY DEF Ordered, Settled
<1>3. \A n \in Nodes, x \in Indexes :
        od'[n][x] = IF n = server[k] /\ x = index THEN v ELSE od[n][x]
  BY <1>1, <1>2 DEF ObjectsHold
<1>4. Whole'
  BY <1>3 DEF Whole, Ordered
<1>5. ObjectsHold'
  BY <1>2, StoresHold DEF Stored
<1> QED BY <1>1, <1>4, <1>5

\* What the server may do to its objects: nothing, or store a value for k.
Keeps(k) ==
  \/ od' = od /\ (served' = served \/ \E s : served' = [served EXCEPT ![k] = s])
  \/ \E index : \E v \in Values : Stores(k, index, v)

LEMMA ServerOrdered ==
  ASSUME Ordered, NEW k \in Conns, ServerDispatches(k), NEW t, NEW S, NEW frames, NEW q, NEW p,
         ServerDoes(k, t, frames), ServerActs(k, S, frames), Keeps(k),
         q = Tail(req[k]), p = resp[k] \o frames,
         Exchange(ClientParties(k), S, q, p, Asked(k), served'[k], calls[k], losses)
  PROVE  Ordered'
<1>1. requests' = requests /\ calls' = calls /\ losses' = losses
  BY DEF ServerDoes, userVars, faultVars
<1>2. DOMAIN req' = Conns /\ DOMAIN resp' = Conns
  BY DEF ServerActs, Acts, OthersWait
<1>3. Whole' /\ ObjectsHold' /\ (served' = served \/ \E s : served' = [served EXCEPT ![k] = s])
  BY WholeStays, WholeIsStored DEF Keeps
<1>4. DOMAIN served' = Conns /\ \A h \in Conns \ {k} : served'[h] = served[h]
  <2>1. DOMAIN served = Conns
    BY DEF Ordered, Wires
  <2> QED BY <1>3, <2>1
<1>5. Wires'
  BY <1>1, <1>2, <1>4 DEF Ordered, Wires
<1>6. FreeLinesForget'
  BY ServerForgets DEF Ordered
<1>7. losses' \in Nat /\ losses <= losses'
  BY <1>1 DEF Ordered
<1>8. Minds(k)
  BY <1>1, <1>3, <1>4, <1>5, <1>6, <1>7 DEF Minds
<1>9. Asked(k)' = Asked(k)
  BY <1>1 DEF Asked
<1> QED BY <1>1, <1>8, <1>9, ActsOrdered DEF ServerActs

LEMMA ClientOrdered ==
  ASSUME Ordered, NEW k \in Conns, ClientDispatches(k), NEW t, NEW C, NEW frames, NEW q, NEW p,
         ClientDoes(k, t, frames), ClientActs(k, C, frames), calls' = calls \/ CallBack(k),
         q = req[k] \o frames, p = Tail(resp[k]),
         Exchange(C, ServerParties(k), q, p, Asked(k), served[k], calls'[k], losses)
  PROVE  Ordered'
<1>1. requests' = requests /\ served' = served /\ losses' = losses /\ od' = od
  BY DEF ClientDoes, userVars, faultVars
<1>2. DOMAIN req' = Conns /\ DOMAIN resp' = Conns
  BY DEF ClientActs, Acts, OthersWait
<1>3. DOMAIN calls' = Conns /\ \A h \in Conns \ {k} : calls'[h] = calls[h]
  <2>1. DOMAIN calls = Conns
    BY DEF Ordered, Wires
  <2> QED BY <2>1 DEF CallBack
<1>4. Wires'
  BY <1>1, <1>2, <1>3 DEF Ordered, Wires
<1>5. FreeLinesForget'
  BY ClientForgets DEF Ordered
<1>6. losses' \in Nat /\ losses <= losses'
  BY <1>1 DEF Ordered
<1>7. Minds(k)
  BY <1>1, <1>3, <1>4, <1>5, <1>6, WholeStays DEF Minds
<1>8. Asked(k)' = Asked(k)
  BY <1>1 DEF Asked
<1> QED BY <1>1, <1>7, <1>8, ActsOrdered DEF ClientActs

\* The exchange of a connection, as it stands.
LEMMA ExchangeOf ==
  ASSUME Ordered, NEW k \in Conns
  PROVE  /\ Exchange(ClientParties(k), ServerParties(k), req[k], resp[k], Asked(k), served[k],
                     calls[k], losses)
         /\ Settled /\ losses \in Nat
BY DEF Ordered, Exchanges

-----------------------------------------------------------------------------
(***************************************************************************)
(* A server in a plain transfer.                                           *)
(***************************************************************************)
\* What may become of the server's objects when it gets a frame m and answers f.
Obeys(k, m, f) ==
  \/ od' = od /\ (served' = served \/ \E s : served' = [served EXCEPT ![k] = s])
  \/ /\ m.last /\ m.cs \in {0, 1} /\ f.cs \in {1, 3}
     /\ \E index : \E v : Stores(k, index, v)

\* The server answers f, with lines that were there or are at a plain transfer.
PlainlyActs(k, S, f) ==
  /\ \E t : ServerDoes(k, t, <<f>>)
  /\ ServerActs(k, S, <<f>>) /\ f.cs \in 0 .. 4
  /\ \A x \in S : \/ x \in ServerParties(k)
                  \/ x.rxstep = RXSTEP_INIT /\ x.state \in {DOWNLOAD, UPLOAD}
  /\ Obeys(k, Head(req[k]), f)

LEMMA PlainFails ==
  ASSUME Settled, NEW k \in Conns, ServerFails(k, <<>>), ForgetsBlocks
  PROVE  PlainlyActs(k, {}, Abort)
<1>1. ServerActs(k, {}, <<>> \o <<Abort>>) /\ od' = od /\ served' = served
  BY ServerGivesUpActs
<1>2. <<>> \o <<Abort>> = <<Abort>>
  OBVIOUS
<1>3. \E t : ServerDoes(k, t, <<Abort>>)
  BY <1>2 DEF ServerFails
<1> QED BY <1>1, <1>2, <1>3, FramesDiffer DEF PlainlyActs, Obeys

LEMMA PlainStays ==
  ASSUME Settled, NEW k \in Conns, NEW f, f.cs \in 0 .. 4,
         ServerDoes(k, transfers[server[k]], <<f>>), ForgetsBlocks, Obeys(k, Head(req[k]), f)
  PROVE  PlainlyActs(k, ServerParties(k), f)
BY ServerStaysActs DEF PlainlyActs

LEMMA PlainResets ==
  ASSUME Settled, NEW k \in Conns, NEW f, f.cs \in 0 .. 4, ServerLine(k) # NoLine,
         ServerDoes(k, resetSDOline(transfers[server[k]], ServerLine(k)), <<f>>), ForgetsBlocks,
         Obeys(k, Head(req[k]), f)
  PROVE  PlainlyActs(k, {}, f)
BY ServerResetsActs DEF PlainlyActs

LEMMA PlainBegins ==
  ASSUME Settled, FreeLinesForget, NEW k \in Conns, NEW f, f.cs \in 0 .. 4,
         ~NoLineFor(transfers[server[k]], k), NEW l, DOMAIN l = Fields, l.CliServNbr = k,
         l.whoami = SERVER, l.state \in {DOWNLOAD, UPLOAD}, l.timer \in Watchdogs,
         ServerDoes(k, [transfers[server[k]] EXCEPT ![getSDOfreeLine(transfers[server[k]])] = l],
                    <<f>>),
         ForgetsBlocks, Obeys(k, Head(req[k]), f)
  PROVE  \E S : PlainlyActs(k, S, f)
<1> DEFINE t == transfers[server[k]]
           i == getSDOfreeLine(t)
           x == Party(l, block'[server[k]][i])
<1>1. i \in Lines /\ t[i].state = RESET /\ server[k] \in Nodes /\ BlocksKept /\ LineInvariant
  BY FreeLineIsFree, ServerStatics DEF NoLineFor, Settled
<1>2. transfers' = [transfers EXCEPT ![server[k]] = [t EXCEPT ![i] = l]]
  BY ServerWires
<1>3. l.state \in InProgress /\ l.state # RESET
  BY StatesDiffer, BlockStatesDiffer
<1> HIDE DEF i
<1>4. /\ BlocksKept' /\ BlocksStay(server[k], i) /\ block'[server[k]][i] = block[server[k]][i]
  BY <1>1, <1>2, <1>3, OneBlockForgotten
<1>5. block[server[k]][i] = NoBlock
  BY <1>1 DEF FreeLinesForget
<1>6. x.rxstep = RXSTEP_INIT /\ x.state \in {DOWNLOAD, UPLOAD}
  BY <1>4, <1>5, PartyIsSeen DEF NoBlock
<1>7. ServerActs(k, {x}, <<f>>)
  BY <1>3, <1>4, ServerBeginsActs DEF i
<1> HIDE DEF x
<1>8. PlainlyActs(k, {x}, f)
  BY <1>6, <1>7 DEF PlainlyActs
<1> QED BY <1>8

LEMMA PlainGoesOn ==
  ASSUME Settled, NEW k \in Conns, NEW f, f.cs \in 0 .. 4, ServerLine(k) # NoLine, NEW l,
         \A x \in ServerParties(k) : StepFits(x),
         transfers[server[k]][ServerLine(k)].state \in {DOWNLOAD, UPLOAD},
         GoesOn(transfers[server[k]][ServerLine(k)], l),
         ServerDoes(k, [transfers[server[k]] EXCEPT ![ServerLine(k)] = l], <<f>>), ForgetsBlocks,
         Obeys(k, Head(req[k]), f)
  PROVE  \E S : PlainlyActs(k, S, f)
<1> DEFINE t == transfers[server[k]]
           i == ServerLine(k)
           x == Party(l, block'[server[k]][i])
           y == Party(t[i], block[server[k]][i])
<1>1. i \in Lines /\ server[k] \in Nodes /\ y \in ServerParties(k) /\ BlocksKept /\ LineInvariant
  BY ServerSees, ServerStatics DEF Settled
<1>2. transfers' = [transfers EXCEPT ![server[k]] = [t EXCEPT ![i] = l]]
  BY ServerWires
<1>3. l.state = t[i].state /\ l.state # RESET
  BY StatesDiffer, BlockStatesDiffer DEF GoesOn
<1>4. y.rxstep = RXSTEP_INIT
  <2>1. StepFits(y) /\ y.state \in {DOWNLOAD, UPLOAD}
    BY <1>1, PartyIsSeen
  <2>2. y.state # BLOCK_DOWNLOAD
    BY <2>1, BlockStatesDiffer
  <2> QED BY <2>1, <2>2 DEF StepFits
<1> HIDE DEF i
<1>5. /\ BlocksKept' /\ BlocksStay(server[k], i) /\ block'[server[k]][i] = block[server[k]][i]
  BY <1>1, <1>2, <1>3, OneBlockForgotten
<1>6. x.rxstep = RXSTEP_INIT /\ x.state \in {DOWNLOAD, UPLOAD}
  BY <1>3, <1>4, <1>5, PartyIsSeen DEF i
<1>7. ServerActs(k, {x}, <<f>>)
  BY <1>5, ServerContinuesActs DEF i
<1> HIDE DEF x
<1>8. PlainlyActs(k, {x}, f)
  BY <1>6, <1>7 DEF PlainlyActs
<1> QED BY <1>8

\* cs 1.
LEMMA PlainDownloadAsked ==
  ASSUME Settled, FreeLinesForget, ~MayRefuse, NEW k \in Conns, ServerInitiateDownload(k),
         ForgetsBlocks
  PROVE  \E S, f : PlainlyActs(k, S, f)
<1> DEFINE t == transfers[server[k]]
           m == Head(req[k])
           i == getSDOfreeLine(t)
           f == [Frame(3) EXCEPT !.index = m.index]
           l(w) == [InitLine(SERVER, k, m.index, DOWNLOAD, w) EXCEPT !.count = m.n]
<1>1. m.cs = 1 /\ f.cs = 3
  BY DEF ServerInitiateDownload, ServerGets, Frame
<1> HIDE DEF f
<1>2. \/ ServerFails(k, <<>>)
      \/ m.last /\ ServerDoes(k, t, <<f>>) /\ \E v : Stores(k, m.index, v)
      \/ /\ ~NoLineFor(t, k) /\ od' = od /\ served' = served
         /\ \E w \in Watchdogs : ServerDoes(k, [t EXCEPT ![i] = l(w)], <<f>>)
  BY NothingRefused DEF ServerInitiateDownload, f
<1>3. CASE m.last /\ ServerDoes(k, t, <<f>>) /\ \E v : Stores(k, m.index, v)
  <2>1. Obeys(k, m, f)
    BY <1>1, <1>3 DEF Obeys
  <2> QED BY <1>1, <1>3, <2>1, PlainStays
<1>4. CASE /\ ~NoLineFor(t, k) /\ od' = od /\ served' = served
           /\ \E w \in Watchdogs : ServerDoes(k, [t EXCEPT ![i] = l(w)], <<f>>)
  <2>1. PICK w \in Watchdogs : ServerDoes(k, [t EXCEPT ![i] = l(w)], <<f>>)
    BY <1>4
  <2> DEFINE d == l(w)
  <2>2. /\ DOMAIN d = Fields /\ d.CliServNbr = k /\ d.whoami = SERVER /\ d.state = DOWNLOAD
        /\ d.timer = w
    BY DEF InitLine, ResetLine, Fields
  <2>3. ServerDoes(k, [t EXCEPT ![i] = d], <<f>>)
    BY <2>1
  <2> HIDE DEF l, d
  <2>4. Obeys(k, m, f)
    BY <1>4 DEF Obeys
  <2> QED BY <1>1, <1>4, <2>2, <2>3, <2>4, PlainBegins
<1> QED BY <1>2, <1>3, <1>4, PlainFails

\* cs 0.
LEMMA PlainSegmentGot ==
  ASSUME Settled, ~MayRefuse, NEW k \in Conns, ServerDownloadSegment(k), ForgetsBlocks,
         \A x \in ServerParties(k) : StepFits(x)
  PROVE  \E S, f : PlainlyActs(k, S, f)
<1> DEFINE t == transfers[server[k]]
           m == Head(req[k])
           i == ServerLine(k)
           f == [Frame(1) EXCEPT !.toggle = m.toggle]
<1>1. m.cs = 0 /\ f.cs = 1
  BY DEF ServerDownloadSegment, ServerGets, Frame
<1> HIDE DEF f
<1>2. \/ ServerFails(k, <<>>)
      \/ /\ Started(t, k, SERVER, DOWNLOAD)
         /\ LET l == [SDOtoLine(RestartTimer(t[i]), m) EXCEPT !.toggle = Inverted(@)]
            IN  \/ /\ ServerDoes(k, [t EXCEPT ![i] = l], <<f>>)
                   /\ od' = od /\ served' = served
                \/ /\ m.last /\ ServerDoes(k, resetSDOline(t, i), <<f>>)
                   /\ Stores(k, l.index, Assembled(l))
  BY NothingRefused DEF ServerDownloadSegment, SegmentFits, ServerLine, f
<1>3. ASSUME Started(t, k, SERVER, DOWNLOAD), NEW l,
             l = [SDOtoLine(RestartTimer(t[i]), m) EXCEPT !.toggle = Inverted(@)],
             \/ ServerDoes(k, [t EXCEPT ![i] = l], <<f>>) /\ od' = od /\ served' = served
             \/ /\ m.last /\ ServerDoes(k, resetSDOline(t, i), <<f>>)
                /\ Stores(k, l.index, Assembled(l))
      PROVE  \E S : PlainlyActs(k, S, f)
  <2>1. i # NoLine /\ t[i].state = DOWNLOAD /\ DOMAIN t[i] = Fields
    BY <1>3, ServerSees DEF Started, ServerLine
  <2>2. GoesOn(t[i], l)
    <3> DEFINE toggle == Inverted(SDOtoLine(RestartTimer(t[i]), m).toggle)
    <3>1. l = [SDOtoLine(RestartTimer(t[i]), m) EXCEPT !.toggle = toggle]
      BY <1>3
    <3>2. t[i].state \in InProgress
      BY <2>1, StatesDiffer
    <3> HIDE DEF toggle, i
    <3> QED BY <2>1, <3>1, <3>2, TakenGoesOn
  <2>3. CASE ServerDoes(k, [t EXCEPT ![i] = l], <<f>>) /\ od' = od /\ served' = served
    <3>1. Obeys(k, m, f)
      BY <2>3 DEF Obeys
    <3> QED BY <1>1, <2>1, <2>2, <2>3, <3>1, PlainGoesOn
  <2>4. CASE /\ m.last /\ ServerDoes(k, resetSDOline(t, i), <<f>>)
             /\ Stores(k, l.index, Assembled(l))
    <3>1. Obeys(k, m, f)
      BY <1>1, <2>4 DEF Obeys
    <3> QED BY <1>1, <2>1, <2>4, <3>1, PlainResets
  <2> QED BY <1>3, <2>3, <2>4
<1> QED BY <1>2, <1>3, PlainFails

\* cs 2.
LEMMA PlainUploadAsked ==
  ASSUME Settled, FreeLinesForget, ~MayRefuse, Wires, NEW k \in Conns, ServerInitiateUpload(k),
         ForgetsBlocks
  PROVE  \E S, f : PlainlyActs(k, S, f)
<1> DEFINE t == transfers[server[k]]
           m == Head(req[k])
           i == getSDOfreeLine(t)
           v == od[server[k]][m.index]
           f == [Frame(2) EXCEPT !.index = m.index, !.last = Size[v] <= EXPEDITED, !.n = Size[v],
                                 !.data = IF Size[v] <= EXPEDITED THEN v ELSE Nothing]
           l(w) == [InitLine(SERVER, k, m.index, UPLOAD, w) EXCEPT !.count = Size[v], !.data = v]
           serves == od' = od /\ \E s : served' = [served EXCEPT ![k] = s]
<1>1. f.cs = 2
  BY DEF Frame
<1> HIDE DEF f
<1>2. \/ ServerFails(k, <<>>)
      \/ ServerDoes(k, t, <<f>>) /\ serves
      \/ /\ ~NoLineFor(t, k) /\ serves
         /\ \E w \in Watchdogs : ServerDoes(k, [t EXCEPT ![i] = l(w)], <<f>>)
  BY NothingRefused DEF ServerInitiateUpload, f
<1>3. serves => Obeys(k, m, f)
  BY DEF Obeys
<1> HIDE DEF serves
<1>4. CASE /\ ~NoLineFor(t, k) /\ serves
           /\ \E w \in Watchdogs : ServerDoes(k, [t EXCEPT ![i] = l(w)], <<f>>)
  <2>1. PICK w \in Watchdogs : ServerDoes(k, [t EXCEPT ![i] = l(w)], <<f>>)
    BY <1>4
  <2> DEFINE d == l(w)
  <2>2. /\ DOMAIN d = Fields /\ d.CliServNbr = k /\ d.whoami = SERVER /\ d.state = UPLOAD
        /\ d.timer = w
    BY DEF InitLine, ResetLine, Fields
  <2>3. ServerDoes(k, [t EXCEPT ![i] = d], <<f>>)
    BY <2>1
  <2> HIDE DEF l, d
  <2> QED BY <1>1, <1>3, <1>4, <2>2, <2>3, PlainBegins
<1>5. CASE ServerDoes(k, t, <<f>>) /\ serves
  BY <1>1, <1>3, <1>5, PlainStays
<1> QED BY <1>2, <1>4, <1>5, PlainFails

\* cs 3.
LEMMA PlainSegmentAsked ==
  ASSUME Settled, NEW k \in Conns, ServerUploadSegment(k), ForgetsBlocks,
         \A x \in ServerParties(k) : StepFits(x)
  PROVE  \E S, f : PlainlyActs(k, S, f)
<1> DEFINE t == transfers[server[k]]
           i == ServerLine(k)
           r == RestartTimer(t[i])
           f == Segment(r, r.toggle)
           d == [lineToSDO(r, f.n) EXCEPT !.toggle = Inverted(@)]
<1>1. f.cs = 0
  BY DEF Segment, Frame
<1>2. \/ ServerFails(k, <<>>)
      \/ /\ Started(t, k, SERVER, UPLOAD) /\ od' = od /\ served' = served
         /\ ServerDoes(k, IF f.last THEN resetSDOline(t, i) ELSE [t EXCEPT ![i] = d], <<f>>)
  BY DEF ServerUploadSegment, SegmentFits, ServerLine
<1> HIDE DEF f
<1>3. CASE /\ Started(t, k, SERVER, UPLOAD) /\ od' = od /\ served' = served
           /\ ServerDoes(k, IF f.last THEN resetSDOline(t, i) ELSE [t EXCEPT ![i] = d], <<f>>)
  <2>1. i # NoLine /\ t[i].state = UPLOAD /\ DOMAIN t[i] = Fields
    BY <1>3, ServerSees DEF Started, ServerLine
  <2>2. GoesOn(t[i], d)
    <3> DEFINE toggle == Inverted(lineToSDO(r, f.n).toggle)
    <3>1. d = [lineToSDO(r, f.n) EXCEPT !.toggle = toggle]
      OBVIOUS
    <3>2. t[i].state \in InProgress
      BY <2>1, StatesDiffer
    <3> HIDE DEF toggle, i
    <3> QED BY <2>1, <3>1, <3>2, SentGoesOn
  <2> HIDE DEF d
  <2>3. Obeys(k, Head(req[k]), f)
    BY <1>3 DEF Obeys
  <2> QED BY <1>1, <1>3, <2>1, <2>2, <2>3, PlainResets, PlainGoesOn
<1> QED BY <1>2, <1>3, PlainFails

\* A request that is no part of a transfer in blocks.
LEMMA ServerPlainly ==
  ASSUME Ordered, ~MayRefuse, NoRequestIsMisread, NEW k \in Conns, ServerDispatches(k),
         InSegments(ClientParties(k), ServerParties(k), req[k], resp[k], Asked(k), served[k],
                    calls[k], losses),
         req[k] # <<>>, Head(req[k]) \notin Closing
  PROVE  Ordered'
<1> DEFINE C == ClientParties(k)
           S == ServerParties(k)
           D == {Shown(c) : c \in C}
           q == req[k]
           m == Head(q)
<1>1. /\ Settled /\ Wires /\ FreeLinesForget /\ running = Nodes /\ LineInvariant
      /\ \A x \in S : StepFits(x)
  BY ExchangeOf DEF Ordered, Settled, Exchange
<1>2. /\ Plainly(k) /\ Stale(S, q, losses)
      /\ \A c \in C : c.state \notin {BLOCK_DOWNLOAD, BLOCK_UPLOAD}
  BY DEF InSegments, Plainly
<1>3. PICK m2 : Asking(m2, D, {Shown(x) : x \in S}, q, resp[k], served[k], TRUE)
  <2>1. ~Cleared(q)
    <3>1. \A x \in Closing : q = <<x>> => m = x
      OBVIOUS
    <3> QED BY <3>1 DEF Cleared
  <2> QED BY <1>2, <2>1 DEF Plainly, Dialogue, Answering
<1>4. q = <<m2>>
  <2>1. \A x \in Closing : q = <<x, m2>> => m = x
    OBVIOUS
  <2> QED BY <1>3, <2>1 DEF Asking
<1>5. /\ m = m2 /\ Tail(q) = <<>> /\ resp[k] = <<>> /\ m.cs \in 0 .. 3
      /\ D # {} /\ \A c \in D : Waits(c) /\ RequestFits(m, c, {Shown(x) : x \in S}, served[k])
  BY <1>3, <1>4 DEF Asking
<1>6. PICK c \in C : TRUE
  BY <1>5
<1>7. \A s \in S : s.state # BLOCK_DOWNLOAD
  <2> SUFFICES ASSUME NEW s \in S, s.state = BLOCK_DOWNLOAD PROVE FALSE
    OBVIOUS
  <2>1. Shown(s).state = BLOCK_DOWNLOAD
    BY DEF Shown
  <2>2. m.cs # 0 /\ m.cs # 3
    BY <1>5, <1>6, <2>1, BlockStatesDiffer DEF RequestFits, Receives, Sends
  <2>3. m.cs \in {1, 2} /\ m # Abort
    BY <1>5, <2>2, FramesDiffer
  <2>4. S = {s}
    <3>1. ServerLine(k) # NoLine
      BY <1>1, ServerSees
    <3> QED BY <1>1, <3>1, ServerSees
  <2>5. Started(transfers[server[k]], k, SERVER, BLOCK_DOWNLOAD)
    BY <1>1, <2>4, ServerIsAt
  <2>6. ServerReadsData(k)
    BY <2>3, <2>5 DEF ServerReadsData
  <2> QED BY <2>3, <2>6 DEF NoRequestIsMisread, Initiates
<1>8. ~ServerReadsData(k)
  BY <1>1, <1>7, ServerIsAt DEF ServerReadsData
<1>9. /\ ForgetsBlocks
      /\ \/ ServerInitiateDownload(k) \/ ServerDownloadSegment(k)
         \/ ServerInitiateUpload(k) \/ ServerUploadSegment(k)
  BY <1>5, <1>8, ServerHandlers
<1>10. PICK S2, f : PlainlyActs(k, S2, f)
  BY <1>1, <1>9, PlainDownloadAsked, PlainSegmentGot, PlainUploadAsked, PlainSegmentAsked
<1> HIDE DEF C, S, D, q, m
<1>11. PICK t : ServerDoes(k, t, <<f>>)
  BY <1>10 DEF PlainlyActs
<1>12. /\ ServerActs(k, S2, <<f>>) /\ f.cs \in 0 .. 4 /\ Obeys(k, m, f)
       /\ \A x \in S2 : x \in S \/ (x.rxstep = RXSTEP_INIT /\ x.state \in {DOWNLOAD, UPLOAD})
  BY <1>10 DEF PlainlyActs, S, m, q
<1>13. <<>> \o <<f>> = <<f>>
  OBVIOUS
<1>14. /\ ClientParties(k)' = C /\ ServerParties(k)' = S2 /\ req'[k] = <<>> /\ resp'[k] = <<f>>
       /\ running' = Nodes /\ requests' = requests /\ calls' = calls
  BY <1>1, <1>5, <1>11, <1>12, <1>13
     DEF ServerActs, Acts, OthersWait, ServerDoes, userVars, C, q
<1>15. Plainly(k)'
  <2>1. ServedInvariant({k})
    BY <1>1, <1>2, PlainlyServed DEF ServedInvariant, Settled
  <2>2. ServerHandles(k)
    BY <1>9 DEF ServerHandles
  <2>3. ServedInvariant({k})'
    BY <1>1, <2>1, <2>2, ServerHandlesServes
  <2> QED BY <1>14, <2>3, PlainlyServedThen DEF ServedInvariant
<1>16. Dialogue(D, {Shown(x) : x \in S2}, <<>>, <<f>>, Asked(k), served'[k], calls[k], TRUE)
  <2>1. Asked(k)' = Asked(k)
    BY <1>14 DEF Asked
  <2> QED BY <1>14, <1>15, <2>1 DEF Plainly, D
<1>17. Keeps(k)
  <2>1. CASE od' = od /\ (served' = served \/ \E s : served' = [served EXCEPT ![k] = s])
    BY <2>1 DEF Keeps
  <2>2. CASE /\ m.last /\ m.cs \in {0, 1} /\ f.cs \in {1, 3}
             /\ \E index : \E v : Stores(k, index, v)
    <3>1. PICK index, v : Stores(k, index, v)
      BY <2>2
    <3>2. served'[k] = [op |-> DOWNLOAD, index |-> index, value |-> v]
      BY <1>1, <3>1 DEF Stores, Wires
    <3> DEFINE d == Shown(c)
    <3>3. d \in D /\ InTune(d, Asked(k), served'[k], calls[k]) /\ Waits(d)
      BY <1>5, <1>6, <1>16 DEF Dialogue, D, C
    <3> HIDE DEF d
    <3>4. ResponseFits(f, d, {Shown(x) : x \in S2}, served'[k])
      <4>1. <<f>> # <<>> /\ Head(<<f>>) = f
        OBVIOUS
      <4> QED BY <1>16, <3>3, <4>1, DialogueAnswer
    <3>5. d.state = DOWNLOAD /\ d.offset = d.count
      BY <1>5, <2>2, <3>3 DEF RequestFits
    <3>6. served'[k].value = d.data /\ d.data \in Values
      BY <2>2, <3>3, <3>4, <3>5 DEF ResponseFits, DoneFor, InTune
    <3>7. v \in Values
      BY <3>2, <3>6
    <3> QED BY <3>1, <3>7 DEF Keeps
  <2> QED BY <1>12, <2>1, <2>2 DEF Obeys
<1>18. \A x \in S2 : StepFits(x) /\ x.state # BLOCK_DOWNLOAD
  BY <1>1, <1>7, <1>12, BlockStatesDiffer, StatesDiffer DEF StepFits, S
<1>19. InSegments(C, S2, <<>>, <<f>>, Asked(k), served'[k], calls[k], losses)
  <2>1. Stale(S2, <<>>, losses) /\ Ahead(S2, <<>>)
    BY <1>18 DEF Stale, Ahead
  <2>2. Head(<<f>>) = f
    OBVIOUS
  <2> QED BY <1>2, <1>12, <1>16, <2>1, <2>2 DEF InSegments, C, D
<1>20. Exchange(C, S2, <<>>, <<f>>, Asked(k), served'[k], calls[k], losses)
  BY <1>18, <1>19 DEF Exchange
<1>21. <<>> = Tail(req[k]) /\ <<f>> = resp[k] \o <<f>>
  BY <1>5, <1>13 DEF q
<1> QED BY <1>11, <1>12, <1>17, <1>20, <1>21, ServerOrdered DEF C

-----------------------------------------------------------------------------
(***************************************************************************)
(* A server that is told to close its line.                                *)
(***************************************************************************)
LEMMA ServerIsClosed ==
  ASSUME Settled, NEW k \in Conns, ServerDispatches(k),
         LET m == Head(req[k])
         IN  \/ m = Abort
             \/ m = Block(5, END) /\ \E s : ServerParties(k) = {s} /\ s.state = BLOCK_UPLOAD
  PROVE  /\ \E t : ServerDoes(k, t, <<>>)
         /\ ServerActs(k, {}, <<>>) /\ od' = od /\ served' = served
<1> DEFINE t == transfers[server[k]]
           i == ServerLine(k)
           m == Head(req[k])
           S == ServerParties(k)
<1>1. CASE m = Abort
  <2>1. ~ServerReadsData(k) /\ m.cs = 4
    BY <1>1, FramesDiffer DEF ServerReadsData
  <2>2. ServerAbort(k) /\ ForgetsBlocks
    BY <2>1, ServerHandlers
  <2>3. od' = od /\ served' = served
    BY <2>2 DEF ServerAbort
  <2>4. CASE i = NoLine
    <3>1. ServerDoes(k, t, <<>>)
      BY <2>2, <2>4 DEF ServerAbort, ServerLine
    <3>2. S = {}
      BY <2>4, ServerSees
    <3> QED BY <2>2, <2>3, <3>1, <3>2, ServerStaysActs
  <2>5. CASE i # NoLine
    <3>1. ServerDoes(k, resetSDOline(t, i), <<>>)
      BY <2>2, <2>5 DEF ServerAbort, ServerLine
    <3> QED BY <2>2, <2>3, <2>5, <3>1, ServerResetsActs
  <2> QED BY <2>4, <2>5
<1>2. CASE m = Block(5, END) /\ \E s : S = {s} /\ s.state = BLOCK_UPLOAD
  <2>1. i # NoLine /\ Started(t, k, SERVER, BLOCK_UPLOAD)
    BY <1>2, ServerSees, ServerIsAt
  <2>2. ~ServerReadsData(k) /\ m.cs = 5 /\ m.sub = END /\ m.sub # INITIATE
    <3>1. ~Started(t, k, SERVER, BLOCK_DOWNLOAD)
      BY <2>1, BlockStatesDiffer DEF Started
    <3> QED BY <1>2, <3>1, FramesDiffer DEF ServerReadsData
  <2>3. ServerBlockUpload(k)
    BY <2>2, ServerHandlers
  <2>4. /\ ServerDoes(k, resetSDOline(t, i), <<>>) /\ ForgetsBlocks
        /\ od' = od /\ served' = served
    <3>1. m.sub # START_UPLOAD /\ m.sub # RESPONSE
      BY <2>2, FramesDiffer
    <3> QED BY <2>1, <2>2, <2>3, ServerUploadCases
  <2> QED BY <2>1, <2>4, ServerResetsActs
<1> QED BY <1>1, <1>2

Opening(q) == q = <<>> \/ \E m : m.cs \in {1, 2} /\ q = <<m>>

\* What is behind a frame that closes the server's line begins a transfer.
LEMMA BehindClosing ==
  ASSUME NEW C, NEW S, NEW q, NEW p, NEW r, NEW s, NEW n,
         Dialogue(C, S, q, p, r, s, n, TRUE), q # <<>>, Head(q) \in Closing
  PROVE  Opening(Tail(q))
<1>1. CASE Cleared(q)
  <2>1. PICK x : q = <<x>>
    BY <1>1 DEF Cleared
  <2>2. Tail(q) = <<>>
    BY <2>1
  <2> QED BY <2>2 DEF Opening
<1>2. CASE ~Cleared(q)
  <2>1. PICK m : Asking(m, C, S, q, p, s, TRUE)
    BY <1>2 DEF Dialogue, Answering
  <2>2. q # <<m>>
    <3>1. q = <<m>> => Head(q) = m
      OBVIOUS
    <3> QED BY <1>2, <3>1 DEF Cleared
  <2>3. PICK x \in Closing : m.cs \in {1, 2} /\ q = <<x, m>>
    BY <2>1, <2>2 DEF Asking
  <2>4. Tail(q) = <<m>>
    BY <2>3
  <2> QED BY <2>3, <2>4 DEF Opening
<1> QED BY <1>1, <1>2

\* The frames to a server while the client is at a transfer in blocks.
LEMMA BlocksToServer ==
  ASSUME NEW c, NEW S, NEW q, NEW p, NEW r, NEW s, NEW n, NEW l, InBlocks(c, S, q, p, r, s, n, l),
         q # <<>>
  PROVE  /\ p = <<>> /\ (ForDownload(c, r, n) \/ ForUpload(c, r, n))
         /\ \/ BlockAsks(S, q, p, c, l)
            \/ \E x : /\ S = {x} /\ c.state = BLOCK_DOWNLOAD /\ x.state = BLOCK_DOWNLOAD
                      /\ x.index = c.index
                      /\ \/ Flows(c, x, q)
                         \/ \E m : /\ q = <<m>> /\ m.cs = 6 /\ m.sub = END /\ m.n = c.endfield
                                   /\ HasLast(c, x)
            \/ \E y : /\ S = {y} /\ c.state = BLOCK_UPLOAD /\ y.state = BLOCK_UPLOAD
                      /\ ServedTo(s, c, UPLOAD, y.data)
                      /\ \E m : /\ q = <<m>> /\ m.cs = 5
                                /\ \/ m.sub = START_UPLOAD /\ Fresh(y, c)
                                      /\ y.blksize = SDO_BLOCK_SIZE
                                   \/ Heard(y, c, m)
<1>1. \A f, w : Flows(c, f, w) => w # <<>>
  BY FirstOfFlow
<1>2. CASE BlockAsks(S, q, p, c, l)
  BY <1>2 DEF BlockAsks, InBlocks
<1>3. CASE c.state = BLOCK_DOWNLOAD /\ \E x : S = {x} /\ DownloadGoesOn(q, p, c, x)
  BY <1>3 DEF DownloadGoesOn, InBlocks
<1>4. CASE c.state = BLOCK_UPLOAD /\ \E y : S = {y} /\ UploadGoesOn(q, p, c, y, s)
  BY <1>4 DEF UploadGoesOn, InBlocks
<1> QED BY <1>2, <1>3, <1>4 DEF InBlocks, Silent, Refused, DownloadConfirmed

\* An abort, or the end of a block upload.
LEMMA ServerClosesOrdered ==
  ASSUME Ordered, NEW k \in Conns, ServerDispatches(k), req[k] # <<>>, Head(req[k]) \in Closing
  PROVE  Ordered'
<1> DEFINE C == ClientParties(k)
           S == ServerParties(k)
           q == req[k]
           m == Head(q)
           X(T, w) == Exchange(C, T, w, <<>>, Asked(k), served[k], calls[k], losses)
<1>1. Settled /\ Exchange(C, S, q, resp[k], Asked(k), served[k], calls[k], losses)
  BY ExchangeOf
<1>2. m = Abort \/ m = Block(5, END)
  BY DEF Closing
<1>3. ASSUME InSegments(C, S, q, resp[k], Asked(k), served[k], calls[k], losses)
      PROVE  Ahead(S, q) /\ resp[k] = <<>> /\ X({}, Tail(q))
  <2> DEFINE D == {Shown(c) : c \in C}
             N == {Shown(x) : x \in {}}
  <2>1. /\ Dialogue(D, {Shown(x) : x \in S}, q, resp[k], Asked(k), served[k], calls[k], TRUE)
        /\ Ahead(S, q) /\ \A c \in C : c.state \notin {BLOCK_DOWNLOAD, BLOCK_UPLOAD}
    BY <1>3 DEF InSegments
  <2>2. /\ resp[k] = <<>>
        /\ Dialogue(D, N, Tail(q), <<>>, Asked(k), served[k], calls[k], TRUE)
    BY <2>1, DialogueLosesRequest
  <2>3. Opening(Tail(q))
    <3> DEFINE M == {Shown(x) : x \in S}
               a == Asked(k)
    <3>1. Dialogue(D, M, q, resp[k], a, served[k], calls[k], TRUE)
      BY <2>1
    <3>2. q # <<>> /\ Head(q) \in Closing
      OBVIOUS
    <3> HIDE DEF D, N, C, S, X, q, m, M, a
    <3> QED BY <3>1, <3>2, BehindClosing
  <2>4. Tail(q) # <<>> => Head(Tail(q)) # Block(5, END)
    <3>1. ASSUME NEW f, f.cs \in {1, 2}, Tail(q) = <<f>> PROVE Head(Tail(q)) # Block(5, END)
      <4>1. Head(Tail(q)) = f
        <5> DEFINE z == Tail(q)
        <5>1. z = <<f>>
          BY <3>1
        <5> HIDE DEF z
        <5>2. Head(z) = f
          BY <5>1
        <5> QED BY <5>2 DEF z
      <4>2. f.cs # 5
        BY <3>1
      <4> HIDE DEF q, m
      <4> QED BY <4>2, <4>1, FramesDiffer
    <3> QED BY <2>3, <3>1 DEF Opening
  <2>5. InSegments(C, {}, Tail(q), <<>>, Asked(k), served[k], calls[k], losses)
    BY <2>1, <2>2, <2>4 DEF InSegments, Stale, Ahead
  <2> QED BY <2>1, <2>2, <2>5 DEF Exchange
<1>4. ASSUME NEW c, C = {c}, InBlocks(c, S, q, resp[k], Asked(k), served[k], calls[k], losses)
      PROVE  Ahead(S, q) /\ resp[k] = <<>> /\ X({}, Tail(q))
  <2>1. resp[k] = <<>> /\ (ForDownload(c, Asked(k), calls[k]) \/ ForUpload(c, Asked(k), calls[k]))
    BY <1>4, BlocksToServer
  <2>2. BlockAsks(S, q, resp[k], c, losses)
    <3>1. \A x, w : Flows(c, x, w) => Head(w) # Abort /\ Head(w).cs \in {0, 4}
      BY FirstOfFlow
    <3>2. \A x : ~Flows(c, x, q)
      BY <1>2, <3>1, FramesDiffer
    <3>3. \A f : q = <<f>> => f = m
      OBVIOUS
    <3>4. \A x, y, f : Heard(x, y, f) => f.sub = RESPONSE
      BY DEF Heard
    <3>5. m.cs \in {4, 5} /\ (m.cs = 5 => m.sub # RESPONSE /\ m.sub # START_UPLOAD)
      BY <1>2, FramesDiffer
    <3> HIDE DEF m
    <3> QED BY <1>4, <3>2, <3>3, <3>4, <3>5, BlocksToServer
  <2>3. PICK f : Begun(q, f) /\ BlockRequest(c, f)
    BY <2>2 DEF BlockAsks
  <2>4. f.cs \in {5, 6} /\ f.sub = INITIATE
    BY <2>3 DEF BlockRequest
  <2>5. Tail(q) = <<f>>
    <3>1. q # <<f>>
      <4>1. q = <<f>> => m = f
        OBVIOUS
      <4> QED BY <1>2, <2>4, <4>1, FramesDiffer
    <3>2. PICK x \in Closing : q = <<x, f>>
      BY <2>3, <3>1 DEF Begun
    <3> QED BY <3>2
  <2>6. Head(<<f>>) # Block(5, END)
    BY <2>4, FramesDiffer
  <2>7. BlockAsks({}, <<f>>, <<>>, c, losses)
    BY <2>3, <2>6 DEF BlockAsks, Begun, Stale, Ahead
  <2>8. InBlocks(c, {}, Tail(q), <<>>, Asked(k), served[k], calls[k], losses)
    BY <2>1, <2>5, <2>7 DEF InBlocks
  <2> QED BY <1>4, <2>1, <2>2, <2>8 DEF Exchange, BlockAsks
<1>5. Ahead(S, q) /\ resp[k] = <<>> /\ X({}, Tail(q))
  BY <1>1, <1>3, <1>4 DEF Exchange
<1>6. m = Abort \/ (m = Block(5, END) /\ \E s : S = {s} /\ s.state = BLOCK_UPLOAD)
  BY <1>2, <1>5 DEF Ahead
<1>7. /\ \E t : ServerDoes(k, t, <<>>)
      /\ ServerActs(k, {}, <<>>) /\ od' = od /\ served' = served
  BY <1>1, <1>6, ServerIsClosed
<1>8. PICK t : ServerDoes(k, t, <<>>)
  BY <1>7
<1>9. <<>> = resp[k] \o <<>> /\ Tail(q) = Tail(req[k]) /\ Keeps(k) /\ X({}, Tail(q))
  BY <1>5, <1>7 DEF Keeps
<1>10. Exchange(C, {}, Tail(q), <<>>, Asked(k), served'[k], calls[k], losses)
  BY <1>7, <1>9
<1> HIDE DEF X
<1> QED BY <1>7, <1>8, <1>9, <1>10, ServerOrdered

-----------------------------------------------------------------------------
(***************************************************************************)
(* A server while its client is at a transfer in blocks.                   *)
(***************************************************************************)
\* Client c is at the request of connection k, in blocks.
AtBlocks(k, c) ==
  /\ ClientParties(k) = {c}
  /\ ForDownload(c, Asked(k), calls[k]) \/ ForUpload(c, Asked(k), calls[k])

LEMMA ServerBlockStep ==
  ASSUME Ordered, NEW k \in Conns, ServerDispatches(k), NEW c, AtBlocks(k, c), resp[k] = <<>>,
         NEW t, NEW S, NEW frames, IsSequence(frames), ServerDoes(k, t, frames),
         ServerActs(k, S, frames), Keeps(k), \A x \in S : StepFits(x),
         InBlocks(c, S, Tail(req[k]), frames, Asked(k), served'[k], calls[k], losses)
  PROVE  Ordered'
<1>1. frames = resp[k] \o frames
  BY NothingBehind
<1>2. Exchange(ClientParties(k), S, Tail(req[k]), frames, Asked(k), served'[k], calls[k], losses)
  BY DEF Exchange, AtBlocks
<1> QED BY <1>1, <1>2, ServerOrdered

LEMMA OneIsSequence ==
  ASSUME NEW f
  PROVE  IsSequence(<<f>>) /\ IsSequence(<<>>)
<1>1. <<f>> \in Seq({f}) /\ <<>> \in Seq({f})
  OBVIOUS
<1> QED BY <1>1 DEF IsSequence

LEMMA ServerRefuses ==
  ASSUME Ordered, NEW k \in Conns, ServerDispatches(k), NEW c, AtBlocks(k, c), resp[k] = <<>>,
         Tail(req[k]) = <<>>, ServerFails(k, <<>>), ForgetsBlocks
  PROVE  Ordered'
<1>1. <<>> \o <<Abort>> = <<Abort>>
  OBVIOUS
<1>2. ServerActs(k, {}, <<Abort>>) /\ od' = od /\ served' = served
  BY <1>1, ExchangeOf, ServerGivesUpActs
<1>3. PICK t : ServerDoes(k, t, <<Abort>>)
  BY <1>1 DEF ServerFails
<1>4. Keeps(k)
  BY <1>2 DEF Keeps
<1>5. InBlocks(c, {}, Tail(req[k]), <<Abort>>, Asked(k), served'[k], calls[k], losses)
  BY DEF InBlocks, Refused, AtBlocks
<1> QED BY <1>2, <1>3, <1>4, <1>5, OneIsSequence, ServerBlockStep

\* The request for an upload in blocks.
LEMMA ServerUploadAskedOrdered ==
  ASSUME Ordered, NEW k \in Conns, ServerDispatches(k), ServerInitiateBlockUpload(k),
         NEW c, AtBlocks(k, c), resp[k] = <<>>, Tail(req[k]) = <<>>,
         Head(req[k]).cs = 5, BlockRequest(c, Head(req[k]))
  PROVE  Ordered'
<1> DEFINE t == transfers[server[k]]
           m == Head(req[k])
           i == getSDOfreeLine(t)
           v == od[server[k]][m.index]
           f == [Block(6, INITIATE) EXCEPT !.index = m.index, !.n = Size[v]]
           b == [NoBlock EXCEPT !.blksize = m.n, !.objsize = Size[v]]
           l(w) == [InitLine(SERVER, k, m.index, BLOCK_UPLOAD, w)
                    EXCEPT !.count = Size[v], !.data = v]
<1>1. /\ m.n = SDO_BLOCK_SIZE /\ m.index = c.index /\ c.state = BLOCK_UPLOAD
      /\ c.offset = 0 /\ c.seqno = 0 /\ c.data # Mixed /\ c.rxstep = RXSTEP_INIT
  BY DEF BlockRequest
<1>2. ForUpload(c, Asked(k), calls[k])
  BY <1>1, BlockStatesDiffer DEF AtBlocks, ForDownload
<1>3. f.cs = 6 /\ f.sub = INITIATE /\ f.n = Size[v]
  BY DEF Block, Frame
<1>4. DOMAIN b = BlockFields /\ b.blksize = SDO_BLOCK_SIZE /\ b.lastblockoffset = 0
      /\ b.rxstep = RXSTEP_INIT
  BY <1>1 DEF NoBlock, BlockFields
<1>5. Settled /\ BlocksKept /\ m.index \in Indexes /\ v \in Values /\ DOMAIN served = Conns
  <2>1. Settled /\ BlocksKept /\ Whole /\ Wires
    BY DEF Ordered, Settled
  <2>2. server[k] \in Nodes
    BY <2>1, ServerStatics
  <2> QED BY <1>1, <1>2, <2>1, <2>2 DEF Whole, ForUpload, Wires
<1> HIDE DEF f, b
<1>6. \/ ServerFails(k, <<>>) /\ ForgetsBlocks
      \/ /\ ~NoLineFor(t, k) /\ od' = od /\ ~(Size[v] > SDO_MAX_LENGTH_TRANSFER)
         /\ block' = [block EXCEPT ![server[k]][i] = b]
         /\ served' = [served EXCEPT ![k] = [op |-> UPLOAD, index |-> m.index, value |-> v]]
         /\ \E w \in Watchdogs : ServerDoes(k, [t EXCEPT ![i] = l(w)], <<f>>)
  BY DEF ServerInitiateBlockUpload, ServerBlockFails, f, b
<1>7. CASE ServerFails(k, <<>>) /\ ForgetsBlocks
  BY <1>7, ServerRefuses
<1>8. CASE /\ ~NoLineFor(t, k) /\ od' = od /\ ~(Size[v] > SDO_MAX_LENGTH_TRANSFER)
           /\ block' = [block EXCEPT ![server[k]][i] = b]
           /\ served' = [served EXCEPT ![k] = [op |-> UPLOAD, index |-> m.index, value |-> v]]
           /\ \E w \in Watchdogs : ServerDoes(k, [t EXCEPT ![i] = l(w)], <<f>>)
  <2>1. PICK w \in Watchdogs : ServerDoes(k, [t EXCEPT ![i] = l(w)], <<f>>)
    BY <1>8
  <2> DEFINE d == l(w)
             y == Party(d, b)
  <2>2. /\ DOMAIN d = Fields /\ d.CliServNbr = k /\ d.whoami = SERVER /\ d.state = BLOCK_UPLOAD
        /\ d.timer = w /\ d.count = Size[v] /\ d.offset = 0 /\ d.data = v
    BY DEF InitLine, ResetLine, Fields
  <2> HIDE DEF l, d
  <2>3. i \in Lines /\ server[k] \in Nodes /\ ServerDoes(k, [t EXCEPT ![i] = d], <<f>>)
    BY <1>5, <1>8, <2>1, FreeLineIsFree, ServerStatics DEF NoLineFor, d
  <2>4. BlocksKept' /\ BlocksStay(server[k], i) /\ block'[server[k]][i] = b
    <3> HIDE DEF i
    <3> QED BY <1>4, <1>5, <1>8, <2>3, BlockChanges
  <2>5. ServerActs(k, {y}, <<f>>)
    <3>1. d.state \in InProgress
      BY <2>2, BlockStatesDiffer
    <3> QED BY <1>5, <1>8, <2>2, <2>3, <2>4, <3>1, ServerBeginsActs
  <2>6. /\ y.state = BLOCK_UPLOAD /\ y.count = Size[y.data] /\ y.offset = 0 /\ y.data = v
        /\ y.blksize = SDO_BLOCK_SIZE /\ y.lastblockoffset = 0 /\ y.rxstep = RXSTEP_INIT
    BY <1>4, <2>2, PartyIsSeen
  <2> HIDE DEF y
  <2>7. Producer(y)
    <3>1. Size[v] \in Nat \ {0} /\ SDO_MAX_LENGTH_TRANSFER \in Nat
      BY <1>5, LineAssumption
    <3>2. Size[v] <= SDO_MAX_LENGTH_TRANSFER
      BY <1>8, <3>1
    <3> QED BY <1>5, <2>6, <3>1, <3>2 DEF Producer
  <2>8. ServedTo(served'[k], c, UPLOAD, y.data)
    BY <1>1, <1>5, <1>8, <2>6 DEF ServedTo
  <2>9. f.n = y.count
    BY <1>3, <2>6
  <2>10. UploadGoesOn(<<>>, <<f>>, c, y, served'[k])
    BY <1>1, <1>3, <2>6, <2>7, <2>8, <2>9 DEF UploadGoesOn
  <2>11. InBlocks(c, {y}, Tail(req[k]), <<f>>, Asked(k), served'[k], calls[k], losses)
    BY <1>1, <1>2, <2>10 DEF InBlocks
  <2>12. Keeps(k)
    BY <1>8 DEF Keeps
  <2>13. \A x \in {y} : StepFits(x)
    BY <2>6, BlockStatesDiffer DEF StepFits
  <2> QED BY <2>3, <2>5, <2>11, <2>12, <2>13, OneIsSequence, ServerBlockStep
<1> QED BY <1>6, <1>7, <1>8

\* The request for a download in blocks, and a server that has no line for it.
LEMMA ServerDownloadAskedOrdered ==
  ASSUME Ordered, NEW k \in Conns, ServerDispatches(k), ServerInitiateBlockDownload(k),
         NEW c, AtBlocks(k, c), resp[k] = <<>>, Tail(req[k]) = <<>>,
         Head(req[k]).cs = 6, BlockRequest(c, Head(req[k])), ServerLine(k) = NoLine
  PROVE  Ordered'
<1> DEFINE t == transfers[server[k]]
           m == Head(req[k])
           i == getSDOfreeLine(t)
           f == [Block(5, INITIATE) EXCEPT !.index = m.index, !.n = SDO_BLOCK_SIZE]
           b == [NoBlock EXCEPT !.rxstep = RXSTEP_STARTED, !.objsize = m.n]
           l(w) == InitLine(SERVER, k, m.index, BLOCK_DOWNLOAD, w)
           r(w) == [line |-> l(w), block |-> b, frames |-> <<f>>]
<1>1. /\ c.state = BLOCK_DOWNLOAD /\ Producer(c) /\ c.offset = 0 /\ m.index = c.index
      /\ m.n = c.count
  BY DEF BlockRequest
<1>2. ForDownload(c, Asked(k), calls[k])
  BY <1>1, BlockStatesDiffer DEF AtBlocks, ForUpload
<1>3. f.cs = 5 /\ f.sub = INITIATE /\ f.n = SDO_BLOCK_SIZE
  BY DEF Block, Frame
<1>4. /\ DOMAIN b = BlockFields /\ b.rxstep = RXSTEP_STARTED /\ b.seqno = 0
      /\ b.objsize = c.count
  BY <1>1 DEF NoBlock, BlockFields
<1>5. NoLineFor(t, k) <=> i = NoLine
  BY DEF NoLineFor, ServerLine
<1>6. Settled /\ BlocksKept
  BY DEF Ordered, Settled
<1> HIDE DEF f, b
<1>7. \/ ServerFails(k, <<>>) /\ ForgetsBlocks
      \/ i # NoLine /\ \E w \in Watchdogs : ServerGoesOn(k, i, r(w))
  BY DEF ServerInitiateBlockDownload, ServerBlockFails, f, b
<1>8. CASE ServerFails(k, <<>>) /\ ForgetsBlocks
  BY <1>8, ServerRefuses
<1>9. CASE i # NoLine /\ \E w \in Watchdogs : ServerGoesOn(k, i, r(w))
  <2>1. PICK w \in Watchdogs : ServerGoesOn(k, i, r(w))
    BY <1>9
  <2> DEFINE d == l(w)
             x == Party(d, b)
  <2>2. /\ ServerDoes(k, [t EXCEPT ![i] = d], <<f>>) /\ od' = od /\ served' = served
        /\ block' = [block EXCEPT ![server[k]][i] = b]
    BY <2>1 DEF ServerGoesOn
  <2>3. /\ DOMAIN d = Fields /\ d.CliServNbr = k /\ d.whoami = SERVER /\ d.state = BLOCK_DOWNLOAD
        /\ d.timer = w /\ d.offset = 0 /\ d.count = 0 /\ d.data = Nothing /\ d.index = c.index
    BY <1>1 DEF InitLine, ResetLine, Fields
  <2> HIDE DEF l, d
  <2>4. i \in Lines /\ server[k] \in Nodes /\ ~NoLineFor(t, k)
    BY <1>5, <1>6, <1>9, FreeLineIsFree, ServerStatics
  <2>5. BlocksKept' /\ BlocksStay(server[k], i) /\ block'[server[k]][i] = b
    <3> HIDE DEF i
    <3> QED BY <1>4, <1>6, <2>2, <2>4, BlockChanges
  <2>6. ServerActs(k, {x}, <<f>>)
    <3>1. d.state \in InProgress
      BY <2>3, BlockStatesDiffer
    <3> QED BY <1>6, <2>2, <2>3, <2>4, <2>5, <3>1, ServerBeginsActs
  <2>7. /\ x.state = BLOCK_DOWNLOAD /\ x.offset = 0 /\ x.rxstep = RXSTEP_STARTED /\ x.seqno = 0
        /\ x.count = 0 /\ x.data = Nothing /\ x.objsize = c.count /\ x.index = c.index
    BY <1>4, <2>3, PartyIsSeen
  <2> HIDE DEF x
  <2>8. Fresh(c, x)
    BY <1>1, <2>7, LineAssumption DEF Fresh, Consumer, Sound
  <2>9. DownloadGoesOn(<<>>, <<f>>, c, x)
    BY <1>3, <2>7, <2>8 DEF DownloadGoesOn
  <2>10. InBlocks(c, {x}, Tail(req[k]), <<f>>, Asked(k), served'[k], calls[k], losses)
    BY <1>1, <1>2, <2>9 DEF InBlocks
  <2>11. Keeps(k) /\ \A z \in {x} : StepFits(z)
    BY <2>2, <2>7, BlockStatesDiffer DEF Keeps, StepFits
  <2> QED BY <2>2, <2>6, <2>10, <2>11, OneIsSequence, ServerBlockStep
<1> QED BY <1>7, <1>8, <1>9

LEMMA SameGoesOn ==
  ASSUME NEW l, DOMAIN l = Fields, l.state \in InProgress, NEW m, Same(RestartTimer(l), m)
  PROVE  GoesOn(l, m)
BY TimerIsNotSeen DEF GoesOn, Same, Owned

\* The server's line on use goes on.
LEMMA ServerGoesOnOrdered ==
  ASSUME Ordered, NEW k \in Conns, ServerDispatches(k), NEW c, AtBlocks(k, c), resp[k] = <<>>,
         ServerLine(k) # NoLine, NEW s, ServerGoesOn(k, ServerLine(k), s),
         GoesOn(transfers[server[k]][ServerLine(k)], s.line), DOMAIN s.block = BlockFields,
         IsSequence(s.frames), StepFits(Party(s.line, s.block)),
         InBlocks(c, {Party(s.line, s.block)}, Tail(req[k]), s.frames, Asked(k), served[k],
                  calls[k], losses)
  PROVE  Ordered'
<1> DEFINE i == ServerLine(k)
           t == transfers[server[k]]
           x == Party(s.line, s.block)
<1>1. Settled /\ BlocksKept
  BY DEF Ordered, Settled
<1>2. i \in Lines /\ server[k] \in Nodes
  BY <1>1, ServerSees, ServerStatics
<1>3. /\ ServerDoes(k, [t EXCEPT ![i] = s.line], s.frames) /\ od' = od /\ served' = served
      /\ block' = [block EXCEPT ![server[k]][i] = s.block]
  BY DEF ServerGoesOn
<1> HIDE DEF i
<1>4. BlocksKept' /\ BlocksStay(server[k], i) /\ block'[server[k]][i] = s.block
  BY <1>1, <1>2, <1>3, BlockChanges
<1>5. ServerActs(k, {Party(s.line, block'[server[k]][i])}, s.frames)
  BY <1>1, <1>3, <1>4, ServerContinuesActs DEF i
<1>6. ServerActs(k, {x}, s.frames)
  BY <1>4, <1>5
<1>7. Keeps(k) /\ \A z \in {x} : StepFits(z)
  BY <1>3 DEF Keeps
<1>8. InBlocks(c, {x}, Tail(req[k]), s.frames, Asked(k), served'[k], calls[k], losses)
  BY <1>3
<1> HIDE DEF x
<1> QED BY <1>3, <1>6, <1>7, <1>8, ServerBlockStep

\* ServerBlockDownload, case by case, when nothing is refused.
LEMMA ServerDownloadSteps ==
  ASSUME ~MayRefuse, NEW k \in Conns, ServerBlockDownload(k)
  PROVE  LET m == Head(req[k])
             t == transfers[server[k]]
             i == ServerLine(k)
             l == RestartTimer(t[i])
             b == block[server[k]][i]
         IN  /\ b.rxstep = RXSTEP_INIT =>
                  ServerGoesOn(k, i, [line |-> t[i], block |-> b, frames |-> <<>>])
             /\ b.rxstep = RXSTEP_STARTED =>
                  IF SegmentOverflows(l, b, m) THEN ServerBlockFails(k)
                  ELSE ServerGoesOn(k, i, Received(l, b, m))
             /\ b.rxstep = RXSTEP_END =>
                  \/ ServerFails(k, <<>>) /\ ForgetsBlocks
                  \/ /\ ServerDoes(k, resetSDOline(t, i), <<Block(5, END)>>) /\ ForgetsBlocks
                     /\ Stores(k, l.index, Assembled(Completed(l, b, m)))
<1> DEFINE m == Head(req[k])
           t == transfers[server[k]]
           i == ServerLine(k)
           l == RestartTimer(t[i])
           b == block[server[k]][i]
           response == Block(5, END)
           stays == ServerGoesOn(k, i, [line |-> t[i], block |-> b, frames |-> <<>>])
           goes == IF SegmentOverflows(l, b, m) THEN ServerBlockFails(k)
                   ELSE ServerGoesOn(k, i, Received(l, b, m))
           ends == IF LowBit(m) # END \/ WrongSize(l, b, m) THEN ServerBlockFails(k)
                   ELSE \/ /\ ServerDoes(k, resetSDOline(t, i), <<response>>)
                           /\ Stores(k, l.index, Assembled(Completed(l, b, m)))
                           /\ ForgetsBlocks
                        \/ /\ TRUE \in Refusals
                           /\ ServerFails(k, <<response>>)
                           /\ ForgetsBlocks
           x == b.rxstep
<1>1. (x = RXSTEP_INIT /\ stays) \/ (x = RXSTEP_STARTED /\ goes) \/ (x = RXSTEP_END /\ ends)
  BY DEF ServerBlockDownload
<1>2. /\ RXSTEP_INIT # RXSTEP_STARTED /\ RXSTEP_INIT # RXSTEP_END
      /\ RXSTEP_STARTED # RXSTEP_END
  BY DEF RXSTEP_INIT, RXSTEP_STARTED, RXSTEP_END
<1> HIDE DEF x, stays, goes, ends
<1>3. (x = RXSTEP_INIT => stays) /\ (x = RXSTEP_STARTED => goes) /\ (x = RXSTEP_END => ends)
  BY <1>1, <1>2
<1>4. ends => \/ ServerFails(k, <<>>) /\ ForgetsBlocks
              \/ /\ ServerDoes(k, resetSDOline(t, i), <<response>>) /\ ForgetsBlocks
                 /\ Stores(k, l.index, Assembled(Completed(l, b, m)))
  BY NothingRefused DEF ends, ServerBlockFails
<1> QED BY <1>3, <1>4 DEF x, goes, stays

\* The line of a plain transfer stands in the way of a download in blocks.
LEMMA ServerIgnores ==
  ASSUME Ordered, ~MayRefuse, NEW k \in Conns, ServerDispatches(k), ServerBlockDownload(k),
         NEW c, AtBlocks(k, c), resp[k] = <<>>, Tail(req[k]) = <<>>, ServerLine(k) # NoLine,
         c.state = BLOCK_DOWNLOAD,
         \A x \in ServerParties(k) : StepFits(x) /\ x.state # BLOCK_DOWNLOAD
  PROVE  Ordered'
<1> DEFINE i == ServerLine(k)
           e == transfers[server[k]][i]
           b == block[server[k]][i]
           r == [line |-> e, block |-> b, frames |-> <<>>]
           x == Party(e, b)
<1>1. Settled
  BY ExchangeOf
<1>2. ServerParties(k) = {x} /\ DOMAIN e = Fields /\ DOMAIN b = BlockFields /\ i \in Lines
  BY <1>1, ServerSees
<1>3. x.rxstep = RXSTEP_INIT /\ x.state # BLOCK_DOWNLOAD
  BY <1>2 DEF StepFits
<1>4. b.rxstep = RXSTEP_INIT
  BY <1>3, PartyIsSeen
<1>5. ServerGoesOn(k, i, r)
  BY <1>4, ServerDownloadSteps
<1>6. GoesOn(e, e)
  <2>1. e.state \in InProgress
    BY <1>2, PartyIsSeen DEF StepFits
  <2>2. Owned(e, e)
    BY <1>2 DEF Owned
  <2> QED BY <2>1, <2>2 DEF GoesOn
<1>7. r.line = e /\ r.block = b /\ r.frames = <<>>
  OBVIOUS
<1> HIDE DEF r, e, b
<1>8. Party(r.line, r.block) = x
  BY <1>7
<1> HIDE DEF x
<1>9. Silent({x}, <<>>, <<>>, c, losses)
  BY <1>3, BlockStatesDiffer DEF Silent
<1>10. InBlocks(c, {x}, Tail(req[k]), r.frames, Asked(k), served[k], calls[k], losses)
  BY <1>7, <1>9 DEF InBlocks, AtBlocks
<1> QED BY <1>2, <1>3, <1>5, <1>6, <1>7, <1>8, <1>10, OneIsSequence, ServerGoesOnOrdered DEF i, e

\* The request for a transfer in blocks.
LEMMA ServerBlockAskedOrdered ==
  ASSUME Ordered, ~MayRefuse, NoRequestIsMisread, NEW k \in Conns, ServerDispatches(k),
         NEW c, AtBlocks(k, c), req[k] # <<>>, Head(req[k]) \notin Closing,
         BlockAsks(ServerParties(k), req[k], resp[k], c, losses)
  PROVE  Ordered'
<1> DEFINE q == req[k]
           m == Head(q)
           S == ServerParties(k)
<1>1. Settled /\ \A x \in S : StepFits(x)
  BY ExchangeOf DEF Exchange
<1>2. resp[k] = <<>> /\ \E f : Begun(q, f) /\ BlockRequest(c, f)
  BY DEF BlockAsks
<1>3. BlockRequest(c, m) /\ Tail(q) = <<>>
  <2>1. PICK f : Begun(q, f) /\ BlockRequest(c, f)
    BY <1>2
  <2>2. \A x \in Closing : q = <<x, f>> => m = x
    OBVIOUS
  <2>3. q = <<f>>
    BY <2>1, <2>2 DEF Begun
  <2> QED BY <2>1, <2>3, OneFrame
<1>4. m.cs \in {5, 6} /\ m.sub = INITIATE /\ (m.cs = 6 => c.state = BLOCK_DOWNLOAD)
  BY <1>3 DEF BlockRequest
<1>5. ~ServerReadsData(k)
  BY <1>4 DEF NoRequestIsMisread, Initiates
<1>6. m # Abort
  BY <1>4, FramesDiffer
<1>7. \A x \in S : x.state # BLOCK_DOWNLOAD
  <2> SUFFICES ASSUME NEW x \in S, x.state = BLOCK_DOWNLOAD PROVE FALSE
    OBVIOUS
  <2>1. ServerLine(k) # NoLine
    BY <1>1, ServerSees
  <2>2. S = {x}
    BY <1>1, <2>1, ServerSees
  <2>3. Started(transfers[server[k]], k, SERVER, BLOCK_DOWNLOAD)
    BY <1>1, <2>2, ServerIsAt
  <2> QED BY <1>5, <1>6, <2>3 DEF ServerReadsData
<1> HIDE DEF m
<1>8. \/ m.cs = 5 /\ ServerInitiateBlockUpload(k)
      \/ m.cs = 6 /\ ServerLine(k) = NoLine /\ ServerInitiateBlockDownload(k)
      \/ m.cs = 6 /\ ServerLine(k) # NoLine /\ ServerBlockDownload(k)
  BY <1>4, <1>5, ServerHandlers DEF m
<1>9. CASE m.cs = 5 /\ ServerInitiateBlockUpload(k)
  BY <1>2, <1>3, <1>9, ServerUploadAskedOrdered DEF m
<1>10. CASE m.cs = 6 /\ ServerLine(k) = NoLine /\ ServerInitiateBlockDownload(k)
  BY <1>2, <1>3, <1>10, ServerDownloadAskedOrdered DEF m
<1>11. CASE m.cs = 6 /\ ServerLine(k) # NoLine /\ ServerBlockDownload(k)
  BY <1>1, <1>2, <1>3, <1>4, <1>7, <1>11, ServerIgnores
<1> QED BY <1>8, <1>9, <1>10, <1>11

\* A segment of a download in blocks.
LEMMA ServerReceivesOrdered ==
  ASSUME Ordered, ~MayRefuse, NEW k \in Conns, ServerDispatches(k), ServerBlockDownload(k),
         NEW c, AtBlocks(k, c), c.state = BLOCK_DOWNLOAD, resp[k] = <<>>,
         NEW x, ServerParties(k) = {x}, x.state = BLOCK_DOWNLOAD, x.index = c.index,
         Flows(c, x, req[k])
  PROVE  Ordered'
<1> DEFINE q == req[k]
           m == Head(q)
           i == ServerLine(k)
           e == transfers[server[k]][i]
           l == RestartTimer(e)
           b == block[server[k]][i]
           r == Received(l, b, m)
           y == Party(r.line, r.block)
<1>1. i # NoLine /\ i \in Lines /\ DOMAIN e = Fields /\ DOMAIN b = BlockFields /\ x = Party(e, b)
  BY ExchangeOf, ServerSees
<1>2. /\ e.state = BLOCK_DOWNLOAD /\ e.state \in InProgress
      /\ b.rxstep = RXSTEP_STARTED
  BY <1>1, BlockStatesDiffer, PartyIsSeen DEF Flows
<1>3. Party(l, b) = x /\ DOMAIN l = Fields /\ l.state = BLOCK_DOWNLOAD /\ l.index = c.index
  <2>1. Party(l, b) = x /\ DOMAIN l = Fields /\ l.state = BLOCK_DOWNLOAD
    BY <1>1, <1>2, TimerIsNotSeen
  <2> HIDE DEF l, b
  <2> QED BY <2>1, PartyIsSeen
<1>4. /\ ~SegmentOverflows(l, b, m) /\ Same(l, r.line) /\ DOMAIN r.block = BlockFields
      /\ r.line.index = l.index
      /\ \/ r.frames = <<>> /\ Flows(c, y, Tail(q))
         \/ Tail(q) = <<>> /\ \E a : r.frames = <<a>> /\ a.cs = 5 /\ Heard(c, y, a)
  <2>1. DOMAIN b = BlockFields /\ DOMAIN l = Fields /\ Flows(c, Party(l, b), q)
    BY <1>1, <1>3
  <2> HIDE DEF l, b, q
  <2>2. LET g == Received(l, b, Head(q))
            z == Party(g.line, g.block)
        IN  /\ ~SegmentOverflows(l, b, Head(q))
            /\ Same(l, g.line) /\ DOMAIN g.block = BlockFields
            /\ g.line.index = l.index
            /\ \/ g.frames = <<>> /\ Flows(c, z, Tail(q))
               \/ Tail(q) = <<>> /\ \E a : g.frames = <<a>> /\ a.cs = 5 /\ Heard(c, z, a)
    BY <2>1, FlowReceived
  <2> QED BY <2>2
<1>5. ServerGoesOn(k, i, r)
  BY <1>2, <1>4, ServerDownloadSteps
<1>6. GoesOn(e, r.line)
  BY <1>1, <1>2, <1>4, SameGoesOn
<1>7. y.state = BLOCK_DOWNLOAD /\ y.index = c.index
  BY <1>3, <1>4, PartyIsSeen DEF Same
<1> HIDE DEF r, y, l, b, e, i, m
<1>8. IsSequence(r.frames) /\ DownloadGoesOn(Tail(q), r.frames, c, y)
  <2>1. CASE r.frames = <<>> /\ Flows(c, y, Tail(q))
    BY <1>7, <2>1, OneIsSequence DEF DownloadGoesOn
  <2>2. CASE Tail(q) = <<>> /\ \E a : r.frames = <<a>> /\ a.cs = 5 /\ Heard(c, y, a)
    BY <1>7, <2>2, OneIsSequence DEF DownloadGoesOn
  <2> QED BY <1>4, <2>1, <2>2
<1>9. InBlocks(c, {y}, Tail(req[k]), r.frames, Asked(k), served[k], calls[k], losses)
  BY <1>8 DEF InBlocks, AtBlocks
<1>10. StepFits(y)
  BY <1>7, BlockStatesDiffer DEF StepFits
<1> QED BY <1>1, <1>4, <1>5, <1>6, <1>8, <1>9, <1>10, ServerGoesOnOrdered DEF i, e, y

\* The end of a download in blocks.
LEMMA ServerEndsOrdered ==
  ASSUME Ordered, ~MayRefuse, NEW k \in Conns, ServerDispatches(k), ServerBlockDownload(k),
         NEW c, AtBlocks(k, c), c.state = BLOCK_DOWNLOAD, resp[k] = <<>>,
         NEW x, ServerParties(k) = {x}, x.state = BLOCK_DOWNLOAD, x.index = c.index,
         NEW m, req[k] = <<m>>, m.n = c.endfield, HasLast(c, x)
  PROVE  Ordered'
<1> DEFINE i == ServerLine(k)
           t == transfers[server[k]]
           e == t[i]
           l == RestartTimer(e)
           b == block[server[k]][i]
           f == Block(5, END)
<1>1. i # NoLine /\ i \in Lines /\ DOMAIN e = Fields /\ DOMAIN b = BlockFields /\ x = Party(e, b)
  BY ExchangeOf, ServerSees
<1>2. e.state = BLOCK_DOWNLOAD /\ b.rxstep = RXSTEP_END
  BY <1>1, PartyIsSeen DEF HasLast
<1>3. Party(l, b) = x /\ DOMAIN l = Fields /\ l.index = c.index
  <2>1. Party(l, b) = x /\ DOMAIN l = Fields
    BY <1>1, <1>2, TimerIsNotSeen
  <2> HIDE DEF l, b
  <2> QED BY <2>1, PartyIsSeen
<1>4. Head(req[k]) = m /\ Tail(req[k]) = <<>>
  BY OneFrame
<1>5. Assembled(Completed(l, b, m)) = c.data
  <2> HIDE DEF l, b
  <2> QED BY <1>3, LastIsWhole
<1>6. \/ ServerFails(k, <<>>) /\ ForgetsBlocks
      \/ /\ ServerDoes(k, resetSDOline(t, i), <<f>>) /\ ForgetsBlocks
         /\ Stores(k, c.index, c.data)
  BY <1>2, <1>3, <1>4, <1>5, ServerDownloadSteps
<1> HIDE DEF l, b, e, f
<1>7. CASE ServerFails(k, <<>>) /\ ForgetsBlocks
  BY <1>4, <1>7, ServerRefuses
<1>8. CASE /\ ServerDoes(k, resetSDOline(t, i), <<f>>) /\ ForgetsBlocks
           /\ Stores(k, c.index, c.data)
  <2>1. ServerActs(k, {}, <<f>>)
    BY <1>1, <1>8, ExchangeOf, ServerResetsActs
  <2>2. Producer(c) /\ c.data \in Values /\ c.offset = c.count
    BY DEF HasLast, Producer
  <2>3. Keeps(k)
    BY <1>8, <2>2 DEF Keeps
  <2>4. ServedTo(served'[k], c, DOWNLOAD, c.data)
    <3>1. DOMAIN served = Conns
      BY DEF Ordered, Wires
    <3> QED BY <1>8, <3>1 DEF Stores, ServedTo
  <2>5. f.cs = 5 /\ f.sub = END
    BY FramesDiffer DEF f
  <2>6. DownloadConfirmed({}, <<>>, <<f>>, c, served'[k])
    BY <2>2, <2>4, <2>5 DEF DownloadConfirmed
  <2>7. InBlocks(c, {}, Tail(req[k]), <<f>>, Asked(k), served'[k], calls[k], losses)
    BY <1>4, <2>6 DEF InBlocks, AtBlocks
  <2> DEFINE u == resetSDOline(t, i)
             w == <<f>>
             N == {}
  <2>8. /\ ServerDoes(k, u, w) /\ ServerActs(k, N, w) /\ IsSequence(w)
        /\ InBlocks(c, N, Tail(req[k]), w, Asked(k), served'[k], calls[k], losses)
        /\ \A z \in N : StepFits(z)
    BY <1>8, <2>1, <2>7, OneIsSequence
  <2> HIDE DEF u, w, N
  <2> QED BY <2>3, <2>8, ServerBlockStep
<1> QED BY <1>6, <1>7, <1>8

\* A frame of an upload in blocks.
LEMMA ServerSendsOrdered ==
  ASSUME Ordered, NEW k \in Conns, ServerDispatches(k), ServerBlockUpload(k),
         NEW c, AtBlocks(k, c), c.state = BLOCK_UPLOAD, resp[k] = <<>>,
         NEW y, ServerParties(k) = {y}, y.state = BLOCK_UPLOAD,
         ServedTo(served[k], c, UPLOAD, y.data), NEW m, req[k] = <<m>>,
         \/ m.sub = START_UPLOAD /\ Fresh(y, c) /\ y.blksize = SDO_BLOCK_SIZE
         \/ Heard(y, c, m)
  PROVE  Ordered'
<1> DEFINE i == ServerLine(k)
           e == transfers[server[k]][i]
           l == RestartTimer(e)
           b == block[server[k]][i]
<1>1. i # NoLine /\ i \in Lines /\ DOMAIN e = Fields /\ DOMAIN b = BlockFields /\ y = Party(e, b)
  BY ExchangeOf, ServerSees
<1>2. /\ e.state = BLOCK_UPLOAD /\ e.state \in InProgress /\ b.blksize = y.blksize
      /\ b.rxstep = RXSTEP_INIT /\ Started(transfers[server[k]], k, SERVER, BLOCK_UPLOAD)
  <2>1. Started(transfers[server[k]], k, SERVER, BLOCK_UPLOAD)
    BY ExchangeOf, ServerIsAt
  <2>2. StepFits(y)
    BY ExchangeOf DEF Exchange
  <2> HIDE DEF e, b
  <2>3. e.state = BLOCK_UPLOAD /\ b.blksize = y.blksize /\ b.rxstep = y.rxstep
    BY <1>1, PartyIsSeen
  <2> QED BY <2>1, <2>2, <2>3, BlockStatesDiffer DEF StepFits
<1>3. /\ Party(l, b) = y /\ DOMAIN l = Fields /\ l.state = BLOCK_UPLOAD
      /\ l.data = y.data /\ l.offset = y.offset /\ l.count = y.count
  <2>1. Party(l, b) = y /\ DOMAIN l = Fields /\ l.state = BLOCK_UPLOAD
    BY <1>1, <1>2, TimerIsNotSeen
  <2> HIDE DEF l, b
  <2> QED BY <2>1, PartyIsSeen
<1>4. Head(req[k]) = m /\ Tail(req[k]) = <<>>
  BY OneFrame
<1>5. ASSUME NEW r, ServerGoesOn(k, i, r), Same(l, r.line), DOMAIN r.block = BlockFields,
             r.line.data = l.data, r.block.rxstep = b.rxstep,
             \/ Flows(Party(r.line, r.block), c, r.frames)
             \/ \E f : r.frames = <<f>> /\ SaysEnd(Party(r.line, r.block), c, f)
      PROVE  Ordered'
  <2> DEFINE z == Party(r.line, r.block)
  <2>1. GoesOn(e, r.line)
    BY <1>1, <1>2, <1>5, SameGoesOn
  <2>2. z.state = BLOCK_UPLOAD /\ z.data = y.data /\ z.rxstep = RXSTEP_INIT
    BY <1>2, <1>3, <1>5, PartyIsSeen DEF Same
  <2> HIDE DEF z, l, b, e, i
  <2>3. Flows(z, c, r.frames) \/ \E f : r.frames = <<f>> /\ SaysEnd(z, c, f)
    BY <1>5 DEF z
  <2>4. IsSequence(r.frames)
    BY <2>3, OneIsSequence DEF Flows
  <2>5. UploadGoesOn(<<>>, r.frames, c, z, served[k])
    BY <2>2, <2>3 DEF UploadGoesOn, SaysEnd
  <2>6. InBlocks(c, {z}, Tail(req[k]), r.frames, Asked(k), served[k], calls[k], losses)
    BY <1>4, <2>5 DEF InBlocks, AtBlocks
  <2>7. StepFits(z)
    BY <2>2, BlockStatesDiffer DEF StepFits
  <2> QED BY <1>1, <1>5, <2>1, <2>4, <2>6, <2>7, ServerGoesOnOrdered DEF z, i, e
<1>6. CASE m.sub = START_UPLOAD /\ Fresh(y, c) /\ y.blksize = SDO_BLOCK_SIZE
  <2> DEFINE r == AfterBlock(l, b, b.blksize)
  <2>1. ServerGoesOn(k, i, r)
    BY <1>2, <1>4, <1>6, ServerUploadCases
  <2>2. b.blksize = SDO_BLOCK_SIZE
    BY <1>2, <1>6
  <2>3. Holds(l) /\ l.offset # l.count
    <3>1. Producer(y) /\ y.offset = 0
      BY <1>6 DEF Fresh
    <3> HIDE DEF l
    <3>2. Holds(l)
      BY <1>3, <3>1 DEF Producer, Holds
    <3> QED BY <1>3, <3>1, <3>2, HoldsSomething
  <2>4. Consumer(y, c) /\ c.offset = l.offset /\ c.seqno = 0 /\ c.rxstep = RXSTEP_STARTED
    BY <1>3, <1>6 DEF Fresh
  <2> HIDE DEF r, l, b
  <2>5. /\ Flows(Party(r.line, r.block), c, r.frames)
        /\ r.line = [l EXCEPT !.offset = r.line.offset]
        /\ DOMAIN r.block = BlockFields /\ r.block.rxstep = b.rxstep
    BY <1>1, <1>3, <2>2, <2>3, <2>4, BlockFlows DEF r, b
  <2>6. Same(l, r.line)
    BY <1>3, <2>5, SameButOffset
  <2>7. r.line.data = l.data
    <3>1. \A w : [l EXCEPT !.offset = w].data = l.data
      BY <1>3 DEF Fields
    <3> QED BY <2>5, <3>1
  <2> QED BY <1>5, <2>1, <2>5, <2>6, <2>7
<1>7. CASE Heard(y, c, m)
  <2> DEFINE r == Acknowledged(l, b, m, Block(6, END))
  <2>1. m.sub = RESPONSE
    BY <1>7 DEF Heard
  <2>2. /\ ~BadAckSeq(l, b, m) /\ Same(l, r.line) /\ DOMAIN r.block = BlockFields
        /\ r.line.data = l.data /\ r.block.rxstep = b.rxstep
        /\ \/ Flows(Party(r.line, r.block), c, r.frames)
           \/ \E f : r.frames = <<f>> /\ SaysEnd(Party(r.line, r.block), c, f)
    <3> HIDE DEF l, b
    <3> QED BY <1>1, <1>3, <1>7, HeardGoesOn DEF b
  <2>3. ServerGoesOn(k, i, r)
    BY <1>2, <1>4, <2>1, <2>2, ServerUploadCases
  <2> HIDE DEF r, l, i, b
  <2> QED BY <1>5, <2>2, <2>3
<1> QED BY <1>6, <1>7

\* A server whose client is at a transfer in blocks.
LEMMA ServerBlocksOrdered ==
  ASSUME Ordered, ~MayRefuse, NoRequestIsMisread, NEW k \in Conns, ServerDispatches(k),
         NEW c, ClientParties(k) = {c},
         InBlocks(c, ServerParties(k), req[k], resp[k], Asked(k), served[k], calls[k], losses),
         req[k] # <<>>, Head(req[k]) \notin Closing
  PROVE  Ordered'
<1> DEFINE q == req[k]
           m == Head(q)
           S == ServerParties(k)
<1>1. Settled
  BY ExchangeOf
<1>2. AtBlocks(k, c) /\ resp[k] = <<>>
  BY BlocksToServer DEF AtBlocks
<1>3. CASE BlockAsks(S, q, resp[k], c, losses)
  BY <1>2, <1>3, ServerBlockAskedOrdered
<1>4. ASSUME NEW x, S = {x}, c.state = BLOCK_DOWNLOAD, x.state = BLOCK_DOWNLOAD,
             x.index = c.index,
             \/ Flows(c, x, q)
             \/ \E f : q = <<f>> /\ f.cs = 6 /\ f.sub = END /\ f.n = c.endfield /\ HasLast(c, x)
      PROVE  Ordered'
  <2>1. m # Abort
    BY FramesDiffer DEF Closing
  <2>2. Started(transfers[server[k]], k, SERVER, BLOCK_DOWNLOAD) /\ ServerLine(k) # NoLine
    BY <1>1, <1>4, ServerIsAt, ServerSees
  <2>3. ServerReadsData(k)
    BY <2>1, <2>2 DEF ServerReadsData
  <2>4. ServerBlockDownload(k)
    BY <2>2, <2>3, ServerHandlers
  <2>5. CASE Flows(c, x, q)
    BY <1>2, <1>4, <2>4, <2>5, ServerReceivesOrdered
  <2>6. ASSUME NEW f, q = <<f>>, f.n = c.endfield, HasLast(c, x) PROVE Ordered'
    BY <1>2, <1>4, <2>4, <2>6, ServerEndsOrdered
  <2> QED BY <1>4, <2>5, <2>6
<1>5. ASSUME NEW y, S = {y}, c.state = BLOCK_UPLOAD, y.state = BLOCK_UPLOAD,
             ServedTo(served[k], c, UPLOAD, y.data), NEW f, q = <<f>>, f.cs = 5,
             \/ f.sub = START_UPLOAD /\ Fresh(y, c) /\ y.blksize = SDO_BLOCK_SIZE
             \/ Heard(y, c, f)
      PROVE  Ordered'
  <2>1. m = f /\ f.sub # INITIATE
    <3>1. f.sub \in {START_UPLOAD, RESPONSE}
      BY <1>5 DEF Heard
    <3> QED BY <1>5, <3>1, FramesDiffer, OneFrame
  <2>2. ~ServerReadsData(k)
    <3>1. ~\E x : S = {x} /\ x.state = BLOCK_DOWNLOAD
      BY <1>5, BlockStatesDiffer
    <3> QED BY <1>1, <3>1, ServerIsAt DEF ServerReadsData
  <2>3. ServerBlockUpload(k)
    BY <1>5, <2>1, <2>2, ServerHandlers
  <2> QED BY <1>2, <1>5, <2>3, ServerSendsOrdered
<1> QED BY <1>3, <1>4, <1>5, BlocksToServer

\* Any step of a server.
LEMMA ServerStepOrdered ==
  ASSUME Ordered, ~MayRefuse, NoRequestIsMisread, NEW k \in Conns, ServerDispatches(k)
  PROVE  Ordered'
<1>1. req[k] # <<>>
  BY DEF ServerDispatches, ServerHandles, ServerInitiateDownload, ServerDownloadSegment,
         ServerInitiateUpload, ServerUploadSegment, ServerAbort, ServerGets,
         ServerInitiateBlockUpload, ServerBlockUpload, ServerInitiateBlockDownload,
         ServerBlockDownload, ServerGetsBlock
<1>2. CASE Head(req[k]) \in Closing
  BY <1>1, <1>2, ServerClosesOrdered
<1>3. CASE Head(req[k]) \notin Closing
  BY <1>1, <1>3, ExchangeOf, ServerPlainly, ServerBlocksOrdered DEF Exchange
<1> QED BY <1>2, <1>3

-----------------------------------------------------------------------------
(***************************************************************************)
(* A client in a plain transfer.                                           *)
(***************************************************************************)
\* The client ends up with lines C at no transfer in blocks, and sends frames.
AsksWith(k, C, frames) ==
  /\ \E t : ClientDoes(k, t, frames)
  /\ ClientActs(k, C, frames) /\ (calls' = calls \/ CallBack(k))
  /\ \A c \in C : c.state \notin {BLOCK_DOWNLOAD, BLOCK_UPLOAD}
  /\ frames = <<>> \/ \E f : frames = <<f>> /\ f # Block(5, END)

PlainlyAsks(k) == \E C, frames : AsksWith(k, C, frames)

LEMMA ClientFailsActs ==
  ASSUME Settled, NEW k \in Conns, ClientFails(k), ForgetsBlocks
  PROVE  /\ \E t : ClientDoes(k, t, <<Abort>>)
         /\ ClientActs(k, {}, <<Abort>>) /\ calls' = calls
<1> DEFINE t == transfers[client[k]]
           i == ClientLine(k)
<1>1. ClientDoes(k, Failed(t, k, CLIENT), <<Abort>>) /\ calls' = calls
  BY DEF ClientFails
<1>2. CASE i = NoLine
  <2>1. Failed(t, k, CLIENT) = t
    BY <1>2 DEF Failed, ClientLine
  <2>2. ClientParties(k) = {}
    BY <1>2, ClientSees
  <2> QED BY <1>1, <2>1, <2>2, ClientStaysActs
<1>3. CASE i # NoLine
  <2> DEFINE e == t[i]
             l == StopTimer([e EXCEPT !.state = ABORTED_INTERNAL])
  <2>1. Failed(t, k, CLIENT) = [t EXCEPT ![i] = l]
    BY <1>3, StatesDiffer DEF Failed, ClientLine
  <2>2. DOMAIN e = Fields /\ e.state # RESET /\ e.whoami = CLIENT
    BY <1>3, ClientSees
  <2>3. Ends(e, l) /\ l.state = ABORTED_INTERNAL
    <3> HIDE DEF e
    <3> QED BY <2>2 DEF Ends, Owned, Fields, StopTimer
  <2>4. \A b : AParty(l, b) = {}
    BY <2>3 DEF AParty, InUse
  <2> HIDE DEF l, i
  <2>5. ClientActs(k, AParty(l, block'[client[k]][i]), <<Abort>>)
    BY <1>1, <1>3, <2>1, <2>3, ClientFinishesActs DEF i
  <2> QED BY <1>1, <2>4, <2>5
<1> QED BY <1>2, <1>3

LEMMA AsksByFailing ==
  ASSUME Settled, NEW k \in Conns, ClientFails(k), ForgetsBlocks
  PROVE  PlainlyAsks(k)
<1>1. Abort # Block(5, END)
  BY FramesDiffer
<1>2. AsksWith(k, {}, <<Abort>>)
  BY <1>1, ClientFailsActs DEF AsksWith
<1> QED BY <1>2 DEF PlainlyAsks

LEMMA AsksByEnding ==
  ASSUME Settled, NEW k \in Conns, ForgetsBlocks, ClientLine(k) # NoLine, NEW l,
         Ends(transfers[client[k]][ClientLine(k)], l),
         ClientEnds(k, [transfers[client[k]] EXCEPT ![ClientLine(k)] = l])
  PROVE  PlainlyAsks(k)
<1> DEFINE A == AParty(l, block'[client[k]][ClientLine(k)])
           t == [transfers[client[k]] EXCEPT ![ClientLine(k)] = l]
<1>1. ClientDoes(k, t, <<>>) /\ CallBack(k)
  BY DEF ClientEnds
<1>2. ClientActs(k, A, <<>>) /\ l.state \notin InProgress
  BY <1>1, ClientFinishesActs
<1>3. \A c \in A : c.state = l.state
  BY PartyIsSeen DEF AParty
<1>4. \A c \in A : c.state \notin {BLOCK_DOWNLOAD, BLOCK_UPLOAD}
  BY <1>2, <1>3, BlockStatesDiffer
<1> HIDE DEF A
<1>5. AsksWith(k, A, <<>>)
  BY <1>1, <1>2, <1>4 DEF AsksWith
<1> QED BY <1>5 DEF PlainlyAsks

LEMMA AsksByGoingOn ==
  ASSUME Settled, NEW k \in Conns, ForgetsBlocks, ClientLine(k) # NoLine, NEW l, NEW f,
         l.state \in {DOWNLOAD, UPLOAD}, f.cs \in {0, 3},
         GoesOn(transfers[client[k]][ClientLine(k)], l),
         ClientGoesOn(k, [transfers[client[k]] EXCEPT ![ClientLine(k)] = l], f)
  PROVE  PlainlyAsks(k)
<1> DEFINE i == ClientLine(k)
           t == [transfers[client[k]] EXCEPT ![i] = l]
           c == Party(l, block'[client[k]][i])
<1>1. ClientDoes(k, t, <<f>>) /\ calls' = calls
  BY DEF ClientGoesOn
<1>2. i \in Lines /\ client[k] \in Nodes
  BY ClientSees, ClientStatics
<1>3. transfers' = [transfers EXCEPT ![client[k]] = t]
  BY <1>1, ClientWires
<1> HIDE DEF i
<1>4. BlocksKept' /\ BlocksStay(client[k], i)
  BY <1>2, <1>3, OneBlockForgotten DEF Settled
<1>5. ClientActs(k, {c}, <<f>>)
  BY <1>1, <1>4, ClientContinuesActs DEF i
<1>6. c.state \notin {BLOCK_DOWNLOAD, BLOCK_UPLOAD}
  BY PartyIsSeen, BlockStatesDiffer
<1>7. f # Block(5, END)
  BY FramesDiffer
<1> HIDE DEF c
<1>8. AsksWith(k, {c}, <<f>>)
  BY <1>1, <1>5, <1>6, <1>7 DEF AsksWith
<1> QED BY <1>8 DEF PlainlyAsks

LEMMA AsksNextSegment ==
  ASSUME Settled, NEW k \in Conns, ForgetsBlocks, NEW toggle,
         Started(transfers[client[k]], k, CLIENT, DOWNLOAD),
         NextSegment(k, transfers[client[k]], ClientLine(k), toggle)
  PROVE  PlainlyAsks(k)
<1> DEFINE t == transfers[client[k]]
           i == ClientLine(k)
           e == t[i]
           r == RestartTimer(e)
           f == Segment(r, toggle)
           d == [lineToSDO(r, f.n) EXCEPT !.toggle = toggle]
           g == Finished(r)
<1>1. i # NoLine /\ e.state = DOWNLOAD /\ DOMAIN e = Fields
  BY ClientSees DEF Started, ClientLine
<1>2. e.state \in InProgress /\ e.state # RESET
  BY <1>1, StatesDiffer, BlockStatesDiffer
<1>3. \/ ClientEnds(k, [t EXCEPT ![i] = g])
      \/ ClientGoesOn(k, [t EXCEPT ![i] = d], f)
  <2> HIDE DEF i, t, e
  <2> QED BY DEF NextSegment, i, t, e
<1>4. Ends(e, g)
  <2> HIDE DEF e
  <2> QED BY <1>1, <1>2, StatesDiffer DEF Ends, Owned, Fields, Finished, StopTimer, RestartTimer
<1>5. GoesOn(e, d) /\ d.state = DOWNLOAD
  <2> HIDE DEF e, f
  <2> QED BY <1>1, <1>2, SentGoesOn
<1>6. f.cs = 0
  BY DEF Segment, Frame
<1> HIDE DEF d, f, g, i
<1> QED BY <1>1, <1>3, <1>4, <1>5, <1>6, AsksByEnding, AsksByGoingOn DEF i

LEMMA AsksForDownload ==
  ASSUME Settled, NEW k \in Conns, ForgetsBlocks,
         ClientInitiateDownload(k) \/ ClientDownloadSegment(k)
  PROVE  PlainlyAsks(k)
<1>1. \/ ClientFails(k)
      \/ /\ Started(transfers[client[k]], k, CLIENT, DOWNLOAD)
         /\ \E toggle : NextSegment(k, transfers[client[k]], ClientLine(k), toggle)
  <2>1. CASE ClientInitiateDownload(k)
    BY <2>1 DEF ClientInitiateDownload, ClientLine
  <2>2. CASE ClientDownloadSegment(k)
    BY <2>2 DEF ClientDownloadSegment, ClientLine, SegmentFits
  <2> QED BY <2>1, <2>2
<1>2. CASE ClientFails(k)
  BY <1>2, AsksByFailing
<1>3. ASSUME NEW toggle, Started(transfers[client[k]], k, CLIENT, DOWNLOAD),
             NextSegment(k, transfers[client[k]], ClientLine(k), toggle)
      PROVE  PlainlyAsks(k)
  BY <1>3, AsksNextSegment
<1> QED BY <1>1, <1>2, <1>3

LEMMA AsksForUpload ==
  ASSUME Settled, NEW k \in Conns, ForgetsBlocks,
         ClientInitiateUpload(k) \/ ClientUploadSegment(k)
  PROVE  PlainlyAsks(k)
<1> DEFINE t == transfers[client[k]]
           i == ClientLine(k)
           e == t[i]
           m == Head(resp[k])
           taken == [SDOtoLine(RestartTimer(e), m) EXCEPT !.toggle = Inverted(@)]
           ends == [Finished(SDOtoLine(e, m)) EXCEPT !.count = m.n]
           goes == [RestartTimer(e) EXCEPT !.count = m.n]
           over == Finished(taken)
<1>1. ClientFails(k) \/ Started(t, k, CLIENT, UPLOAD)
  BY DEF ClientInitiateUpload, ClientUploadSegment, SegmentFits
<1>2. \/ ClientFails(k)
      \/ \E l \in {ends, over} : ClientEnds(k, [t EXCEPT ![i] = l])
      \/ \E l \in {goes, taken} : \E f : f.cs = 3 /\ ClientGoesOn(k, [t EXCEPT ![i] = l], f)
  <2>1. \A toggle : Frame(3).cs = 3 /\ [Frame(3) EXCEPT !.toggle = toggle].cs = 3
    BY DEF Frame
  <2>2. CASE ClientInitiateUpload(k)
    <3>1. \/ ClientFails(k)
          \/ ClientEnds(k, [t EXCEPT ![i] = ends])
          \/ ClientGoesOn(k, [t EXCEPT ![i] = goes], Frame(3))
      BY <2>2 DEF ClientInitiateUpload, ClientLine
    <3> QED BY <2>1, <3>1
  <2>3. CASE ClientUploadSegment(k)
    <3>1. \/ ClientFails(k)
          \/ ClientEnds(k, [t EXCEPT ![i] = over])
          \/ ClientGoesOn(k, [t EXCEPT ![i] = taken], [Frame(3) EXCEPT !.toggle = taken.toggle])
      BY <2>3 DEF ClientUploadSegment, ClientLine
    <3> QED BY <2>1, <3>1
  <2> QED BY <2>2, <2>3
<1>3. CASE ClientFails(k)
  BY <1>3, AsksByFailing
<1>4. CASE Started(t, k, CLIENT, UPLOAD) /\ ~ClientFails(k)
  <2>1. i # NoLine /\ DOMAIN e = Fields /\ e.state = UPLOAD
    BY <1>4, ClientSees DEF Started, ClientLine
  <2>2. e.state \in InProgress /\ e.state # RESET
    BY <2>1, StatesDiffer, BlockStatesDiffer
  <2>3. /\ Ends(e, ends) /\ Ends(e, over)
        /\ GoesOn(e, goes) /\ goes.state = UPLOAD /\ GoesOn(e, taken) /\ taken.state = UPLOAD
    <3> HIDE DEF e, m
    <3>1. Ends(e, ends) /\ Ends(e, over)
      BY <2>1, <2>2, StatesDiffer
         DEF Ends, Owned, Fields, Finished, StopTimer, RestartTimer, SDOtoLine
    <3>2. GoesOn(e, goes) /\ goes.state = UPLOAD /\ GoesOn(e, taken) /\ taken.state = UPLOAD
      BY <2>1, <2>2 DEF GoesOn, Owned, Fields, RestartTimer, SDOtoLine
    <3> QED BY <3>1, <3>2
  <2> HIDE DEF taken, ends, goes, over, i
  <2>4. ASSUME NEW l \in {ends, over}, ClientEnds(k, [t EXCEPT ![i] = l]) PROVE PlainlyAsks(k)
    BY <2>1, <2>3, <2>4, AsksByEnding DEF i
  <2>5. ASSUME NEW l \in {goes, taken}, NEW f, f.cs = 3, ClientGoesOn(k, [t EXCEPT ![i] = l], f)
        PROVE  PlainlyAsks(k)
    BY <2>1, <2>3, <2>5, AsksByGoingOn DEF i
  <2> QED BY <1>2, <1>4, <2>4, <2>5
<1> QED BY <1>1, <1>3, <1>4

\* An abort, and what it makes of the line.
Given(l) == StopTimer([l EXCEPT !.state = ABORTED_RCV])

LEMMA GivenEnds ==
  ASSUME NEW l, DOMAIN l = Fields, l.state # RESET
  PROVE  Ends(l, Given(l)) /\ Given(l).state = ABORTED_RCV
BY StatesDiffer DEF Ends, Owned, Fields, StopTimer, Given

LEMMA ClientAborts ==
  ASSUME NEW k \in Conns, ClientAbort(k)
  PROVE  LET t == transfers[client[k]]
             i == ClientLine(k)
         IN  IF i = NoLine THEN ClientDoes(k, t, <<>>) /\ calls' = calls
             ELSE ClientEnds(k, [t EXCEPT ![i] = Given(t[i])])
BY DEF ClientAbort, ClientLine, Given

LEMMA AsksByAbort ==
  ASSUME Settled, NEW k \in Conns, ForgetsBlocks, ClientAbort(k)
  PROVE  PlainlyAsks(k)
<1> DEFINE t == transfers[client[k]]
           i == ClientLine(k)
           e == t[i]
           g == Given(e)
<1>1. IF i = NoLine THEN ClientDoes(k, t, <<>>) /\ calls' = calls
      ELSE ClientEnds(k, [t EXCEPT ![i] = g])
  BY ClientAborts
<1>2. CASE i = NoLine
  <2>1. ClientActs(k, {}, <<>>)
    <3>1. ClientParties(k) = {}
      BY <1>2, ClientSees
    <3> QED BY <1>1, <1>2, <3>1, ClientStaysActs
  <2>2. AsksWith(k, {}, <<>>)
    BY <1>1, <1>2, <2>1 DEF AsksWith
  <2> QED BY <2>2 DEF PlainlyAsks
<1>3. CASE i # NoLine
  <2>1. DOMAIN e = Fields /\ e.state # RESET
    BY <1>3, ClientSees
  <2>2. Ends(e, g)
    BY <2>1, GivenEnds
  <2> HIDE DEF g, i
  <2> QED BY <1>1, <1>3, <2>2, AsksByEnding DEF i
<1> QED BY <1>2, <1>3

\* A client in a plain transfer, or in none, gets an answer to a plain request.
LEMMA ClientPlainly ==
  ASSUME Ordered, NEW k \in Conns, ClientDispatches(k), resp[k] # <<>>,
         InSegments(ClientParties(k), ServerParties(k), req[k], resp[k], Asked(k), served[k],
                    calls[k], losses)
  PROVE  Ordered'
<1> DEFINE C == ClientParties(k)
           S == ServerParties(k)
           N == {Shown(x) : x \in S}
           p == resp[k]
<1>1. /\ Settled /\ Wires /\ running = Nodes /\ LineInvariant
      /\ \A x \in S : StepFits(x)
  BY ExchangeOf DEF Ordered, Settled, Exchange
<1>2. /\ Plainly(k) /\ Stale(S, req[k], losses)
      /\ \A c \in C : c.state \notin {BLOCK_DOWNLOAD, BLOCK_UPLOAD}
      /\ Head(p).cs \in 0 .. 4
  BY DEF InSegments, Plainly
<1>3. req[k] = <<>> /\ Tail(p) = <<>>
  <2>1. PICK m : req[k] = <<>> /\ p = <<m>>
    BY <1>2 DEF Plainly, Dialogue, Asking, Answering
  <2> QED BY <2>1, OneFrame
<1>4. ~ClientReadsData(k)
  BY <1>1, <1>2, ClientIsAt DEF ClientReadsData
<1>5. /\ ForgetsBlocks
      /\ \/ ClientInitiateDownload(k) \/ ClientDownloadSegment(k)
         \/ ClientInitiateUpload(k) \/ ClientUploadSegment(k) \/ ClientAbort(k)
  BY <1>2, <1>4, ClientHandlers
<1>6. PICK C2, frames : AsksWith(k, C2, frames)
  BY <1>1, <1>5, AsksForDownload, AsksForUpload, AsksByAbort DEF PlainlyAsks
<1> HIDE DEF C, S, N, p
<1>7. PICK t : ClientDoes(k, t, frames)
  BY <1>6 DEF AsksWith
<1>8. /\ ClientActs(k, C2, frames) /\ (calls' = calls \/ CallBack(k))
      /\ \A c \in C2 : c.state \notin {BLOCK_DOWNLOAD, BLOCK_UPLOAD}
      /\ frames = <<>> \/ \E f : frames = <<f>> /\ f # Block(5, END)
  BY <1>6 DEF AsksWith
<1>9. <<>> \o frames = frames
  BY <1>8, OneIsSequence, NothingBehind
<1>10. /\ ClientParties(k)' = C2 /\ ServerParties(k)' = S /\ req'[k] = frames /\ resp'[k] = <<>>
       /\ running' = Nodes /\ requests' = requests /\ served' = served
  BY <1>1, <1>3, <1>7, <1>8, <1>9
     DEF ClientActs, Acts, OthersWait, ClientDoes, userVars, faultVars, S, p
<1>11. Plainly(k)'
  <2>1. ServedInvariant({k})
    BY <1>1, <1>2, PlainlyServed DEF ServedInvariant, Settled
  <2>2. ClientHandles(k)
    BY <1>5 DEF ClientHandles
  <2>3. ServedInvariant({k})'
    BY <1>1, <2>1, <2>2, ClientHandlesServes
  <2> QED BY <1>10, <2>3, PlainlyServedThen DEF ServedInvariant
<1>12. Dialogue({Shown(c) : c \in C2}, N, frames, <<>>, Asked(k), served[k], calls'[k], TRUE)
  <2>1. Asked(k)' = Asked(k)
    BY <1>10 DEF Asked
  <2> QED BY <1>10, <1>11, <2>1 DEF Plainly, N
<1>13. Stale(S, frames, losses) /\ Ahead(S, frames)
  <2>1. frames # <<>> => Head(frames) # Block(5, END)
    <3>1. ASSUME NEW f, frames = <<f>>, f # Block(5, END) PROVE Head(frames) # Block(5, END)
      BY <3>1, OneFrame
    <3> QED BY <1>8, <3>1
  <2>2. \A s \in S : s.state = BLOCK_DOWNLOAD => Sound(s) /\ losses >= 2
    BY <1>2, <1>3 DEF Stale
  <2> QED BY <2>1, <2>2 DEF Stale, Ahead
<1>14. InSegments(C2, S, frames, <<>>, Asked(k), served[k], calls'[k], losses)
  BY <1>8, <1>12, <1>13 DEF InSegments, N
<1>15. Exchange(C2, S, frames, <<>>, Asked(k), served[k], calls'[k], losses)
  BY <1>1, <1>14 DEF Exchange
<1>16. frames = req[k] \o frames /\ <<>> = Tail(resp[k])
  BY <1>3, <1>9 DEF p
<1> QED BY <1>7, <1>8, <1>15, <1>16, ClientOrdered DEF S

-----------------------------------------------------------------------------
(***************************************************************************)
(* A client in a transfer in blocks.                                       *)
(***************************************************************************)
\* The frames to a client at a transfer in blocks.
LEMMA BlocksToClient ==
  ASSUME NEW c, NEW S, NEW q, NEW p, NEW r, NEW s, NEW n, NEW l, InBlocks(c, S, q, p, r, s, n, l),
         p # <<>>
  PROVE  /\ q = <<>> /\ (ForDownload(c, r, n) \/ ForUpload(c, r, n))
         /\ \/ Refused(S, q, p)
            \/ c.state = BLOCK_DOWNLOAD /\ DownloadConfirmed(S, q, p, c, s)
            \/ \E x : /\ S = {x} /\ c.state = BLOCK_DOWNLOAD /\ x.state = BLOCK_DOWNLOAD
                      /\ x.index = c.index
                      /\ \E m : /\ p = <<m>> /\ m.cs = 5
                                /\ \/ m.sub = INITIATE /\ m.n = SDO_BLOCK_SIZE /\ Fresh(c, x)
                                   \/ Heard(c, x, m)
            \/ \E y : /\ S = {y} /\ c.state = BLOCK_UPLOAD /\ y.state = BLOCK_UPLOAD
                      /\ ServedTo(s, c, UPLOAD, y.data)
                      /\ \/ /\ \E m : p = <<m>> /\ m.cs = 6 /\ m.sub = INITIATE /\ m.n = y.count
                            /\ Producer(y) /\ y.offset = 0 /\ y.blksize = SDO_BLOCK_SIZE
                            /\ c.offset = 0 /\ c.seqno = 0 /\ c.data # Mixed
                            /\ c.rxstep = RXSTEP_INIT
                         \/ Flows(y, c, p)
                         \/ \E m : /\ p = <<m>> /\ m.cs = 6 /\ m.sub = END /\ m.n = y.endfield
                                   /\ HasLast(y, c)
<1>1. CASE Refused(S, q, p)
  BY <1>1 DEF Refused, InBlocks
<1>2. CASE c.state = BLOCK_DOWNLOAD /\ DownloadConfirmed(S, q, p, c, s)
  BY <1>2 DEF DownloadConfirmed, InBlocks
<1>3. CASE c.state = BLOCK_DOWNLOAD /\ \E x : S = {x} /\ DownloadGoesOn(q, p, c, x)
  BY <1>3 DEF DownloadGoesOn, InBlocks
<1>4. CASE c.state = BLOCK_UPLOAD /\ \E y : S = {y} /\ UploadGoesOn(q, p, c, y, s)
  BY <1>4 DEF UploadGoesOn, InBlocks
<1> QED BY <1>1, <1>2, <1>3, <1>4 DEF InBlocks, Silent, BlockAsks

\* The client's line on use goes on.
LEMMA ClientGoesOnOrdered ==
  ASSUME Ordered, NEW k \in Conns, ClientDispatches(k), req[k] = <<>>,
         ClientLine(k) # NoLine, NEW s, ClientBlockGoesOn(k, ClientLine(k), s),
         GoesOn(transfers[client[k]][ClientLine(k)], s.line), DOMAIN s.block = BlockFields,
         IsSequence(s.frames),
         InBlocks(Party(s.line, s.block), ServerParties(k), s.frames, Tail(resp[k]), Asked(k),
                  served[k], calls[k], losses)
  PROVE  Ordered'
<1> DEFINE i == ClientLine(k)
           t == transfers[client[k]]
           c == Party(s.line, s.block)
           S == ServerParties(k)
<1>1. Settled /\ BlocksKept
  BY DEF Ordered, Settled
<1>2. i \in Lines /\ client[k] \in Nodes
  BY <1>1, ClientSees, ClientStatics
<1>3. /\ ClientDoes(k, [t EXCEPT ![i] = s.line], s.frames) /\ calls' = calls
      /\ block' = [block EXCEPT ![client[k]][i] = s.block]
  BY DEF ClientBlockGoesOn
<1> HIDE DEF i
<1>4. BlocksKept' /\ BlocksStay(client[k], i) /\ block'[client[k]][i] = s.block
  BY <1>1, <1>2, <1>3, BlockChanges
<1>5. ClientActs(k, {Party(s.line, block'[client[k]][i])}, s.frames)
  BY <1>1, <1>3, <1>4, ClientContinuesActs DEF i
<1>6. ClientActs(k, {c}, s.frames)
  BY <1>4, <1>5
<1>7. s.frames = req[k] \o s.frames
  BY NothingBehind
<1>8. InBlocks(c, S, s.frames, Tail(resp[k]), Asked(k), served[k], calls'[k], losses)
  BY <1>3
<1> HIDE DEF c
<1>9. Exchange({c}, S, s.frames, Tail(resp[k]), Asked(k), served[k], calls'[k], losses)
  BY <1>8, ExchangeOf DEF Exchange
<1> QED BY <1>3, <1>6, <1>7, <1>9, ClientOrdered DEF S

\* The answer to a block of a download, or to the request for it.
LEMMA ClientSendsOrdered ==
  ASSUME Ordered, NEW k \in Conns, ClientDispatches(k), ClientBlockDownload(k), req[k] = <<>>,
         NEW c, AtBlocks(k, c), c.state = BLOCK_DOWNLOAD,
         NEW x, ServerParties(k) = {x}, x.state = BLOCK_DOWNLOAD, x.index = c.index,
         NEW m, resp[k] = <<m>>,
         \/ m.sub = INITIATE /\ m.n = SDO_BLOCK_SIZE /\ Fresh(c, x)
         \/ Heard(c, x, m)
  PROVE  Ordered'
<1> DEFINE i == ClientLine(k)
           e == transfers[client[k]][i]
           l == RestartTimer(e)
           b == block[client[k]][i]
<1>1. /\ i # NoLine /\ DOMAIN b = BlockFields /\ e.state \in InProgress
      /\ Party(l, b) = c /\ DOMAIN l = Fields /\ e.state = BLOCK_DOWNLOAD /\ DOMAIN e = Fields
  BY ExchangeOf, ClientIsParty DEF AtBlocks
<1>2. Started(transfers[client[k]], k, CLIENT, BLOCK_DOWNLOAD)
  BY ExchangeOf, ClientIsAt DEF AtBlocks
<1>3. Head(resp[k]) = m /\ Tail(resp[k]) = <<>>
  BY OneFrame
<1>4. m.n = SDO_BLOCK_SIZE /\ ~(m.n > 127) /\ m.sub # START_UPLOAD
  <2>1. m.n = SDO_BLOCK_SIZE
    BY DEF Heard
  <2>2. m.sub # START_UPLOAD
    BY FramesDiffer DEF Heard
  <2>3. ~(SDO_BLOCK_SIZE > 127)
    BY BlockAssumption
  <2> QED BY <2>1, <2>2, <2>3
<1>5. IF m.sub = INITIATE THEN ClientBlockGoesOn(k, i, AfterBlock(l, b, m.n))
      ELSE IF BadAckSeq(l, b, m) THEN ClientBlockFails(k)
      ELSE ClientBlockGoesOn(k, i, Acknowledged(l, b, m, Block(6, END)))
  <2> HIDE DEF i
  <2> QED BY <1>2, <1>3, <1>4 DEF ClientBlockDownload, i
<1>6. /\ l.state = BLOCK_DOWNLOAD /\ l.index = c.index /\ l.data = c.data
      /\ l.offset = c.offset /\ l.count = c.count
  <2> HIDE DEF l, b
  <2> QED BY <1>1, PartyIsSeen
<1>7. ASSUME NEW r, ClientBlockGoesOn(k, i, r), Same(l, r.line), DOMAIN r.block = BlockFields,
             r.line.index = l.index, r.line.data = l.data,
             \/ Flows(Party(r.line, r.block), x, r.frames)
             \/ \E f : r.frames = <<f>> /\ SaysEnd(Party(r.line, r.block), x, f)
      PROVE  Ordered'
  <2> DEFINE z == Party(r.line, r.block)
  <2>1. GoesOn(e, r.line)
    BY <1>1, <1>7, SameGoesOn
  <2>2. z.state = BLOCK_DOWNLOAD /\ z.data = c.data /\ z.index = c.index
    BY <1>6, <1>7, PartyIsSeen DEF Same
  <2> HIDE DEF z, l, b, e, i
  <2>3. Flows(z, x, r.frames) \/ \E f : r.frames = <<f>> /\ SaysEnd(z, x, f)
    BY <1>7 DEF z
  <2>4. IsSequence(r.frames)
    BY <2>3, OneIsSequence DEF Flows
  <2>5. DownloadGoesOn(r.frames, <<>>, z, x)
    BY <2>2, <2>3 DEF DownloadGoesOn, SaysEnd
  <2>6. ForDownload(z, Asked(k), calls[k])
    BY <2>2, BlockStatesDiffer DEF AtBlocks, ForDownload, ForUpload
  <2>7. InBlocks(z, {x}, r.frames, Tail(resp[k]), Asked(k), served[k], calls[k], losses)
    BY <1>3, <2>2, <2>5, <2>6 DEF InBlocks
  <2> QED BY <1>1, <1>7, <2>1, <2>4, <2>7, ClientGoesOnOrdered DEF z, i, e
<1>8. CASE m.sub = INITIATE /\ m.n = SDO_BLOCK_SIZE /\ Fresh(c, x)
  <2> DEFINE r == AfterBlock(l, b, m.n)
  <2>1. ClientBlockGoesOn(k, i, r)
    BY <1>5, <1>8
  <2>2. Holds(l) /\ l.offset # l.count
    <3>1. Producer(c) /\ c.offset = 0
      BY <1>8 DEF Fresh
    <3> HIDE DEF l
    <3>2. Holds(l)
      BY <1>6, <3>1 DEF Producer, Holds
    <3> QED BY <1>6, <3>1, <3>2, HoldsSomething
  <2>3. Consumer(c, x) /\ x.offset = l.offset /\ x.seqno = 0 /\ x.rxstep = RXSTEP_STARTED
    BY <1>6, <1>8 DEF Fresh
  <2> HIDE DEF r, l, b
  <2>4. /\ Flows(Party(r.line, r.block), x, r.frames)
        /\ r.line = [l EXCEPT !.offset = r.line.offset]
        /\ DOMAIN r.block = BlockFields
    BY <1>1, <1>4, <2>2, <2>3, BlockFlows DEF r
  <2>5. Same(l, r.line)
    BY <1>1, <2>4, SameButOffset
  <2>6. r.line.data = l.data /\ r.line.index = l.index
    <3>1. \A w : [l EXCEPT !.offset = w].data = l.data /\ [l EXCEPT !.offset = w].index = l.index
      BY <1>1 DEF Fields
    <3> QED BY <2>4, <3>1
  <2> HIDE DEF i
  <2> QED BY <1>7, <2>1, <2>4, <2>5, <2>6
<1>9. CASE Heard(c, x, m)
  <2> DEFINE r == Acknowledged(l, b, m, Block(6, END))
  <2>1. m.sub # INITIATE
    BY <1>9, FramesDiffer DEF Heard
  <2>2. /\ ~BadAckSeq(l, b, m) /\ Same(l, r.line) /\ DOMAIN r.block = BlockFields
        /\ r.line.data = l.data /\ r.line.index = l.index
        /\ \/ Flows(Party(r.line, r.block), x, r.frames)
           \/ \E f : r.frames = <<f>> /\ SaysEnd(Party(r.line, r.block), x, f)
    <3> HIDE DEF l, b
    <3> QED BY <1>1, <1>9, HeardGoesOn
  <2>3. ClientBlockGoesOn(k, i, r)
    BY <1>5, <2>1, <2>2
  <2> HIDE DEF r, l, i, b
  <2> QED BY <1>7, <2>2, <2>3
<1> QED BY <1>8, <1>9

\* The answer to the request for an upload in blocks, or a segment of it.
LEMMA ClientReceivesOrdered ==
  ASSUME Ordered, NEW k \in Conns, ClientDispatches(k), ClientBlockUpload(k), req[k] = <<>>,
         NEW c, AtBlocks(k, c), c.state = BLOCK_UPLOAD,
         NEW y, ServerParties(k) = {y}, y.state = BLOCK_UPLOAD,
         ServedTo(served[k], c, UPLOAD, y.data),
         \/ /\ \E m : resp[k] = <<m>> /\ m.cs = 6 /\ m.sub = INITIATE /\ m.n = y.count
            /\ Producer(y) /\ y.offset = 0 /\ y.blksize = SDO_BLOCK_SIZE
            /\ c.offset = 0 /\ c.seqno = 0 /\ c.data # Mixed /\ c.rxstep = RXSTEP_INIT
         \/ Flows(y, c, resp[k])
  PROVE  Ordered'
<1> DEFINE i == ClientLine(k)
           e == transfers[client[k]][i]
           l == RestartTimer(e)
           b == block[client[k]][i]
           p == resp[k]
           m == Head(p)
<1>1. /\ i # NoLine /\ DOMAIN b = BlockFields /\ e.state \in InProgress
      /\ Party(l, b) = c /\ DOMAIN l = Fields /\ e.state = BLOCK_UPLOAD /\ b.rxstep = c.rxstep
      /\ DOMAIN e = Fields
  BY ExchangeOf, ClientIsParty DEF AtBlocks
<1>2. l.state = BLOCK_UPLOAD /\ l.index = c.index /\ l.offset = c.offset /\ l.count = c.count
      /\ l.data = c.data /\ b.seqno = c.seqno
  <2> HIDE DEF l, b
  <2> QED BY <1>1, PartyIsSeen
<1>3. ForUpload(c, Asked(k), calls[k])
  BY BlockStatesDiffer DEF AtBlocks, ForDownload, ForUpload
<1>4. ASSUME NEW r, ClientBlockGoesOn(k, i, r), Same(l, r.line), DOMAIN r.block = BlockFields,
             r.line.index = l.index, IsSequence(r.frames),
             NEW z, z = Party(r.line, r.block), z.count = 0,
             \/ Tail(p) = <<>> /\ \E a : /\ r.frames = <<a>> /\ a.cs = 5
                                         /\ \/ /\ a.sub = START_UPLOAD /\ Fresh(y, z)
                                               /\ y.blksize = SDO_BLOCK_SIZE
                                            \/ Heard(y, z, a)
             \/ r.frames = <<>> /\ Flows(y, z, Tail(p))
      PROVE  Ordered'
  <2>1. GoesOn(e, r.line)
    BY <1>1, <1>4, SameGoesOn
  <2>2. z.state = BLOCK_UPLOAD /\ z.index = c.index
    BY <1>2, <1>4, PartyIsSeen DEF Same
  <2> HIDE DEF l, b, e, i, p
  <2>3. ServedTo(served[k], z, UPLOAD, y.data)
    BY <2>2 DEF ServedTo
  <2>4. UploadGoesOn(r.frames, Tail(p), z, y, served[k])
    <3>1. CASE Tail(p) = <<>> /\ \E a : /\ r.frames = <<a>> /\ a.cs = 5
                                        /\ \/ /\ a.sub = START_UPLOAD /\ Fresh(y, z)
                                              /\ y.blksize = SDO_BLOCK_SIZE
                                           \/ Heard(y, z, a)
      BY <2>3, <3>1 DEF UploadGoesOn
    <3>2. CASE r.frames = <<>> /\ Flows(y, z, Tail(p))
      BY <2>3, <3>2 DEF UploadGoesOn
    <3> QED BY <1>4, <3>1, <3>2
  <2>5. ForUpload(z, Asked(k), calls[k])
    BY <1>3, <1>4, <2>2 DEF ForUpload
  <2>6. InBlocks(z, {y}, r.frames, Tail(p), Asked(k), served[k], calls[k], losses)
    BY <2>2, <2>4, <2>5 DEF InBlocks
  <2> QED BY <1>1, <1>4, <2>1, <2>6, ClientGoesOnOrdered DEF i, e, p
<1>5. CASE /\ p = <<m>> /\ m.cs = 6 /\ m.sub = INITIATE /\ m.n = y.count
           /\ Producer(y) /\ y.offset = 0 /\ y.blksize = SDO_BLOCK_SIZE
           /\ c.offset = 0 /\ c.seqno = 0 /\ c.data # Mixed /\ c.rxstep = RXSTEP_INIT
  <2> DEFINE f == Block(5, START_UPLOAD)
             g == [b EXCEPT !.rxstep = RXSTEP_STARTED, !.objsize = m.n]
             r == [line |-> l, frames |-> <<f>>, block |-> g]
             z == Party(r.line, r.block)
  <2>1. LowBit(m) = INITIATE
    <3>1. ~IsSegment(m)
      BY <1>5 DEF IsSegment
    <3> QED BY <1>5, <3>1 DEF LowBit, INITIATE
  <2>2. ClientBlockGoesOn(k, i, r)
    <3>1. b.rxstep = RXSTEP_INIT /\ LowBit(Head(resp[k])) = INITIATE
      BY <1>1, <1>5, <2>1
    <3> QED BY <1>1, <3>1, ClientUploadCases
  <2> HIDE DEF f
  <2>3. r.line = l /\ r.block = g /\ r.frames = <<f>>
    OBVIOUS
  <2>4. DOMAIN g = BlockFields /\ g.rxstep = RXSTEP_STARTED /\ g.seqno = b.seqno
        /\ g.objsize = m.n
    <3> HIDE DEF b, m
    <3> QED BY <1>1 DEF BlockFields, b
  <2>5. Same(l, l)
    <3> HIDE DEF l
    <3> QED BY <1>1 DEF Same, Owned, l
  <2> HIDE DEF g, r
  <2>6. /\ z.rxstep = RXSTEP_STARTED /\ z.offset = 0 /\ z.seqno = 0 /\ z.count = 0
        /\ z.data # Mixed /\ z.objsize = y.count
    <3> HIDE DEF l, b, m
    <3>1. /\ z.count = r.line.count /\ z.data = r.line.data /\ z.objsize = r.block.objsize
          /\ z.rxstep = r.block.rxstep /\ z.offset = r.line.offset /\ z.seqno = r.block.seqno
      BY PartyIsSeen
    <3>2. c.count = 0
      BY <1>3 DEF ForUpload
    <3> QED BY <1>2, <1>5, <2>3, <2>4, <3>1, <3>2
  <2> HIDE DEF z
  <2>7. Fresh(y, z)
    BY <1>5, <2>6 DEF Fresh, Consumer, Sound
  <2>8. f.cs = 5 /\ f.sub = START_UPLOAD /\ IsSequence(<<f>>)
    BY OneIsSequence DEF f, Block, Frame
  <2>9. Tail(p) = <<>>
    BY <1>5, OneFrame
  <2> HIDE DEF l, i, m, b
  <2> QED BY <1>4, <1>5, <2>2, <2>3, <2>4, <2>5, <2>6, <2>7, <2>8, <2>9 DEF z
<1>6. CASE Flows(y, c, p)
  <2> DEFINE r == Received(l, b, m)
             z == Party(r.line, r.block)
  <2>1. b.rxstep = RXSTEP_STARTED
    BY <1>1, <1>6 DEF Flows
  <2>2. /\ ~SegmentOverflows(l, b, m) /\ Same(l, r.line) /\ DOMAIN r.block = BlockFields
        /\ r.line.index = l.index
        /\ \/ r.frames = <<>> /\ Flows(y, z, Tail(p))
           \/ Tail(p) = <<>> /\ \E a : r.frames = <<a>> /\ a.cs = 5 /\ Heard(y, z, a)
    <3>1. Flows(y, Party(l, b), p)
      BY <1>1, <1>6
    <3> HIDE DEF l, b, p
    <3>2. LET h == Received(l, b, Head(p))
              v == Party(h.line, h.block)
          IN  /\ ~SegmentOverflows(l, b, Head(p))
              /\ Same(l, h.line) /\ DOMAIN h.block = BlockFields
              /\ h.line.index = l.index
              /\ \/ h.frames = <<>> /\ Flows(y, v, Tail(p))
                 \/ Tail(p) = <<>> /\ \E a : h.frames = <<a>> /\ a.cs = 5 /\ Heard(y, v, a)
      BY <1>1, <3>1, FlowReceived
    <3> QED BY <3>1, <3>2
  <2>3. ClientBlockGoesOn(k, i, r)
    BY <1>1, <2>1, <2>2, ClientUploadCases
  <2> HIDE DEF r, z, l, b, i, m
  <2>4. z.count = 0 /\ IsSequence(r.frames)
    BY <2>2, OneIsSequence DEF Flows, Heard, Consumer
  <2> QED BY <1>4, <2>2, <2>3, <2>4 DEF z
<1>7. \A f : p = <<f>> => f = m
  BY OneFrame
<1> HIDE DEF m
<1> QED BY <1>5, <1>6, <1>7

\* A client that gives up.
LEMMA ClientGivesUp ==
  ASSUME Ordered, NEW k \in Conns, ClientDispatches(k), req[k] = <<>>, Tail(resp[k]) = <<>>,
         ClientFails(k), ForgetsBlocks, \A x \in ServerParties(k) : x.state # BLOCK_DOWNLOAD
  PROVE  Ordered'
<1> DEFINE S == ServerParties(k)
           w == <<Abort>>
<1>1. /\ \E t : ClientDoes(k, t, w)
      /\ ClientActs(k, {}, w) /\ calls' = calls
  BY ExchangeOf, ClientFailsActs
<1>2. w = req[k] \o w
  BY OneBehindOther
<1>3. Cleared(w) /\ Head(w) = Abort /\ Abort # Block(5, END)
  BY FramesDiffer, OneFrame DEF Cleared, Closing
<1> HIDE DEF w
<1>4. InSegments({}, S, w, <<>>, Asked(k), served[k], calls'[k], losses)
  BY <1>3 DEF InSegments, Dialogue, Stale, Ahead
<1>5. Exchange({}, S, w, <<>>, Asked(k), served[k], calls'[k], losses)
  BY <1>4, ExchangeOf DEF Exchange
<1> QED BY <1>1, <1>2, <1>5, ClientOrdered DEF S

\* What a client that has ended keeps.
LEMMA EndedIsInTune ==
  ASSUME NEW l, NEW b, NEW r, NEW s, NEW n, l.state \notin InProgress,
         l.state = FINISHED => n = 1 /\ s = [op |-> r.op, index |-> r.index, value |-> Assembled(l)]
  PROVE  \A c \in AParty(l, b) :
           /\ c.state \notin {BLOCK_DOWNLOAD, BLOCK_UPLOAD}
           /\ InTune(Shown(c), r, s, n)
<1> DEFINE c == Party(l, b)
<1>1. /\ Shown(c).state = l.state /\ Shown(c).count = l.count /\ Shown(c).offset = l.offset
      /\ Shown(c).data = l.data /\ c.state = l.state
  BY PartyIsSeen DEF Shown
<1> HIDE DEF c
<1>2. Assembled(Shown(c)) = Assembled(l)
  BY <1>1 DEF Assembled
<1>3. c.state \notin {BLOCK_DOWNLOAD, BLOCK_UPLOAD, DOWNLOAD, UPLOAD}
  BY <1>1 DEF InProgress
<1>4. InTune(Shown(c), r, s, n)
  BY <1>1, <1>2, <1>3 DEF InTune, Waits
<1> QED BY <1>3, <1>4 DEF AParty, c

\* The client's transfer in blocks ends, one way or the other.
LEMMA ClientFinishesOrdered ==
  ASSUME Ordered, NEW k \in Conns, ClientDispatches(k), req[k] = <<>>, Tail(resp[k]) = <<>>,
         NEW c, AtBlocks(k, c), ClientLine(k) # NoLine, NEW l, NEW w,
         ForgetsBlocks \/ UNCHANGED block,
         Ends(transfers[client[k]][ClientLine(k)], l), CallBack(k),
         ClientDoes(k, [transfers[client[k]] EXCEPT ![ClientLine(k)] = l], w),
         l.state = FINISHED =>
           served[k] = [op |-> Asked(k).op, index |-> Asked(k).index, value |-> Assembled(l)],
         \/ w = <<>> /\ ServerParties(k) = {}
         \/ w = <<Block(5, END)>> /\ \E s : ServerParties(k) = {s} /\ s.state = BLOCK_UPLOAD
  PROVE  Ordered'
<1> DEFINE i == ClientLine(k)
           t == [transfers[client[k]] EXCEPT ![i] = l]
           S == ServerParties(k)
           C == AParty(l, block'[client[k]][i])
<1>1. ClientActs(k, C, w) /\ l.state \notin InProgress
  BY ExchangeOf, ClientFinishesActs
<1>2. calls'[k] = 1
  <2>1. DOMAIN calls = Conns /\ calls[k] = 0
    BY DEF Ordered, Wires, AtBlocks, ForDownload, ForUpload
  <2> QED BY <2>1 DEF CallBack
<1>3. \A x \in C : /\ x.state \notin {BLOCK_DOWNLOAD, BLOCK_UPLOAD}
                   /\ InTune(Shown(x), Asked(k), served[k], calls'[k])
  BY <1>1, <1>2, EndedIsInTune
<1>4. ClientDoes(k, t, w)
  OBVIOUS
<1> HIDE DEF C, t, i
<1>5. w = req[k] \o w /\ Cleared(w) /\ (\A x \in S : x.state # BLOCK_DOWNLOAD) /\ Ahead(S, w)
  <2>1. CASE w = <<>> /\ S = {}
    <3>1. w = <<>> \o w
      BY <2>1, OneIsSequence, NothingBehind
    <3> QED BY <2>1, <3>1 DEF Cleared, Ahead
  <2>2. CASE w = <<Block(5, END)>> /\ \E s : S = {s} /\ s.state = BLOCK_UPLOAD
    <3>1. w = <<>> \o w
      BY <2>2, OneBehindOther
    <3>2. \A x \in S : x.state # BLOCK_DOWNLOAD
      BY <2>2, BlockStatesDiffer
    <3> QED BY <2>2, <3>1, <3>2 DEF Cleared, Closing, Ahead
  <2> QED BY <2>1, <2>2
<1>6. InSegments(C, S, w, <<>>, Asked(k), served[k], calls'[k], losses)
  <2>1. Dialogue({Shown(x) : x \in C}, {Shown(x) : x \in S}, w, <<>>, Asked(k), served[k],
                 calls'[k], TRUE)
    BY <1>3, <1>5 DEF Dialogue
  <2> QED BY <1>3, <1>5, <2>1 DEF InSegments, Stale
<1>7. Exchange(C, S, w, <<>>, Asked(k), served[k], calls'[k], losses)
  BY <1>6, ExchangeOf DEF Exchange
<1> QED BY <1>1, <1>4, <1>5, <1>7, ClientOrdered DEF S

\* All has been downloaded.
LEMMA ClientIsConfirmedOrdered ==
  ASSUME Ordered, NEW k \in Conns, ClientDispatches(k), ClientEndsBlockDownload(k),
         NEW c, AtBlocks(k, c), c.state = BLOCK_DOWNLOAD,
         DownloadConfirmed(ServerParties(k), req[k], resp[k], c, served[k])
  PROVE  Ordered'
<1> DEFINE t == transfers[client[k]]
           i == ClientLine(k)
           e == t[i]
           b == block[client[k]][i]
           g == Finished(e)
<1>1. i # NoLine /\ DOMAIN e = Fields /\ e.state # RESET /\ e.whoami = CLIENT
      /\ e.CliServNbr = k /\ c = Party(e, b)
  BY ExchangeOf, ClientSees DEF AtBlocks
<1>2. /\ ClientDoes(k, [t EXCEPT ![i] = g], <<>>) /\ UNCHANGED block /\ CallsBack(e)
  <2>1. /\ ClientDoes(k, [t EXCEPT ![i] = Finished(@)], <<>>) /\ UNCHANGED block
        /\ CallsBack(e)
    BY <1>1 DEF ClientEndsBlockDownload
  <2> QED BY <2>1
<1>3. CallBack(k)
  BY <1>1, <1>2 DEF CallsBack, CallBack
<1>4. /\ e.index = c.index /\ e.data = c.data /\ e.count = c.count /\ e.offset = c.offset
  <2> HIDE DEF e, b
  <2> QED BY <1>1, PartyIsSeen
<1>5. Ends(e, g) /\ g.data = e.data /\ g.count = e.count /\ g.offset = e.offset
  <2> HIDE DEF e
  <2> QED BY <1>1, StatesDiffer DEF Ends, Owned, Fields, Finished, StopTimer
<1>6. /\ ServerParties(k) = {} /\ req[k] = <<>> /\ \E m : resp[k] = <<m>>
      /\ ServedTo(served[k], c, DOWNLOAD, c.data) /\ Producer(c) /\ c.offset = c.count
  BY DEF DownloadConfirmed
<1>7. Tail(resp[k]) = <<>>
  BY <1>6, OneFrame
<1>8. ForDownload(c, Asked(k), calls[k])
  BY BlockStatesDiffer DEF AtBlocks, ForDownload, ForUpload
<1> HIDE DEF g, e
<1>9. Assembled(g) = c.data
  <2>1. c.count # 0
    BY <1>6, ProducerHolds, HoldsSomething
  <2> QED BY <1>4, <1>5, <1>6, <2>1 DEF Assembled, Producer
<1>10. served[k] = [op |-> Asked(k).op, index |-> Asked(k).index, value |-> Assembled(g)]
  BY <1>6, <1>8, <1>9 DEF ServedTo, ForDownload
<1> HIDE DEF i
<1> QED BY <1>1, <1>2, <1>3, <1>5, <1>6, <1>7, <1>10, ClientFinishesOrdered DEF i, e

\* The server has given up.
LEMMA ClientIsRefused ==
  ASSUME Ordered, NEW k \in Conns, ClientDispatches(k), NEW c, AtBlocks(k, c),
         Refused(ServerParties(k), req[k], resp[k])
  PROVE  Ordered'
<1> DEFINE t == transfers[client[k]]
           i == ClientLine(k)
           e == t[i]
           g == Given(e)
<1>1. i # NoLine /\ DOMAIN e = Fields /\ e.state # RESET
  BY ExchangeOf, ClientSees DEF AtBlocks
<1>2. req[k] = <<>> /\ resp[k] = <<Abort>> /\ ServerParties(k) = {}
  BY DEF Refused
<1>3. Head(resp[k]) = Abort /\ Tail(resp[k]) = <<>> /\ Abort.cs = 4
  BY <1>2, OneFrame, FramesDiffer
<1>4. ~ClientReadsData(k)
  BY <1>3 DEF ClientReadsData
<1>5. ForgetsBlocks /\ ClientAbort(k)
  BY <1>3, <1>4, ClientHandlers
<1>6. ClientEnds(k, [t EXCEPT ![i] = g])
  BY <1>1, <1>5, ClientAborts
<1>7. ClientDoes(k, [t EXCEPT ![i] = g], <<>>) /\ CallBack(k)
  BY <1>6 DEF ClientEnds
<1>8. Ends(e, g) /\ g.state # FINISHED
  <2> HIDE DEF e
  <2> QED BY <1>1, GivenEnds, StatesDiffer
<1> HIDE DEF g, i
<1> QED BY <1>1, <1>2, <1>3, <1>5, <1>7, <1>8, ClientFinishesOrdered DEF i, e

\* ClientBlockUpload at its end.
LEMMA ClientUploadEnds ==
  ASSUME NEW k \in Conns, ClientBlockUpload(k), ClientLine(k) # NoLine,
         block[client[k]][ClientLine(k)].rxstep = RXSTEP_END
  PROVE  LET m == Head(resp[k])
             t == transfers[client[k]]
             i == ClientLine(k)
             l == RestartTimer(t[i])
             b == block[client[k]][i]
         IN  \/ ClientFails(k) /\ ForgetsBlocks
             \/ /\ ClientDoes(k, [t EXCEPT ![i] = Finished(Completed(l, b, m))], <<Block(5, END)>>)
                /\ CallBack(k) /\ UNCHANGED block
<1>1. RXSTEP_INIT # RXSTEP_END /\ RXSTEP_STARTED # RXSTEP_END
  BY DEF RXSTEP_INIT, RXSTEP_STARTED, RXSTEP_END
<1> QED BY <1>1 DEF ClientBlockUpload, ClientBlockFails

\* The end of an upload in blocks.
LEMMA ClientIsServed ==
  ASSUME Ordered, NEW k \in Conns, ClientDispatches(k), ClientBlockUpload(k), req[k] = <<>>,
         NEW c, AtBlocks(k, c), c.state = BLOCK_UPLOAD,
         NEW y, ServerParties(k) = {y}, y.state = BLOCK_UPLOAD,
         ServedTo(served[k], c, UPLOAD, y.data),
         NEW m, resp[k] = <<m>>, m.n = y.endfield, HasLast(y, c)
  PROVE  Ordered'
<1> DEFINE t == transfers[client[k]]
           i == ClientLine(k)
           e == t[i]
           l == RestartTimer(e)
           b == block[client[k]][i]
           d == Completed(l, b, m)
           g == Finished(d)
           w == <<Block(5, END)>>
<1>1. /\ i # NoLine /\ DOMAIN b = BlockFields /\ e.state \in InProgress
      /\ Party(l, b) = c /\ DOMAIN l = Fields /\ e.state = BLOCK_UPLOAD /\ b.rxstep = c.rxstep
      /\ DOMAIN e = Fields
  BY ExchangeOf, ClientIsParty DEF AtBlocks
<1>2. b.rxstep = RXSTEP_END
  BY <1>1 DEF HasLast
<1>3. Head(resp[k]) = m /\ Tail(resp[k]) = <<>>
  BY OneFrame
<1>4. \/ ClientFails(k) /\ ForgetsBlocks
      \/ ClientDoes(k, [t EXCEPT ![i] = g], w) /\ CallBack(k) /\ UNCHANGED block
  BY <1>1, <1>2, <1>3, ClientUploadEnds
<1>5. \A x \in ServerParties(k) : x.state # BLOCK_DOWNLOAD
  BY BlockStatesDiffer
<1>6. CASE ClientFails(k) /\ ForgetsBlocks
  BY <1>3, <1>5, <1>6, ClientGivesUp
<1>7. CASE ClientDoes(k, [t EXCEPT ![i] = g], w) /\ CallBack(k) /\ UNCHANGED block
  <2>1. Assembled(d) = y.data /\ d.data = y.data /\ d.count = 0
    <3> HIDE DEF l, b
    <3> QED BY <1>1, LastIsWhole
  <2>2. Ends(e, g) /\ g.data = d.data /\ g.count = d.count /\ g.offset = d.offset
    <3>1. /\ DOMAIN l = Fields /\ l.CliServNbr = e.CliServNbr /\ l.whoami = e.whoami
      <4> HIDE DEF e
      <4> QED BY <1>1, TimerIsNotSeen DEF e
    <3>2. e.state # RESET
      BY <1>1, BlockStatesDiffer
    <3> HIDE DEF l, e, b
    <3> QED BY <3>1, <3>2, StatesDiffer
            DEF Ends, Owned, Fields, Finished, StopTimer, Completed, SDOtoLine
  <2> HIDE DEF g, d, l, b
  <2>3. Assembled(g) = y.data
    BY <2>1, <2>2 DEF Assembled
  <2>4. ForUpload(c, Asked(k), calls[k])
    BY BlockStatesDiffer DEF AtBlocks, ForDownload, ForUpload
  <2>5. served[k] = [op |-> Asked(k).op, index |-> Asked(k).index, value |-> Assembled(g)]
    BY <2>3, <2>4 DEF ServedTo, ForUpload
  <2> HIDE DEF i
  <2> QED BY <1>1, <1>3, <1>7, <2>2, <2>5, ClientFinishesOrdered DEF i, e
<1> QED BY <1>4, <1>6, <1>7

\* A client at a transfer in blocks.
LEMMA ClientBlocksOrdered ==
  ASSUME Ordered, NEW k \in Conns, ClientDispatches(k), resp[k] # <<>>,
         NEW c, ClientParties(k) = {c},
         InBlocks(c, ServerParties(k), req[k], resp[k], Asked(k), served[k], calls[k], losses)
  PROVE  Ordered'
<1> DEFINE S == ServerParties(k)
           q == req[k]
           p == resp[k]
           m == Head(p)
<1>1. Settled
  BY ExchangeOf
<1>2. AtBlocks(k, c) /\ q = <<>>
  BY BlocksToClient DEF AtBlocks
<1>3. CASE Refused(S, q, p)
  BY <1>2, <1>3, ClientIsRefused
<1>4. c.state = BLOCK_DOWNLOAD => ~ClientReadsData(k)
  <2>1. c.state = BLOCK_DOWNLOAD => ~\E x : ClientParties(k) = {x} /\ x.state = BLOCK_UPLOAD
    BY BlockStatesDiffer
  <2>2. c.state = BLOCK_DOWNLOAD => ~Started(transfers[client[k]], k, CLIENT, BLOCK_UPLOAD)
    BY <1>1, <2>1, ClientIsAt
  <2> QED BY <2>2 DEF ClientReadsData
<1>5. CASE c.state = BLOCK_DOWNLOAD /\ DownloadConfirmed(S, q, p, c, served[k])
  <2>1. PICK f : p = <<f>> /\ f.cs = 5 /\ f.sub = END
    BY <1>5 DEF DownloadConfirmed
  <2>2. m = f
    BY <2>1, OneFrame
  <2>3. ClientEndsBlockDownload(k)
    BY <1>4, <1>5, <2>1, <2>2, ClientHandlers
  <2> QED BY <1>2, <1>5, <2>3, ClientIsConfirmedOrdered
<1>6. ASSUME NEW x, S = {x}, c.state = BLOCK_DOWNLOAD, x.state = BLOCK_DOWNLOAD,
             x.index = c.index, NEW f, p = <<f>>, f.cs = 5,
             \/ f.sub = INITIATE /\ f.n = SDO_BLOCK_SIZE /\ Fresh(c, x)
             \/ Heard(c, x, f)
      PROVE  Ordered'
  <2>1. m = f
    BY <1>6, OneFrame
  <2>2. f.sub # END
    BY <1>6, FramesDiffer DEF Heard
  <2>3. ClientBlockDownload(k)
    BY <1>4, <1>6, <2>1, <2>2, ClientHandlers
  <2> QED BY <1>2, <1>6, <2>3, ClientSendsOrdered
<1>7. ASSUME NEW y, S = {y}, c.state = BLOCK_UPLOAD, y.state = BLOCK_UPLOAD,
             ServedTo(served[k], c, UPLOAD, y.data),
             \/ /\ \E f : p = <<f>> /\ f.cs = 6 /\ f.sub = INITIATE /\ f.n = y.count
                /\ Producer(y) /\ y.offset = 0 /\ y.blksize = SDO_BLOCK_SIZE
                /\ c.offset = 0 /\ c.seqno = 0 /\ c.data # Mixed
                /\ c.rxstep = RXSTEP_INIT
             \/ Flows(y, c, p)
             \/ \E f : /\ p = <<f>> /\ f.cs = 6 /\ f.sub = END /\ f.n = y.endfield
                       /\ HasLast(y, c)
      PROVE  Ordered'
  <2>1. Started(transfers[client[k]], k, CLIENT, BLOCK_UPLOAD)
    BY <1>1, <1>7, ClientIsAt
  <2>2. m # Abort
    <3>1. ASSUME NEW f, p = <<f>>, f.cs = 6 PROVE m # Abort
      BY <3>1, OneFrame, FramesDiffer
    <3>2. Flows(y, c, p) => m # Abort
      BY FirstOfFlow
    <3> QED BY <1>7, <3>1, <3>2
  <2>3. ClientReadsData(k)
    BY <2>1, <2>2 DEF ClientReadsData
  <2>4. ClientBlockUpload(k)
    BY <2>3, ClientHandlers
  <2>5. ASSUME NEW f, p = <<f>>, f.cs = 6, f.sub = END, f.n = y.endfield, HasLast(y, c)
        PROVE  Ordered'
    BY <1>2, <1>7, <2>4, <2>5, ClientIsServed
  <2> QED BY <1>2, <1>7, <2>4, <2>5, ClientReceivesOrdered
<1> HIDE DEF q, p, S, m
<1>8. \/ Refused(S, q, p)
      \/ c.state = BLOCK_DOWNLOAD /\ DownloadConfirmed(S, q, p, c, served[k])
      \/ \E x : /\ S = {x} /\ c.state = BLOCK_DOWNLOAD /\ x.state = BLOCK_DOWNLOAD
                /\ x.index = c.index
                /\ \E f : /\ p = <<f>> /\ f.cs = 5
                          /\ \/ f.sub = INITIATE /\ f.n = SDO_BLOCK_SIZE /\ Fresh(c, x)
                             \/ Heard(c, x, f)
      \/ \E y : /\ S = {y} /\ c.state = BLOCK_UPLOAD /\ y.state = BLOCK_UPLOAD
                /\ ServedTo(served[k], c, UPLOAD, y.data)
                /\ \/ /\ \E f : p = <<f>> /\ f.cs = 6 /\ f.sub = INITIATE /\ f.n = y.count
                      /\ Producer(y) /\ y.offset = 0 /\ y.blksize = SDO_BLOCK_SIZE
                      /\ c.offset = 0 /\ c.seqno = 0 /\ c.data # Mixed
                      /\ c.rxstep = RXSTEP_INIT
                   \/ Flows(y, c, p)
                   \/ \E f : /\ p = <<f>> /\ f.cs = 6 /\ f.sub = END /\ f.n = y.endfield
                             /\ HasLast(y, c)
  BY BlocksToClient DEF q, p, S
<1> QED BY <1>3, <1>5, <1>6, <1>7, <1>8

\* Any step of a client.
LEMMA ClientStepOrdered ==
  ASSUME Ordered, NEW k \in Conns, ClientDispatches(k)
  PROVE  Ordered'
<1>1. resp[k] # <<>>
  BY DEF ClientDispatches, ClientHandles, ClientInitiateDownload, ClientDownloadSegment,
         ClientInitiateUpload, ClientUploadSegment, ClientAbort, ClientGets,
         ClientBlockDownload, ClientEndsBlockDownload, ClientBlockUpload, ClientGetsBlock
<1> QED BY <1>1, ExchangeOf, ClientPlainly, ClientBlocksOrdered DEF Exchange

-----------------------------------------------------------------------------
(***************************************************************************)
(* Watchdogs, results and lost frames.                                     *)
(***************************************************************************)
LEMMA MindsItsOwn ==
  ASSUME Ordered, NEW k \in Conns, requests' = requests, served' = served, od' = od,
         OthersWait(k), calls' = calls \/ CallBack(k), ForgetsBlocks,
         losses' \in Nat, losses <= losses'
  PROVE  Minds(k) /\ Asked(k)' = Asked(k)
<1>1. DOMAIN calls' = Conns /\ \A h \in Conns \ {k} : calls'[h] = calls[h]
  <2>1. DOMAIN calls = Conns
    BY DEF Ordered, Wires
  <2> QED BY <2>1 DEF CallBack
<1>2. Wires'
  BY <1>1 DEF Ordered, Wires, OthersWait
<1>3. FreeLinesForget'
  BY ForgottenIsForgotten DEF Ordered
<1>4. Minds(k)
  BY <1>1, <1>2, <1>3, WholeStays DEF Minds
<1> QED BY <1>4 DEF Asked

\* Nothing is in flight: the client may be gone.
LEMMA ClientTimesOut ==
  ASSUME NEW C, NEW S, NEW r, NEW s, NEW n, NEW l \in Nat, NEW n2,
         Exchange(C, S, <<>>, <<>>, r, s, n, l)
  PROVE  Exchange({}, S, <<Abort>>, <<>>, r, s, n2, l)
<1> DEFINE w == <<Abort>>
<1>1. w # <<>> /\ Head(w) = Abort /\ Cleared(w) /\ Abort # Block(5, END)
  BY FramesDiffer DEF Cleared, Closing
<1>2. Stale(S, w, l)
  <2>1. CASE InSegments(C, S, <<>>, <<>>, r, s, n, l)
    BY <2>1 DEF InSegments, Stale
  <2>2. ASSUME NEW c, InBlocks(c, S, <<>>, <<>>, r, s, n, l) PROVE Stale(S, w, l)
    <3>1. \A p, x : ~Flows(p, x, <<>>)
      BY FirstOfFlow
    <3>2. \A m : ~Begun(<<>>, m)
      BY DEF Begun
    <3>3. Silent(S, <<>>, <<>>, c, l)
      BY <2>2, <3>1, <3>2 DEF InBlocks, BlockAsks, Refused, DownloadConfirmed, DownloadGoesOn,
                              UploadGoesOn
    <3> HIDE DEF w
    <3> QED BY <1>1, <3>3 DEF Silent, Stale
  <2> QED BY <2>1, <2>2 DEF Exchange
<1> HIDE DEF w
<1>3. Dialogue({}, {Shown(x) : x \in S}, w, <<>>, r, s, n2, TRUE)
  BY <1>1 DEF Dialogue
<1>4. {Shown(c) : c \in {}} = {}
  OBVIOUS
<1>5. InSegments({}, S, w, <<>>, r, s, n2, l)
  BY <1>1, <1>2, <1>3, <1>4 DEF InSegments, Ahead
<1> QED BY <1>5 DEF Exchange, w

\* Nothing is in flight: the server may be gone.
LEMMA ServerTimesOut ==
  ASSUME NEW C, NEW S, NEW r, NEW s, NEW n, NEW l \in Nat,
         Exchange(C, S, <<>>, <<>>, r, s, n, l)
  PROVE  Exchange(C, {}, <<>>, <<Abort>>, r, s, n, l)
<1> DEFINE w == <<Abort>>
           D == {Shown(c) : c \in C}
<1>1. w # <<>> /\ Head(w) = Abort /\ Abort.cs = 4
  BY FramesDiffer
<1>2. CASE InSegments(C, S, <<>>, <<>>, r, s, n, l)
  <2>1. \A c \in D : InTune(c, r, s, n)
    BY <1>2 DEF InSegments, Dialogue
  <2>2. \A c : ResponseFits(Abort, c, {}, s)
    BY <1>1 DEF ResponseFits
  <2>3. Answering(Abort, D, {}, <<>>, w, s)
    BY <2>2 DEF Answering
  <2> HIDE DEF D, w
  <2>4. Dialogue(D, {}, <<>>, w, r, s, n, TRUE)
    BY <2>1, <2>3 DEF Dialogue
  <2>5. {Shown(c) : c \in {}} = {}
    OBVIOUS
  <2>6. Stale({}, <<>>, l) /\ Ahead({}, <<>>)
    BY DEF Stale, Ahead
  <2>7. \A c \in C : c.state \notin {BLOCK_DOWNLOAD, BLOCK_UPLOAD}
    BY <1>2 DEF InSegments
  <2>8. w # <<>> => Head(w).cs \in 0 .. 4
    BY <1>1
  <2>9. Dialogue({Shown(c) : c \in C}, {Shown(x) : x \in {}}, <<>>, w, r, s, n, TRUE)
    BY <2>4, <2>5 DEF D
  <2>10. InSegments(C, {}, <<>>, w, r, s, n, l)
    BY <2>6, <2>7, <2>8, <2>9 DEF InSegments
  <2> QED BY <2>10 DEF Exchange, w
<1>3. ASSUME NEW c, C = {c}, InBlocks(c, S, <<>>, <<>>, r, s, n, l)
      PROVE  Exchange(C, {}, <<>>, <<Abort>>, r, s, n, l)
  <2>1. InBlocks(c, {}, <<>>, w, r, s, n, l)
    BY <1>3 DEF InBlocks, Refused
  <2> QED BY <1>3, <2>1 DEF Exchange
<1> QED BY <1>2, <1>3 DEF Exchange

LEMMA AlarmOrdered ==
  ASSUME Ordered, ~LateAnswers, NEW n \in Nodes, NEW i \in Lines, Elapses(n, i)
  PROVE  Ordered'
<1>0. PICK k : k = transfers[n][i].CliServNbr
  OBVIOUS
<1>1. /\ SDOTimeoutAlarm(n, i) /\ ForgetsBlocks /\ Settled /\ od' = od /\ requests' = requests
      /\ served' = served /\ losses' = losses /\ losses \in Nat
  BY ExchangeOf DEF Elapses, SDOTimeoutAlarm, userVars, faultVars, Ordered
<1>2. LineInvariant'
  BY <1>1, TimeoutKeeps DEF Settled
<1>3. CASE n \notin HasClientEntry
  <2>1. k \in Conns /\ Acts(k, ClientParties(k), ServerParties(k), req[k], resp[k])
    BY <1>1, <1>2, <1>3, <1>0, LateAlarmActs
  <2>2. calls' = calls
    BY <1>1, <1>3 DEF SDOTimeoutAlarm
  <2>3. OthersWait(k)
    BY <2>1 DEF Acts
  <2>4. Minds(k) /\ Asked(k)' = Asked(k)
    BY <1>1, <2>1, <2>2, <2>3, MindsItsOwn
  <2>5. Exchange(ClientParties(k), ServerParties(k), req[k], resp[k], Asked(k), served[k],
                 calls[k], losses)
    BY <2>1, ExchangeOf
  <2>6. Exchange(ClientParties(k), ServerParties(k), req[k], resp[k], Asked(k)', served'[k],
                 calls'[k], losses')
    BY <1>1, <2>2, <2>4, <2>5
  <2> QED BY <2>1, <2>4, <2>6, ActsOrdered
<1>4. CASE n \in HasClientEntry
  <2>1. /\ k \in Conns /\ req[k] = <<>> /\ resp[k] = <<>>
        /\ \/ Acts(k, {}, ServerParties(k), <<Abort>>, <<>>) /\ CallBack(k)
           \/ Acts(k, ClientParties(k), {}, <<>>, <<Abort>>) /\ calls' = calls
    BY <1>1, <1>2, <1>4, <1>0, AlarmActs
  <2>2. Exchange(ClientParties(k), ServerParties(k), <<>>, <<>>, Asked(k), served[k], calls[k],
                 losses)
    BY <2>1, ExchangeOf
  <2>3. CASE Acts(k, {}, ServerParties(k), <<Abort>>, <<>>) /\ CallBack(k)
    <3>1. OthersWait(k)
      BY <2>3 DEF Acts
    <3>2. Minds(k) /\ Asked(k)' = Asked(k)
      BY <1>1, <2>1, <2>3, <3>1, MindsItsOwn
    <3>3. Exchange({}, ServerParties(k), <<Abort>>, <<>>, Asked(k), served[k], calls'[k], losses)
      BY <1>1, <2>2, ClientTimesOut
    <3>4. Exchange({}, ServerParties(k), <<Abort>>, <<>>, Asked(k)', served'[k], calls'[k],
                   losses')
      BY <1>1, <3>2, <3>3
    <3> QED BY <2>1, <2>3, <3>2, <3>4, ActsOrdered
  <2>4. CASE Acts(k, ClientParties(k), {}, <<>>, <<Abort>>) /\ calls' = calls
    <3>1. OthersWait(k)
      BY <2>4 DEF Acts
    <3>2. Minds(k) /\ Asked(k)' = Asked(k)
      BY <1>1, <2>1, <2>4, <3>1, MindsItsOwn
    <3>3. Exchange(ClientParties(k), {}, <<>>, <<Abort>>, Asked(k), served[k], calls[k], losses)
      BY <1>1, <2>2, ServerTimesOut
    <3>4. Exchange(ClientParties(k), {}, <<>>, <<Abort>>, Asked(k)', served'[k], calls'[k],
                   losses')
      BY <1>1, <2>4, <3>2, <3>3
    <3> QED BY <2>1, <2>4, <3>2, <3>4, ActsOrdered
  <2> QED BY <2>1, <2>3, <2>4
<1> QED BY <1>3, <1>4

\* A client at rest leaves.
LEMMA ClientLeaves ==
  ASSUME NEW C, NEW S, NEW q, NEW p, NEW r, NEW s, NEW n, NEW l,
         Exchange(C, S, q, p, r, s, n, l), \A c \in C : c.state \notin InProgress
  PROVE  Exchange({}, S, q, p, r, s, n, l)
<1> DEFINE D == {Shown(c) : c \in C}
           N == {Shown(x) : x \in S}
<1>1. InSegments(C, S, q, p, r, s, n, l)
  BY BlockStatesDiffer DEF Exchange, InBlocks, ForDownload, ForUpload
<1>2. \A c \in D : ~Waits(c)
  <2>1. \A c \in C : Shown(c).state = c.state
    BY DEF Shown
  <2>2. \A c \in C : ~Waits(Shown(c))
    BY <2>1 DEF Waits, InProgress
  <2> QED BY <2>2
<1>3. Dialogue(D, N, q, p, r, s, n, TRUE)
  BY <1>1 DEF InSegments
<1> HIDE DEF D, N
<1>4. Dialogue({}, N, q, p, r, s, n, TRUE)
  BY <1>2, <1>3, DialogueFewer
<1>5. {Shown(c) : c \in {}} = {}
  OBVIOUS
<1>6. InSegments({}, S, q, p, r, s, n, l)
  BY <1>1, <1>4, <1>5 DEF InSegments, N
<1> QED BY <1>6 DEF Exchange

LEMMA ResultOrdered ==
  ASSUME Ordered, NEW k \in Conns, GetResult(k), ForgetsBlocks
  PROVE  Ordered'
<1>1. /\ Acts(k, {}, ServerParties(k), req[k], resp[k])
      /\ \A c \in ClientParties(k) : c.state \notin InProgress
  BY ExchangeOf, ResultActs
<1>2. /\ requests' = requests /\ served' = served /\ od' = od /\ calls' = calls
      /\ losses' = losses /\ losses \in Nat
  BY DEF GetResult, faultVars, Ordered
<1>3. Minds(k) /\ Asked(k)' = Asked(k)
  BY <1>1, <1>2, MindsItsOwn DEF Acts
<1>4. Exchange({}, ServerParties(k), req[k], resp[k], Asked(k), served[k], calls[k], losses)
  BY <1>1, ExchangeOf, ClientLeaves
<1> QED BY <1>1, <1>2, <1>3, <1>4, ActsOrdered

-----------------------------------------------------------------------------
(***************************************************************************)
(* A transfer starts.                                                      *)
(***************************************************************************)
\* Request r of a client c begins with frame f.
PlainRequest(c, f, r, n) ==
  /\ f.cs \in {1, 2} /\ Waits(c) /\ InTune(Shown(c), r, NoRequest, n)
  /\ \A S : RequestFits(f, Shown(c), S, NoRequest)

FirstRequest(c, f, r, n) ==
  \/ PlainRequest(c, f, r, n)
  \/ BlockRequest(c, f) /\ (ForDownload(c, r, n) \/ ForUpload(c, r, n))

LEMMA NobodyAsks ==
  ASSUME NEW S, NEW q, NEW r, NEW s, NEW n, NEW l, Exchange({}, S, q, <<>>, r, s, n, l)
  PROVE  Cleared(q) /\ Stale(S, q, l) /\ Ahead(S, q)
<1>1. InSegments({}, S, q, <<>>, r, s, n, l)
  BY DEF Exchange
<1>2. {Shown(c) : c \in {}} = {}
  OBVIOUS
<1> DEFINE N == {Shown(x) : x \in S}
<1>3. Dialogue({}, N, q, <<>>, r, s, n, TRUE)
  BY <1>1, <1>2 DEF InSegments
<1> HIDE DEF N
<1>4. Cleared(q)
  BY <1>3 DEF Dialogue, Asking, Answering
<1> QED BY <1>1, <1>4 DEF InSegments

\* Frame f has been sent behind those of q.
SentBehind(w, q, f) ==
  /\ Begun(w, f) /\ w # <<>>
  /\ q # <<>> => Head(w) = Head(q)
  /\ q = <<>> => Head(w) = f

LEMMA BehindWhatCloses ==
  ASSUME NEW q, Cleared(q), NEW f
  PROVE  SentBehind(Append(q, f), q, f)
<1> DEFINE w == Append(q, f)
<1>1. CASE q = <<>>
  <2>1. w = <<f>>
    BY <1>1
  <2> HIDE DEF w
  <2>2. w # <<>> /\ Head(w) = f
    BY <2>1
  <2> QED BY <1>1, <2>1, <2>2 DEF Begun, SentBehind, w
<1>2. ASSUME NEW x \in Closing, q = <<x>>
      PROVE  Begun(w, f) /\ w # <<>> /\ Head(w) = Head(q) /\ q # <<>>
  <2>1. w = <<x, f>>
    BY <1>2, AppendToOne
  <2>2. <<x, f>> # <<>> /\ Head(<<x, f>>) = x /\ Head(<<x>>) = x /\ <<x>> # <<>>
    OBVIOUS
  <2> QED BY <1>2, <2>1, <2>2 DEF Begun
<1>3. \/ q = <<>>
      \/ \E x \in Closing : q = <<x>>
  BY DEF Cleared
<1> QED BY <1>1, <1>2, <1>3 DEF SentBehind

LEMMA FirstIsAsked ==
  ASSUME NEW B, B = {}, NEW S, NEW q, NEW r, NEW s, NEW n, NEW l,
         Exchange(B, S, q, <<>>, r, s, n, l),
         NEW c, NEW C, C = {c}, NEW f, NEW r2, NEW z, FirstRequest(c, f, r2, z),
         NEW w, SentBehind(w, q, f)
  PROVE  Exchange(C, S, w, <<>>, r2, NoRequest, z, l)
<1>1. Cleared(q) /\ Stale(S, q, l) /\ Ahead(S, q) /\ \A x \in S : StepFits(x)
  BY NobodyAsks DEF Exchange
<1>2. /\ Begun(w, f) /\ w # <<>>
      /\ q # <<>> => Head(w) = Head(q)
      /\ q = <<>> => Head(w) = f
  BY DEF SentBehind
<1>3. f # Block(5, END)
  <2>1. Block(5, END).cs = 5 /\ Block(5, END).sub = END /\ END # INITIATE
    BY DEF Block, Frame, END, INITIATE
  <2> QED BY <2>1 DEF FirstRequest, PlainRequest, BlockRequest
<1>4. Stale(S, w, l) /\ Ahead(S, w)
  BY <1>1, <1>2, <1>3 DEF Stale, Ahead
<1>5. ASSUME PlainRequest(c, f, r2, z)
      PROVE  Exchange(C, S, w, <<>>, r2, NoRequest, z, l)
  <2> DEFINE D == {Shown(c)}
             N == {Shown(x) : x \in S}
  <2>1. Waits(Shown(c))
    BY <1>5 DEF PlainRequest, Waits, Shown
  <2> HIDE DEF N
  <2>2. Asking(f, D, N, w, <<>>, NoRequest, TRUE)
    BY <1>2, <1>5, <2>1 DEF PlainRequest, Asking, Begun
  <2>3. Dialogue(D, N, w, <<>>, r2, NoRequest, z, TRUE)
    BY <1>5, <2>2 DEF PlainRequest, Dialogue
  <2>4. {Shown(x) : x \in C} = D
    OBVIOUS
  <2>5. \A x \in C : x.state \notin {BLOCK_DOWNLOAD, BLOCK_UPLOAD}
    BY <1>5, BlockStatesDiffer DEF PlainRequest, Waits
  <2> HIDE DEF D
  <2>6. InSegments(C, S, w, <<>>, r2, NoRequest, z, l)
    BY <1>4, <2>3, <2>4, <2>5 DEF InSegments, N
  <2> QED BY <1>1, <2>6 DEF Exchange
<1>6. ASSUME BlockRequest(c, f), ForDownload(c, r2, z) \/ ForUpload(c, r2, z)
      PROVE  Exchange(C, S, w, <<>>, r2, NoRequest, z, l)
  <2>1. BlockAsks(S, w, <<>>, c, l)
    BY <1>2, <1>4, <1>6 DEF BlockAsks
  <2>2. InBlocks(c, S, w, <<>>, r2, NoRequest, z, l)
    BY <1>6, <2>1 DEF InBlocks
  <2> QED BY <1>1, <2>2 DEF Exchange
<1> QED BY <1>5, <1>6 DEF FirstRequest

LEMMA StartCalls ==
  ASSUME Ordered, NEW k \in Conns, NEW r, NEW l, NEW f, Starts(k, r, l, f)
  PROVE  calls'[k] = 0
BY DEF Ordered, Wires, Starts

LEMMA StartOrdered ==
  ASSUME Ordered, ~LateAnswers, BlocksKept', NEW k \in Conns, NEW r, NEW l, NEW f,
         Starts(k, r, l, f), DOMAIN l = Fields, l.CliServNbr = k, l.whoami = CLIENT,
         l.state \in InProgress, l.timer \in Watchdogs,
         BlocksStay(client[k], getSDOfreeLine(transfers[client[k]])),
         block' = block \/ \E n : StartsBlock(k, n),
         NEW c, c = Party(l, block'[client[k]][getSDOfreeLine(transfers[client[k]])]),
         FirstRequest(c, f, r, calls'[k])
  PROVE  Ordered'
<1> DEFINE S == ServerParties(k)
           w == Append(req[k], f)
           C == {c}
           B == {}
<1>1. Settled /\ losses \in Nat /\ Wires /\ FreeLinesForget
  BY DEF Ordered
<1>2. Acts(k, {c}, S, w, <<>>) /\ ClientParties(k) = {} /\ resp[k] = <<>>
  BY <1>1, StartsActs
<1>3. /\ requests' = [requests EXCEPT ![k] = Append(@, r)]
      /\ calls' = [calls EXCEPT ![k] = 0] /\ served' = [served EXCEPT ![k] = NoRequest]
      /\ od' = od /\ losses' = losses
  BY DEF Starts, faultVars
<1>4. Asked(k)' = r /\ IsSequence(requests'[k])
  <2>1. PICK X : requests[k] \in Seq(X)
    BY <1>1 DEF Wires, IsSequence
  <2>2. requests'[k] = Append(requests[k], r)
    BY <1>1, <1>3 DEF Wires
  <2>3. requests[k] \in Seq(X \cup {r})
    BY <2>1
  <2>4. /\ requests'[k] \in Seq(X \cup {r}) /\ requests'[k] # <<>>
        /\ requests'[k][Len(requests'[k])] = r
    BY <2>2, <2>3
  <2> QED BY <2>4 DEF Asked, IsSequence
<1>5. /\ served'[k] = NoRequest /\ calls'[k] = 0
      /\ \A h \in Conns \ {k} :
           requests'[h] = requests[h] /\ served'[h] = served[h] /\ calls'[h] = calls[h]
  BY <1>1, <1>3 DEF Wires
<1>6. Wires'
  <2>1. DOMAIN req' = Conns /\ DOMAIN resp' = Conns
    BY <1>1 DEF Starts, Wires
  <2>2. \A h \in Conns : IsSequence(requests'[h])
    BY <1>1, <1>4, <1>5 DEF Wires
  <2> QED BY <1>1, <1>3, <2>1, <2>2 DEF Wires
<1>7. FreeLinesForget'
  <2>1. l.state # RESET
    BY StatesDiffer, BlockStatesDiffer DEF InProgress
  <2> QED BY <1>1, <2>1, StartForgets
<1>8. Minds(k)
  BY <1>1, <1>3, <1>5, <1>6, <1>7, WholeStays DEF Minds
<1>9. Exchange(B, S, req[k], <<>>, Asked(k), served[k], calls[k], losses)
  BY <1>2, ExchangeOf
<1>10. Cleared(req[k])
  BY <1>9, NobodyAsks
<1>11. B = {} /\ C = {c} /\ SentBehind(w, req[k], f) /\ Acts(k, C, S, w, <<>>)
  BY <1>2, <1>10, BehindWhatCloses
<1> HIDE DEF S, B, C, w
<1>12. Exchange(C, S, w, <<>>, r, NoRequest, calls'[k], losses)
  BY <1>5, <1>9, <1>11, FirstIsAsked
<1>13. Exchange(C, S, w, <<>>, Asked(k)', served'[k], calls'[k], losses')
  BY <1>3, <1>4, <1>5, <1>12
<1> QED BY <1>8, <1>11, <1>13, ActsOrdered

LEMMA WriteOrdered ==
  ASSUME Ordered, ~LateAnswers, NEW k \in Conns, NEW index \in Indexes, NEW v \in Values,
         writeNetworkDict(k, index, v), UNCHANGED block
  PROVE  Ordered'
<1> DEFINE expedited == Size[v] <= EXPEDITED
           r == [op |-> DOWNLOAD, index |-> index, value |-> v]
           l(w) == [InitLine(CLIENT, k, index, DOWNLOAD, w)
                    EXCEPT !.count = Size[v], !.data = v,
                           !.offset = IF expedited THEN Size[v] ELSE 0]
           f == [Frame(1) EXCEPT !.index = index, !.last = expedited, !.n = Size[v],
                                 !.data = IF expedited THEN v ELSE Nothing]
<1>1. PICK w \in Watchdogs : Starts(k, r, l(w), f)
  BY DEF writeNetworkDict
<1> DEFINE line == l(w)
           i == getSDOfreeLine(transfers[client[k]])
<1>2. /\ DOMAIN line = Fields /\ line.CliServNbr = k /\ line.whoami = CLIENT
      /\ line.state = DOWNLOAD /\ line.timer = w /\ line.index = index
      /\ line.count = Size[v] /\ line.data = v
      /\ line.offset = IF expedited THEN Size[v] ELSE 0
  BY DEF InitLine, ResetLine, Fields
<1>3. /\ f.cs = 1 /\ f.index = index /\ (f.last <=> expedited) /\ f.n = Size[v] /\ f.from = 0
      /\ expedited => f.data = v
  BY DEF Frame
<1>4. Size[v] \in Nat \ {0} /\ DOWNLOAD \in InProgress
  BY LineAssumption DEF InProgress
<1>5. r.op = DOWNLOAD /\ r.index = index /\ r.value = v
  OBVIOUS
<1>6. Starts(k, r, line, f)
  BY <1>1
<1>7. PICK c : c = Party(line, block'[client[k]][i])
  OBVIOUS
<1> HIDE DEF line, f, r
<1> DEFINE x == Shown(c)
<1>8. /\ c.state = DOWNLOAD /\ x.state = DOWNLOAD /\ x.index = index /\ x.count = Size[v]
      /\ x.data = v /\ x.offset = IF expedited THEN Size[v] ELSE 0
  BY <1>2, <1>7, PartyIsSeen DEF Shown
<1> HIDE DEF x, expedited
<1>9. InTune(x, r, NoRequest, calls'[k])
  BY <1>4, <1>5, <1>6, <1>8, StartCalls, StatesDiffer DEF InTune, Waits
<1>10. ASSUME NEW S PROVE RequestFits(f, x, S, NoRequest)
  BY <1>3, <1>8 DEF RequestFits
<1>11. FirstRequest(c, f, r, calls'[k])
  BY <1>3, <1>8, <1>9, <1>10 DEF FirstRequest, PlainRequest, Waits, x
<1>12. BlocksKept' /\ BlocksStay(client[k], i)
  BY <1>6, PlainBlocks DEF Ordered
<1> QED BY <1>2, <1>4, <1>6, <1>7, <1>11, <1>12, StartOrdered

LEMMA ReadOrdered ==
  ASSUME Ordered, ~LateAnswers, NEW k \in Conns, NEW index \in Indexes,
         readNetworkDict(k, index), UNCHANGED block
  PROVE  Ordered'
<1> DEFINE r == [op |-> UPLOAD, index |-> index, value |-> Nothing]
           f == [Frame(2) EXCEPT !.index = index]
           i == getSDOfreeLine(transfers[client[k]])
<1>1. PICK w \in Watchdogs : Starts(k, r, InitLine(CLIENT, k, index, UPLOAD, w), f)
  BY DEF readNetworkDict
<1> DEFINE line == InitLine(CLIENT, k, index, UPLOAD, w)
<1>2. /\ DOMAIN line = Fields /\ line.CliServNbr = k /\ line.whoami = CLIENT
      /\ line.state = UPLOAD /\ line.timer = w /\ line.index = index /\ line.offset = 0
  BY DEF InitLine, ResetLine, Fields
<1>3. f.cs = 2 /\ f.index = index
  BY DEF Frame
<1>4. UPLOAD \in InProgress /\ r.op = UPLOAD /\ r.index = index
  BY DEF InProgress
<1>5. Starts(k, r, line, f)
  BY <1>1
<1>6. PICK c : c = Party(line, block'[client[k]][i])
  OBVIOUS
<1> HIDE DEF line, f, r
<1> DEFINE x == Shown(c)
<1>7. c.state = UPLOAD /\ x.state = UPLOAD /\ x.index = index /\ x.offset = 0
  BY <1>2, <1>6, PartyIsSeen DEF Shown
<1> HIDE DEF x
<1>8. InTune(x, r, NoRequest, calls'[k])
  BY <1>4, <1>5, <1>7, StartCalls, StatesDiffer DEF InTune, Waits
<1>9. ASSUME NEW S PROVE RequestFits(f, x, S, NoRequest)
  BY <1>3, <1>7 DEF RequestFits
<1>10. FirstRequest(c, f, r, calls'[k])
  BY <1>3, <1>7, <1>8, <1>9 DEF FirstRequest, PlainRequest, Waits, x
<1>11. BlocksKept' /\ BlocksStay(client[k], i)
  BY <1>5, PlainBlocks DEF Ordered
<1> QED BY <1>2, <1>4, <1>5, <1>6, <1>10, <1>11, StartOrdered

LEMMA WriteBlockOrdered ==
  ASSUME Ordered, ~LateAnswers, NEW k \in Conns, NEW index \in Indexes, NEW v \in Values,
         writeNetworkDictBlock(k, index, v)
  PROVE  Ordered'
<1> DEFINE r == [op |-> DOWNLOAD, index |-> index, value |-> v]
           l(w) == [InitLine(CLIENT, k, index, BLOCK_DOWNLOAD, w)
                    EXCEPT !.count = Size[v], !.data = v]
           f == [Block(6, INITIATE) EXCEPT !.index = index, !.n = Size[v]]
           i == getSDOfreeLine(transfers[client[k]])
<1>1. PICK w \in Watchdogs : Starts(k, r, l(w), f)
  BY DEF writeNetworkDictBlock
<1> DEFINE line == l(w)
<1>2. /\ DOMAIN line = Fields /\ line.CliServNbr = k /\ line.whoami = CLIENT
      /\ line.state = BLOCK_DOWNLOAD /\ line.timer = w /\ line.index = index
      /\ line.count = Size[v] /\ line.data = v /\ line.offset = 0
  BY DEF InitLine, ResetLine, Fields
<1>3. f.cs = 6 /\ f.sub = INITIATE /\ f.index = index /\ f.n = Size[v]
  BY DEF Block, Frame
<1>4. Size[v] \in Nat \ {0} /\ Size[v] <= SDO_MAX_LENGTH_TRANSFER
  BY LineAssumption DEF writeNetworkDictBlock
<1>5. Starts(k, r, line, f) /\ StartsBlock(k, Size[v])
  BY <1>1 DEF writeNetworkDictBlock
<1>6. r.op = DOWNLOAD /\ r.index = index /\ r.value = v /\ BLOCK_DOWNLOAD \in InProgress
  BY DEF InProgress
<1>7. PICK c : c = Party(line, block'[client[k]][i])
  OBVIOUS
<1> HIDE DEF line, f, r
<1>8. /\ BlocksKept' /\ BlocksStay(client[k], i)
      /\ block'[client[k]][i] = [NoBlock EXCEPT !.objsize = Size[v]]
  BY <1>5, BlockOfStart DEF Ordered
<1>9. /\ c.state = BLOCK_DOWNLOAD /\ c.index = index /\ c.count = Size[v] /\ c.data = v
      /\ c.offset = 0 /\ c.lastblockoffset = 0
  <2>1. block'[client[k]][i].lastblockoffset = 0
    BY <1>8 DEF NoBlock
  <2> QED BY <1>2, <1>7, <2>1, PartyIsSeen
<1>10. Producer(c)
  <2>1. 0 \in 0 .. Size[v] /\ 0 \in 0 .. 0
    BY <1>4
  <2> QED BY <1>4, <1>9, <2>1 DEF Producer
<1>11. BlockRequest(c, f)
  BY <1>3, <1>9, <1>10 DEF BlockRequest
<1>12. FirstRequest(c, f, r, calls'[k])
  BY <1>5, <1>6, <1>9, <1>11, StartCalls DEF FirstRequest, ForDownload
<1> HIDE DEF i
<1> QED BY <1>2, <1>5, <1>6, <1>7, <1>8, <1>12, StartOrdered DEF i

LEMMA ReadBlockOrdered ==
  ASSUME Ordered, ~LateAnswers, NEW k \in Conns, NEW index \in Indexes,
         readNetworkDictBlock(k, index)
  PROVE  Ordered'
<1> DEFINE r == [op |-> UPLOAD, index |-> index, value |-> Nothing]
           f == [Block(5, INITIATE) EXCEPT !.index = index, !.n = SDO_BLOCK_SIZE]
           i == getSDOfreeLine(transfers[client[k]])
<1>1. PICK w \in Watchdogs : Starts(k, r, InitLine(CLIENT, k, index, BLOCK_UPLOAD, w), f)
  BY DEF readNetworkDictBlock
<1> DEFINE line == InitLine(CLIENT, k, index, BLOCK_UPLOAD, w)
<1>2. /\ DOMAIN line = Fields /\ line.CliServNbr = k /\ line.whoami = CLIENT
      /\ line.state = BLOCK_UPLOAD /\ line.timer = w /\ line.index = index
      /\ line.offset = 0 /\ line.count = 0 /\ line.data = Nothing
  BY DEF InitLine, ResetLine, Fields
<1>3. f.cs = 5 /\ f.sub = INITIATE /\ f.n = SDO_BLOCK_SIZE /\ f.index = index
  BY DEF Block, Frame
<1>4. BLOCK_UPLOAD \in InProgress /\ r.op = UPLOAD /\ r.index = index /\ Nothing # Mixed
  BY LineAssumption DEF InProgress
<1>5. Starts(k, r, line, f) /\ StartsBlock(k, 0)
  BY <1>1 DEF readNetworkDictBlock
<1>6. PICK c : c = Party(line, block'[client[k]][i])
  OBVIOUS
<1> HIDE DEF line, f, r
<1>7. /\ BlocksKept' /\ BlocksStay(client[k], i)
      /\ block'[client[k]][i].rxstep = RXSTEP_INIT /\ block'[client[k]][i].seqno = 0
  BY <1>5, BlockOfStart DEF Ordered
<1>8. /\ c.state = BLOCK_UPLOAD /\ c.index = index /\ c.offset = 0 /\ c.count = 0
      /\ c.data = Nothing /\ c.rxstep = RXSTEP_INIT /\ c.seqno = 0
  BY <1>2, <1>6, <1>7, PartyIsSeen
<1>9. BlockRequest(c, f)
  BY <1>3, <1>4, <1>8 DEF BlockRequest
<1>10. FirstRequest(c, f, r, calls'[k])
  BY <1>4, <1>5, <1>8, <1>9, StartCalls DEF FirstRequest, ForUpload
<1> HIDE DEF i
<1> QED BY <1>2, <1>4, <1>5, <1>6, <1>7, <1>10, StartOrdered DEF i

-----------------------------------------------------------------------------
(***************************************************************************)
(* A frame gets lost.                                                      *)
(***************************************************************************)
LEMMA FlowGoesOn ==
  ASSUME NEW p, NEW x, NEW w, Flows(p, x, w), Tail(w) # <<>>
  PROVE  Flows(p, x, Tail(w))
<1>1. /\ Consumer(p, x) /\ x.rxstep = RXSTEP_STARTED
      /\ x.offset = p.lastblockoffset + SEGMENT * x.seqno
      /\ x.seqno \in 0 .. p.seqno - Len(w)
  BY DEF Flows
<1>2. Len(w) \in Nat /\ p.seqno \in Nat
  BY FirstOfFlow, BlockSent DEF Flows
<1>3. x.seqno \in 0 .. p.seqno - Len(w) + 1
  BY <1>1, <1>2
<1> QED BY <1>1, <1>3, FlowShortens

\* Of a block on its way to x nothing is in flight any more.
LEMMA BecomesSilent ==
  ASSUME NEW c, NEW S, NEW x, S = {x}, NEW l2 \in Nat, l2 >= 1,
         \/ /\ c.state = BLOCK_DOWNLOAD /\ x.state = BLOCK_DOWNLOAD
            /\ Sound(x) /\ Covers(c, x)
         \/ c.state = BLOCK_UPLOAD /\ x.state = BLOCK_UPLOAD /\ Covers(x, c)
  PROVE  Silent(S, <<>>, <<>>, c, l2)
BY BlockStatesDiffer DEF Silent

LEMMA RequestIsLost ==
  ASSUME NEW c, NEW S, NEW q, NEW p, NEW r, NEW s, NEW n, NEW l \in Nat, NEW l2, l2 = l + 1,
         InBlocks(c, S, q, p, r, s, n, l), q # <<>>
  PROVE  InBlocks(c, S, Tail(q), p, r, s, n, l2)
<1> DEFINE w == Tail(q)
<1>1. /\ p = <<>> /\ (ForDownload(c, r, n) \/ ForUpload(c, r, n))
      /\ l2 \in Nat /\ l2 >= 1 /\ (l >= 1 => l2 >= 2)
  BY BlocksToServer
<1>2. \A m : q = <<m>> => w = <<>>
  OBVIOUS
<1> HIDE DEF w
<1>3. ASSUME BlockAsks(S, q, p, c, l) PROVE InBlocks(c, S, w, p, r, s, n, l2)
  <2>1. PICK m : Begun(q, m) /\ BlockRequest(c, m)
    BY <1>3 DEF BlockAsks
  <2>2. \A x \in S : x.state = BLOCK_DOWNLOAD => Sound(x) /\ l >= 1
    BY <1>3 DEF BlockAsks, Stale
  <2>3. CASE q = <<m>>
    <3>1. c.state = BLOCK_DOWNLOAD => c.lastblockoffset = 0
      BY <2>1, BlockStatesDiffer DEF BlockRequest, Producer
    <3>2. \A x : Sound(x) => 0 <= x.offset /\ x.data # Mixed
      BY DEF Sound
    <3>3. c.state = BLOCK_DOWNLOAD => \A x \in S : x.state = BLOCK_DOWNLOAD => Covers(c, x)
      BY <2>2, <3>1, <3>2 DEF Covers
    <3>4. c.state = BLOCK_UPLOAD => \A x : Covers(x, c)
      BY <2>1, BlockStatesDiffer DEF BlockRequest, Covers
    <3>5. Silent(S, w, p, c, l2)
      BY <1>1, <1>2, <2>2, <2>3, <3>3, <3>4 DEF Silent
    <3> QED BY <1>1, <3>5 DEF InBlocks
  <2>4. ASSUME NEW x \in Closing, q = <<x, m>> PROVE InBlocks(c, S, w, p, r, s, n, l2)
    <3>1. w = <<m>> /\ Head(w) = m /\ w # <<>>
      <4>1. Tail(<<x, m>>) = <<m>> /\ Head(<<m>>) = m /\ <<m>> # <<>>
        OBVIOUS
      <4> QED BY <2>4, <4>1 DEF w
    <3>2. Stale(S, w, l2)
      BY <1>1, <2>2 DEF Stale
    <3>3. m # Block(5, END)
      BY <2>1, FramesDiffer DEF BlockRequest
    <3>4. Ahead(S, w)
      BY <3>1, <3>3 DEF Ahead
    <3>5. BlockAsks(S, w, p, c, l2)
      BY <1>1, <2>1, <3>1, <3>2, <3>4 DEF BlockAsks, Begun
    <3> QED BY <1>1, <3>5 DEF InBlocks
  <2> QED BY <2>1, <2>3, <2>4 DEF Begun
<1>4. ASSUME NEW x, S = {x}, c.state = BLOCK_DOWNLOAD, x.state = BLOCK_DOWNLOAD,
             x.index = c.index,
             \/ Flows(c, x, q)
             \/ \E m : q = <<m>> /\ m.cs = 6 /\ m.sub = END /\ m.n = c.endfield /\ HasLast(c, x)
      PROVE  InBlocks(c, S, w, p, r, s, n, l2)
  <2>1. Sound(x) /\ Covers(c, x)
    BY <1>4, NothingMissing
  <2>2. Silent(S, <<>>, <<>>, c, l2)
    BY <1>1, <1>4, <2>1, BecomesSilent
  <2>3. CASE w = <<>>
    BY <1>1, <2>2, <2>3 DEF InBlocks
  <2>4. CASE w # <<>>
    <3>1. Flows(c, x, q)
      BY <1>2, <1>4, <2>4
    <3>2. Flows(c, x, w)
      BY <2>4, <3>1, FlowGoesOn DEF w
    <3>3. DownloadGoesOn(w, p, c, x)
      BY <1>1, <1>4, <3>2 DEF DownloadGoesOn
    <3> QED BY <1>1, <1>4, <3>3 DEF InBlocks
  <2> QED BY <2>3, <2>4
<1>5. ASSUME NEW y, S = {y}, c.state = BLOCK_UPLOAD, y.state = BLOCK_UPLOAD, NEW m, q = <<m>>,
             Fresh(y, c) \/ Heard(y, c, m)
      PROVE  InBlocks(c, S, w, p, r, s, n, l2)
  <2>1. Covers(y, c)
    BY <1>5, NothingMissing
  <2>2. Silent(S, <<>>, <<>>, c, l2)
    BY <1>1, <1>5, <2>1, BecomesSilent
  <2> QED BY <1>1, <1>2, <1>5, <2>2 DEF InBlocks
<1>6. InBlocks(c, S, w, p, r, s, n, l2)
  BY <1>3, <1>4, <1>5, BlocksToServer
<1> QED BY <1>6 DEF w

LEMMA AnswerIsLost ==
  ASSUME NEW c, NEW S, NEW q, NEW p, NEW r, NEW s, NEW n, NEW l \in Nat, NEW l2, l2 = l + 1,
         InBlocks(c, S, q, p, r, s, n, l), p # <<>>
  PROVE  InBlocks(c, S, q, Tail(p), r, s, n, l2)
<1> DEFINE w == Tail(p)
<1>1. /\ q = <<>> /\ (ForDownload(c, r, n) \/ ForUpload(c, r, n))
      /\ l2 \in Nat /\ l2 >= 1
  BY BlocksToClient
<1>2. \A m : p = <<m>> => w = <<>>
  OBVIOUS
<1> HIDE DEF w
<1>3. ASSUME Refused(S, q, p) \/ DownloadConfirmed(S, q, p, c, s)
      PROVE  Silent(S, q, w, c, l2)
  <2>1. S = {} /\ w = <<>>
    BY <1>2, <1>3 DEF Refused, DownloadConfirmed
  <2>2. Silent(S, q, w, c, l2)
    BY <1>1, <2>1 DEF Silent
  <2> QED BY <2>2
<1>4. ASSUME NEW x, S = {x}, c.state = BLOCK_DOWNLOAD, x.state = BLOCK_DOWNLOAD, NEW m,
             p = <<m>>, Fresh(c, x) \/ Heard(c, x, m)
      PROVE  Silent(S, q, w, c, l2)
  <2>1. Sound(x) /\ Covers(c, x)
    BY <1>4, NothingMissing
  <2> QED BY <1>1, <1>2, <1>4, <2>1, BecomesSilent
<1>5. ASSUME NEW y, S = {y}, c.state = BLOCK_UPLOAD, y.state = BLOCK_UPLOAD, NEW m,
             p = <<m>>, c.rxstep = RXSTEP_INIT \/ HasLast(y, c)
      PROVE  Silent(S, q, w, c, l2)
  <2>1. Covers(y, c)
    <3>1. CASE HasLast(y, c)
      BY <3>1, NothingMissing
    <3>2. CASE c.rxstep = RXSTEP_INIT
      BY <3>2 DEF Covers
    <3> QED BY <1>5, <3>1, <3>2
  <2> QED BY <1>1, <1>2, <1>5, <2>1, BecomesSilent
<1>6. ASSUME NEW y, S = {y}, c.state = BLOCK_UPLOAD, y.state = BLOCK_UPLOAD,
             ServedTo(s, c, UPLOAD, y.data), Flows(y, c, p)
      PROVE  InBlocks(c, S, q, w, r, s, n, l2)
  <2>1. CASE w = <<>>
    <3>1. Covers(y, c)
      BY <1>6, NothingMissing
    <3>2. Silent(S, q, w, c, l2)
      BY <1>1, <1>6, <2>1, <3>1, BecomesSilent
    <3> QED BY <1>1, <3>2 DEF InBlocks
  <2>2. CASE w # <<>>
    <3>1. Flows(y, c, w)
      BY <1>6, <2>2, FlowGoesOn DEF w
    <3>2. UploadGoesOn(q, w, c, y, s)
      BY <1>1, <1>6, <3>1 DEF UploadGoesOn
    <3> QED BY <1>1, <1>6, <3>2 DEF InBlocks
  <2> QED BY <2>1, <2>2
<1>7. Silent(S, q, w, c, l2) => InBlocks(c, S, q, w, r, s, n, l2)
  BY <1>1 DEF InBlocks
<1>8. InBlocks(c, S, q, w, r, s, n, l2)
  <2>1. CASE Refused(S, q, p) \/ DownloadConfirmed(S, q, p, c, s)
    BY <1>3, <1>7, <2>1
  <2>2. CASE \E x : /\ S = {x} /\ c.state = BLOCK_DOWNLOAD /\ x.state = BLOCK_DOWNLOAD
                    /\ \E m : p = <<m>> /\ (Fresh(c, x) \/ Heard(c, x, m))
    <3>1. PICK x, m : /\ S = {x} /\ c.state = BLOCK_DOWNLOAD /\ x.state = BLOCK_DOWNLOAD
                      /\ p = <<m>> /\ (Fresh(c, x) \/ Heard(c, x, m))
      BY <2>2
    <3>2. Silent(S, q, w, c, l2)
      BY <1>4, <3>1
    <3> QED BY <1>7, <3>2
  <2>3. CASE \E y : /\ S = {y} /\ c.state = BLOCK_UPLOAD /\ y.state = BLOCK_UPLOAD
                    /\ \E m : p = <<m>> /\ (c.rxstep = RXSTEP_INIT \/ HasLast(y, c))
    <3>1. PICK y, m : /\ S = {y} /\ c.state = BLOCK_UPLOAD /\ y.state = BLOCK_UPLOAD
                      /\ p = <<m>> /\ (c.rxstep = RXSTEP_INIT \/ HasLast(y, c))
      BY <2>3
    <3>2. Silent(S, q, w, c, l2)
      BY <1>5, <3>1
    <3> QED BY <1>7, <3>2
  <2>4. CASE \E y : /\ S = {y} /\ c.state = BLOCK_UPLOAD /\ y.state = BLOCK_UPLOAD
                    /\ ServedTo(s, c, UPLOAD, y.data) /\ Flows(y, c, p)
    BY <1>6, <2>4
  <2> QED BY <2>1, <2>2, <2>3, <2>4, BlocksToClient
<1> QED BY <1>8 DEF w

LEMMA ExchangeLoses ==
  ASSUME NEW C, NEW S, NEW q, NEW p, NEW r, NEW s, NEW n, NEW l \in Nat, NEW l2, l2 = l + 1,
         Exchange(C, S, q, p, r, s, n, l)
  PROVE  /\ q # <<>> => Exchange(C, S, Tail(q), p, r, s, n, l2)
         /\ p # <<>> => Exchange(C, S, q, Tail(p), r, s, n, l2)
<1> DEFINE D == {Shown(c) : c \in C}
           N == {Shown(x) : x \in S}
           w == Tail(q)
           v == Tail(p)
<1>1. l2 \in Nat /\ l <= l2 /\ (l >= 1 => l2 >= 2)
  OBVIOUS
<1>2. ASSUME NEW c, C = {c}, InBlocks(c, S, q, p, r, s, n, l)
      PROVE  /\ q # <<>> => Exchange(C, S, w, p, r, s, n, l2)
             /\ p # <<>> => Exchange(C, S, q, v, r, s, n, l2)
  <2>1. q # <<>> => InBlocks(c, S, w, p, r, s, n, l2)
    BY <1>2, RequestIsLost
  <2>2. p # <<>> => InBlocks(c, S, q, v, r, s, n, l2)
    BY <1>2, AnswerIsLost
  <2> HIDE DEF w, v
  <2> QED BY <1>2, <2>1, <2>2 DEF Exchange
<1>3. ASSUME InSegments(C, S, q, p, r, s, n, l), q # <<>>
      PROVE  InSegments(C, S, w, p, r, s, n, l2)
  <2>1. Dialogue(D, N, q, p, r, s, n, TRUE)
    BY <1>3 DEF InSegments
  <2> HIDE DEF D, N
  <2>2. p = <<>> /\ Dialogue(D, N, w, p, r, s, n, TRUE)
    BY <1>3, <2>1, DialogueLosesRequest
  <2>3. Stale(S, w, l2)
    BY <1>1, <1>3 DEF InSegments, Stale
  <2>4. Ahead(S, w)
    <3>1. w = <<>> \/ \E m : m.cs \in {1, 2} /\ w = <<m>>
      <4>1. CASE Cleared(q)
        <5>1. PICK x : q = <<x>>
          BY <1>3, <4>1 DEF Cleared
        <5> QED BY <5>1
      <4>2. CASE ~Cleared(q)
        <5>1. PICK m : Asking(m, D, N, q, p, s, TRUE)
          BY <1>3, <2>1, <4>2 DEF Dialogue, Answering
        <5>2. CASE q = <<m>>
          BY <5>2
        <5>3. CASE q # <<m>>
          <6>1. PICK x \in Closing : m.cs \in {1, 2} /\ q = <<x, m>>
            BY <5>1, <5>3 DEF Asking
          <6>2. w = <<m>>
            BY <6>1
          <6> QED BY <6>1, <6>2
        <5> QED BY <5>2, <5>3
      <4> QED BY <4>1, <4>2
    <3>2. \A m : Head(<<m>>) = m
      OBVIOUS
    <3> HIDE DEF w
    <3>3. w # <<>> => Head(w) # Block(5, END)
      BY <3>1, <3>2, FramesDiffer
    <3> QED BY <3>3 DEF Ahead
  <2> HIDE DEF w
  <2> QED BY <1>3, <2>2, <2>3, <2>4 DEF InSegments, D, N
<1>4. ASSUME InSegments(C, S, q, p, r, s, n, l), p # <<>>
      PROVE  InSegments(C, S, q, v, r, s, n, l2)
  <2>1. Dialogue(D, N, q, p, r, s, n, TRUE)
    BY <1>4 DEF InSegments
  <2> HIDE DEF D, N
  <2>2. Dialogue(D, N, q, v, r, s, n, TRUE)
    BY <1>4, <2>1, DialogueLosesAnswer
  <2>3. v = <<>>
    <3>1. PICK m : p = <<m>>
      BY <1>4, <2>1 DEF Dialogue, Asking, Answering
    <3> QED BY <3>1
  <2>4. Stale(S, q, l2)
    BY <1>1, <1>4 DEF InSegments, Stale
  <2> HIDE DEF v
  <2> QED BY <1>4, <2>2, <2>3, <2>4 DEF InSegments, D, N
<1> HIDE DEF w, v
<1>5. /\ q # <<>> => Exchange(C, S, w, p, r, s, n, l2)
      /\ p # <<>> => Exchange(C, S, q, v, r, s, n, l2)
  BY <1>2, <1>3, <1>4 DEF Exchange
<1> QED BY <1>5 DEF w, v

LEMMA LossOrdered ==
  ASSUME Ordered, NEW k \in Conns, Lose(k), ForgetsBlocks
  PROVE  Ordered'
<1> DEFINE C == ClientParties(k)
           S == ServerParties(k)
<1>1. Settled /\ losses \in Nat /\ Wires
  BY DEF Ordered
<1>2. /\ requests' = requests /\ served' = served /\ od' = od /\ calls' = calls
      /\ transfers' = transfers /\ losses' = losses + 1
      /\ \/ req[k] # <<>> /\ req' = [req EXCEPT ![k] = Tail(@)] /\ resp' = resp
         \/ resp[k] # <<>> /\ resp' = [resp EXCEPT ![k] = Tail(@)] /\ req' = req
  BY DEF Lose, userVars
<1>3. losses' \in Nat /\ losses <= losses'
  BY <1>1, <1>2
<1>4. OthersWait(k)
  BY <1>1, <1>2 DEF OthersWait, Settled, Lose
<1>5. Minds(k) /\ Asked(k)' = Asked(k)
  BY <1>2, <1>3, <1>4, MindsItsOwn
<1>6. Acts(k, C, S, req'[k], resp'[k])
  <2>1. LineInvariant'
    BY <1>1 DEF Lose, userVars, LineInvariant, LinesOK, Settled
  <2>2. /\ BlocksKept'
        /\ \A m \in Nodes, j \in Lines :
             transfers[m][j].state = RESET \/ block'[m][j] = block[m][j]
    BY <1>1, <1>2, NoBlockForgotten DEF Settled
  <2>3. \A h \in Conns : ServerParties(h)' = ServerParties(h) /\ ClientParties(h)' = ClientParties(h)
    BY <1>2, <2>2, PartiesStay
  <2> QED BY <1>4, <2>1, <2>2, <2>3 DEF Acts
<1>7. Exchange(C, S, req[k], resp[k], Asked(k), served[k], calls[k], losses)
  BY ExchangeOf
<1>8. \/ req[k] # <<>> /\ req'[k] = Tail(req[k]) /\ resp'[k] = resp[k]
      \/ resp[k] # <<>> /\ resp'[k] = Tail(resp[k]) /\ req'[k] = req[k]
  BY <1>1, <1>2 DEF Wires
<1> HIDE DEF C, S
<1>9. Exchange(C, S, req'[k], resp'[k], Asked(k), served[k], calls[k], losses')
  BY <1>1, <1>2, <1>7, <1>8, ExchangeLoses
<1>10. Exchange(C, S, req'[k], resp'[k], Asked(k)', served'[k], calls'[k], losses')
  BY <1>2, <1>5, <1>9
<1> QED BY <1>5, <1>6, <1>10, ActsOrdered

-----------------------------------------------------------------------------
(***************************************************************************)
(* Every step.                                                             *)
(***************************************************************************)
LEMMA OrderedAtFirst == BlockInit => Ordered
<1> SUFFICES ASSUME BlockInit PROVE Ordered
  OBVIOUS
<1>1. Settled /\ Init
  BY AgreedAtFirst DEF Agreed, BlockInit
<1>2. Wires
  BY <1>1, NothingIsServed DEF ServedInvariant
<1>3. Whole
  <2>1. ASSUME NEW index \in Indexes PROVE InitialValue(index) \in Values
    <3>1. Objects[index] \in (SUBSET Values) \ {{}}
      BY SDOAssumption
    <3>2. InitialValue(index) \in Objects[index]
      BY <3>1 DEF InitialValue
    <3> QED BY <3>1, <3>2
  <2> QED BY <1>1, <2>1 DEF Init, Whole
<1>4. FreeLinesForget
  BY DEF BlockInit, FreeLinesForget
<1>5. losses \in Nat
  BY <1>1 DEF Init
<1>6. \A k \in Conns : ServerParties(k) = {} /\ ClientParties(k) = {}
  <2>1. \A m \in Nodes, i \in Lines : transfers[m][i].state = RESET
    BY <1>1 DEF Init, ResetLine
  <2> QED BY <2>1, SDOAssumption DEF ServerParties, ClientParties, Parties, OnUse, LineToClose
<1>7. \A r, s, n, l : Exchange({}, {}, <<>>, <<>>, r, s, n, l)
  <2> SUFFICES ASSUME NEW r, NEW s, NEW n, NEW l PROVE Exchange({}, {}, <<>>, <<>>, r, s, n, l)
    OBVIOUS
  <2>1. {Shown(c) : c \in {}} = {}
    OBVIOUS
  <2>2. Dialogue({}, {}, <<>>, <<>>, r, s, n, TRUE)
    BY DEF Dialogue, Cleared
  <2>3. InSegments({}, {}, <<>>, <<>>, r, s, n, l)
    BY <2>1, <2>2 DEF InSegments, Stale, Ahead
  <2> QED BY <2>3 DEF Exchange
<1>8. \A k \in Conns : req[k] = <<>> /\ resp[k] = <<>>
  BY <1>1 DEF Init
<1>9. Exchanges
  BY <1>6, <1>7, <1>8 DEF Exchanges
<1> QED BY <1>1, <1>2, <1>3, <1>4, <1>5, <1>9 DEF Ordered

LEMMA NothingOrdered ==
  ASSUME Ordered, UNCHANGED blockVars
  PROVE  Ordered'
<1>1. /\ transfers' = transfers /\ running' = running /\ od' = od /\ req' = req /\ resp' = resp
      /\ requests' = requests /\ open' = open /\ calls' = calls /\ served' = served
      /\ losses' = losses /\ block' = block
  BY DEF blockVars, vars
<1>2. LineInvariant'
  BY <1>1 DEF LineInvariant, LinesOK, Ordered, Settled
<1>3. BlocksKept' /\ ObjectsHold' /\ Whole' /\ FreeLinesForget' /\ Wires'
  BY <1>1, WholeStays DEF BlocksKept, Ordered, Settled, FreeLinesForget, Wires
<1>4. Settled' /\ losses' \in Nat
  BY <1>1, <1>2, <1>3 DEF Ordered, Settled
<1>5. \A h \in Conns : ServerParties(h)' = ServerParties(h) /\ ClientParties(h)' = ClientParties(h)
  BY <1>1, PartiesStay
<1>6. \A h \in Conns : Asked(h)' = Asked(h)
  BY <1>1 DEF Asked
<1>7. Exchanges'
  BY <1>1, <1>5, <1>6 DEF Exchanges, Ordered
<1> QED BY <1>3, <1>4, <1>7 DEF Ordered

\* Whatever is lost, as long as no request is misread and no node stops.
LEMMA StepOrdered ==
  ASSUME Ordered, NoRequestIsMisread, ~LateAnswers, ~MayRefuse, [BlockNext]_blockVars,
         \A n \in Nodes : ~Stop(n)
  PROVE  Ordered'
<1>1. ASSUME NEW k \in Conns, ServerDispatches(k) PROVE Ordered'
  BY <1>1, ServerStepOrdered
<1>2. ASSUME NEW k \in Conns, ClientDispatches(k) PROVE Ordered'
  BY <1>2, ClientStepOrdered
<1>3. ASSUME NEW k \in Conns, PlainStart(k) PROVE Ordered'
  BY <1>3, WriteOrdered, ReadOrdered DEF PlainStart
<1>4. ASSUME NEW k \in Conns, BlockStart(k) PROVE Ordered'
  BY <1>4, WriteBlockOrdered, ReadBlockOrdered DEF BlockStart
<1>5. ASSUME NEW n \in Nodes, NEW i \in Lines, Elapses(n, i) PROVE Ordered'
  BY <1>5, AlarmOrdered
<1>6. CASE Elsewhere
  <2>1. ASSUME NEW k \in Conns, GetResult(k) PROVE Ordered'
    BY <1>6, <2>1, ResultOrdered DEF Elsewhere
  <2>2. ASSUME NEW k \in Conns, Lose(k) PROVE Ordered'
    BY <1>6, <2>2, LossOrdered DEF Elsewhere
  <2>3. ASSUME NEW k \in Conns PROVE ~Discard(k)
    BY SDOAssumption DEF Discard, Ordered, Settled
  <2>4. ASSUME NEW n \in Nodes PROVE ~Start(n)
    BY DEF Start, Ordered, Settled
  <2> QED BY <1>6, <2>1, <2>2, <2>3, <2>4 DEF Elsewhere
<1> QED BY <1>1, <1>2, <1>3, <1>4, <1>5, <1>6, NothingOrdered DEF BlockNext

-----------------------------------------------------------------------------
(***************************************************************************)
(* What follows.                                                           *)
(***************************************************************************)
LEMMA ExchangeCovers ==
  ASSUME NEW C, NEW S, NEW q, NEW p, NEW r, NEW s, NEW n, NEW l,
         Exchange(C, S, q, p, r, s, n, l), NEW c \in C, NEW x \in S
  PROVE  /\ c.state = BLOCK_DOWNLOAD /\ x.state = BLOCK_DOWNLOAD => Covers(c, x)
         /\ c.state = BLOCK_UPLOAD /\ x.state = BLOCK_UPLOAD => Covers(x, c)
<1> SUFFICES ASSUME c.state \in {BLOCK_DOWNLOAD, BLOCK_UPLOAD}, x.state = c.state
             PROVE  /\ c.state = BLOCK_DOWNLOAD => Covers(c, x)
                    /\ c.state = BLOCK_UPLOAD => Covers(x, c)
  OBVIOUS
<1>1. InBlocks(c, S, q, p, r, s, n, l) /\ BLOCK_DOWNLOAD # BLOCK_UPLOAD
  BY BlockStatesDiffer DEF Exchange, InSegments
<1>2. CASE BlockAsks(S, q, p, c, l)
  <2>1. PICK m : BlockRequest(c, m)
    BY <1>2 DEF BlockAsks
  <2>2. CASE c.state = BLOCK_DOWNLOAD
    <3>1. c.lastblockoffset = 0
      BY <1>1, <2>1, <2>2 DEF BlockRequest, Producer
    <3>2. Sound(x)
      BY <1>2, <2>2 DEF BlockAsks, Stale
    <3>3. Covers(c, x)
      BY <3>1, <3>2 DEF Sound, Covers
    <3> QED BY <1>1, <2>2, <3>3
  <2>3. CASE c.state = BLOCK_UPLOAD
    BY <1>1, <2>1, <2>3 DEF BlockRequest, Covers
  <2> QED BY <2>2, <2>3
<1>3. CASE Silent(S, q, p, c, l)
  BY <1>3 DEF Silent
<1>4. CASE Refused(S, q, p) \/ DownloadConfirmed(S, q, p, c, s)
  BY <1>4 DEF Refused, DownloadConfirmed
<1>5. CASE c.state = BLOCK_DOWNLOAD /\ \E y : S = {y} /\ DownloadGoesOn(q, p, c, y)
  <2>1. DownloadGoesOn(q, p, c, x)
    BY <1>5
  <2>2. Covers(c, x)
    BY <2>1, NothingMissing DEF DownloadGoesOn
  <2> QED BY <1>1, <1>5, <2>2
<1>6. CASE c.state = BLOCK_UPLOAD /\ \E y : S = {y} /\ UploadGoesOn(q, p, c, y, s)
  <2>1. UploadGoesOn(q, p, c, x, s)
    BY <1>6
  <2>2. CASE c.rxstep = RXSTEP_INIT
    BY <1>1, <1>6, <2>2 DEF Covers
  <2>3. CASE c.rxstep # RXSTEP_INIT
    <3>1. Covers(x, c)
      BY <2>1, <2>3, NothingMissing DEF UploadGoesOn
    <3> QED BY <1>1, <1>6, <3>1
  <2> QED BY <2>2, <2>3
<1> QED BY <1>1, <1>2, <1>3, <1>4, <1>5, <1>6 DEF InBlocks

LEMMA OrderedHasNoHoles == Ordered => NoHoles
<1> SUFFICES ASSUME Ordered, NEW k \in Conns, NEW np \in Nodes, NEW nc \in Nodes,
                    NEW ip \in Lines, NEW ic \in Lines, Transmits(k, np, ip, nc, ic)
             PROVE  /\ block[np][ip].lastblockoffset <= transfers[nc][ic].offset
                    /\ transfers[nc][ic].data # Mixed
  BY DEF NoHoles
<1>1. Exchange(ClientParties(k), ServerParties(k), req[k], resp[k], Asked(k), served[k], calls[k],
               losses)
  BY ExchangeOf
<1> DEFINE p == Party(transfers[np][ip], block[np][ip])
           x == Party(transfers[nc][ic], block[nc][ic])
<1>2. /\ p.state = transfers[np][ip].state /\ p.lastblockoffset = block[np][ip].lastblockoffset
      /\ x.state = transfers[nc][ic].state /\ x.offset = transfers[nc][ic].offset
      /\ x.data = transfers[nc][ic].data /\ x.rxstep = block[nc][ic].rxstep
  BY PartyIsSeen
<1>3. x.rxstep # RXSTEP_INIT
  BY <1>2 DEF Transmits
<1>4. \/ p \in ClientParties(k) /\ x \in ServerParties(k) /\ p.state = BLOCK_DOWNLOAD
         /\ x.state = BLOCK_DOWNLOAD
      \/ p \in ServerParties(k) /\ x \in ClientParties(k) /\ p.state = BLOCK_UPLOAD
         /\ x.state = BLOCK_UPLOAD
  BY <1>2 DEF Transmits, ClientParties, ServerParties, Parties
<1> HIDE DEF p, x
<1>5. Covers(p, x)
  BY <1>1, <1>4, ExchangeCovers
<1> QED BY <1>2, <1>3, <1>5 DEF Covers

LEMMA OrderedIsServed == Ordered => FinishedMeansServed
<1> SUFFICES ASSUME Ordered, NEW k \in Conns, Started(transfers[client[k]], k, CLIENT, FINISHED)
             PROVE  LET t == transfers[client[k]]
                    IN  /\ served[k] = [op |-> Asked(k).op, index |-> Asked(k).index,
                                        value |-> Assembled(t[getSDOlineOnUse(t, k, CLIENT)])]
                        /\ calls[k] = 1
  BY DEF FinishedMeansServed
<1> DEFINE t == transfers[client[k]]
           i == getSDOlineOnUse(t, k, CLIENT)
           c == Party(t[i], block[client[k]][i])
           x == Shown(c)
<1>1. i # NoLine /\ t[i].state = FINISHED
  BY DEF Started
<1>2. LinesOK(t) /\ CLIENT \in {SERVER, CLIENT}
  BY SDOAssumption DEF Ordered, Settled, LineInvariant
<1>3. ClientParties(k) = {c}
  BY <1>1, <1>2, TheParty DEF ClientParties
<1>4. /\ c.state = FINISHED /\ x.state = FINISHED /\ x.data = t[i].data /\ x.count = t[i].count
      /\ x.offset = t[i].offset
  BY <1>1, PartyIsSeen DEF Shown
<1>5. Assembled(x) = Assembled(t[i])
  BY <1>4 DEF Assembled
<1> DEFINE C == ClientParties(k)
           D == {Shown(y) : y \in C}
<1>6. c \in C /\ x \in D
  BY <1>3
<1>7. Exchange(C, ServerParties(k), req[k], resp[k], Asked(k), served[k], calls[k], losses)
  BY ExchangeOf
<1> HIDE DEF C, i, t, c, x
<1>8. InSegments(C, ServerParties(k), req[k], resp[k], Asked(k), served[k], calls[k], losses)
  <2>1. ASSUME NEW y, C = {y}
        PROVE  ~InBlocks(y, ServerParties(k), req[k], resp[k],
                         Asked(k), served[k], calls[k], losses)
    <3>1. y.state = FINISHED
      BY <1>4, <1>6, <2>1
    <3> QED BY <3>1, BlockStatesDiffer DEF InBlocks, ForDownload, ForUpload
  <2> QED BY <1>7, <2>1 DEF Exchange
<1>9. \A y \in D : InTune(y, Asked(k), served[k], calls[k])
  BY <1>8 DEF InSegments, Dialogue
<1>10. InTune(x, Asked(k), served[k], calls[k])
  BY <1>6, <1>9
<1>11. /\ served[k] = [op |-> Asked(k).op, index |-> Asked(k).index, value |-> Assembled(t[i])]
       /\ calls[k] = 1
  BY <1>4, <1>5, <1>10 DEF InTune
<1> QED BY <1>11 DEF t, i

LEMMA NoneIsMisread ==
  ASSUME Ordered, losses <= 1
  PROVE  NoRequestIsMisread
<1> SUFFICES ASSUME NEW k \in Conns, ServerReadsData(k), Initiates(Head(req[k])) PROVE FALSE
  BY DEF NoRequestIsMisread
<1> DEFINE S == ServerParties(k)
           q == req[k]
           t == transfers[server[k]]
           i == getSDOlineOnUse(t, k, SERVER)
           x == Party(t[i], block[server[k]][i])
<1>1. /\ i # NoLine /\ t[i].state = BLOCK_DOWNLOAD /\ q # <<>> /\ Head(q) # Abort
      /\ Initiates(Head(q))
  BY DEF ServerReadsData, Started
<1>2. LinesOK(t) /\ SERVER \in {SERVER, CLIENT}
  BY SDOAssumption DEF Ordered, Settled, LineInvariant
<1>3. S = {x}
  BY <1>1, <1>2, TheParty DEF ServerParties
<1>4. x.state = BLOCK_DOWNLOAD
  BY <1>1, PartyIsSeen
<1>5. Exchange(ClientParties(k), S, q, resp[k], Asked(k), served[k], calls[k], losses)
  BY ExchangeOf
<1>6. losses \in Nat /\ ~(losses >= 2)
  BY DEF Ordered
<1> HIDE DEF S, q, t, i, x
<1>7. ~Stale(S, q, losses)
  BY <1>1, <1>3, <1>4, <1>6 DEF Stale
<1>8. PICK c : InBlocks(c, S, q, resp[k], Asked(k), served[k], calls[k], losses)
  BY <1>5, <1>7 DEF Exchange, InSegments
<1>9. ~BlockAsks(S, q, resp[k], c, losses)
  BY <1>7 DEF BlockAsks
<1>10. ASSUME NEW y, Flows(c, y, q) PROVE FALSE
  <2>1. Head(q).cs \in {0, 4}
    BY <1>10, FirstOfFlow
  <2> QED BY <1>1, <2>1 DEF Initiates
<1>11. ASSUME NEW m, q = <<m>>, m.cs = 6, m.sub = END PROVE FALSE
  <2>1. Head(q) = m
    BY <1>11
  <2> QED BY <1>1, <1>11, <2>1, FramesDiffer DEF Initiates
<1>12. ASSUME NEW y, S = {y}, y.state = BLOCK_UPLOAD PROVE FALSE
  BY <1>3, <1>4, <1>12, BlockStatesDiffer
<1> QED BY <1>1, <1>8, <1>9, <1>10, <1>11, <1>12, BlocksToServer

LEMMA StepsCount ==
  ASSUME [BlockNext]_blockVars, \A n \in Nodes : ~Stop(n), losses \in Nat, losses <= MaxLosses
  PROVE  stops' = stops /\ losses' \in Nat /\ losses' <= MaxLosses
<1>1. CASE \E k \in Conns : Lose(k)
  <2>1. stops' = stops /\ losses' = losses + 1 /\ losses < MaxLosses
    BY <1>1 DEF Lose
  <2> QED BY <2>1, SDOAssumption
<1>2. CASE \A k \in Conns : ~Lose(k)
  BY <1>2, FaultsCount DEF FaultsStay
<1> QED BY <1>1, <1>2

\* Frames may be lost, the answers that count do not depend on it.
OrderedInvariant == Ordered /\ stops \in Nat /\ losses <= MaxLosses

LEMMA OrderedHolds ==
  ASSUME ~LateAnswers, ~MayRefuse, MaxStops = 0
  PROVE  /\ BlockInit => OrderedInvariant
         /\ OrderedInvariant /\ NoRequestIsMisread /\ [BlockNext]_blockVars => OrderedInvariant'
<1>1. ASSUME BlockInit PROVE OrderedInvariant
  <2>1. losses = 0 /\ stops = 0
    BY <1>1 DEF BlockInit, Init
  <2> QED BY <1>1, <2>1, OrderedAtFirst, SDOAssumption DEF OrderedInvariant
<1>2. ASSUME OrderedInvariant, NoRequestIsMisread, [BlockNext]_blockVars PROVE OrderedInvariant'
  <2>1. losses \in Nat /\ stops \in Nat /\ losses <= MaxLosses
    BY <1>2 DEF OrderedInvariant, Ordered
  <2>2. \A n \in Nodes : ~Stop(n)
    BY <2>1 DEF Stop
  <2>3. Ordered'
    BY <1>2, <2>2, StepOrdered DEF OrderedInvariant
  <2>4. stops' = stops /\ losses' <= MaxLosses
    BY <1>2, <2>1, <2>2, StepsCount
  <2> QED BY <2>1, <2>3, <2>4 DEF OrderedInvariant
<1> QED BY <1>1, <1>2

(***************************************************************************)
(* The dialogue of client and server, in blocks or not, however many       *)
(* frames are lost: where frames come in time, no dictionary refuses and   *)
(* no node stops, OrderedInvariant holds until a server takes the request  *)
(* of a new transfer for data of the one before.                           *)
(***************************************************************************)
THEOREM OrderedUnlessMisread ==
  ASSUME ~LateAnswers, ~MayRefuse, MaxStops = 0
  PROVE  BlockSpec /\ []NoRequestIsMisread => []OrderedInvariant
<1>1. BlockInit => OrderedInvariant
  BY OrderedHolds
<1>2. OrderedInvariant /\ NoRequestIsMisread /\ [BlockNext]_blockVars => OrderedInvariant'
  BY OrderedHolds
<1> QED BY <1>1, <1>2, PTL DEF BlockSpec

(***************************************************************************)
(* NoHoles, however many frames are lost, as long as no server takes the   *)
(* request of a new transfer for data of the one before.                   *)
(***************************************************************************)
THEOREM NoHolesUnlessMisread ==
  ASSUME ~LateAnswers, ~MayRefuse, MaxStops = 0
  PROVE  BlockSpec /\ []NoRequestIsMisread => []NoHoles
<1>1. OrderedInvariant => NoHoles
  BY OrderedHasNoHoles DEF OrderedInvariant
<1> QED BY <1>1, OrderedUnlessMisread, PTL

(***************************************************************************)
(* FinishedMeansServed for transfers in blocks too, under the same         *)
(* conditions.                                                             *)
(***************************************************************************)
THEOREM ServedUnlessMisread ==
  ASSUME ~LateAnswers, ~MayRefuse, MaxStops = 0
  PROVE  BlockSpec /\ []NoRequestIsMisread => []FinishedMeansServed
<1>1. OrderedInvariant => FinishedMeansServed
  BY OrderedIsServed DEF OrderedInvariant
<1> QED BY <1>1, OrderedUnlessMisread, PTL

\* A server and its client must lose two frames to be at two transfers.
LEMMA OneLossOrdered ==
  ASSUME ~LateAnswers, ~MayRefuse, MaxStops = 0, MaxLosses <= 1
  PROVE  BlockSpec => [](OrderedInvariant /\ NoRequestIsMisread)
<1>1. BlockInit => OrderedInvariant
  BY OrderedHolds
<1>2. OrderedInvariant => NoRequestIsMisread
  <2> SUFFICES ASSUME OrderedInvariant PROVE losses <= 1
    BY NoneIsMisread DEF OrderedInvariant
  <2>1. losses \in Nat /\ losses <= MaxLosses
    BY DEF OrderedInvariant, Ordered
  <2> QED BY <2>1, SDOAssumption
<1>3. OrderedInvariant /\ [BlockNext]_blockVars => OrderedInvariant'
  BY <1>2, OrderedHolds
<1> QED BY <1>1, <1>2, <1>3, PTL DEF BlockSpec

(***************************************************************************)
(* With at most one frame lost no server takes a request for data.         *)
(***************************************************************************)
THEOREM OneLossMisreadsNothing ==
  ASSUME ~LateAnswers, ~MayRefuse, MaxStops = 0, MaxLosses <= 1
  PROVE  BlockSpec => []NoRequestIsMisread
<1> QED BY OneLossOrdered, PTL

(***************************************************************************)
(* NoHoles with at most one frame lost.                                    *)
(***************************************************************************)
THEOREM OneLossLeavesNoHoles ==
  ASSUME ~LateAnswers, ~MayRefuse, MaxStops = 0, MaxLosses <= 1
  PROVE  BlockSpec => []NoHoles
<1>1. OrderedInvariant => NoHoles
  BY OrderedHasNoHoles DEF OrderedInvariant
<1> QED BY <1>1, OneLossOrdered, PTL

(***************************************************************************)
(* FinishedMeansServed for transfers in blocks too, with at most one frame *)
(* lost.                                                                   *)
(***************************************************************************)
THEOREM OneLossServed ==
  ASSUME ~LateAnswers, ~MayRefuse, MaxStops = 0, MaxLosses <= 1
  PROVE  BlockSpec => []FinishedMeansServed
<1>1. OrderedInvariant => FinishedMeansServed
  BY OrderedIsServed DEF OrderedInvariant
<1> QED BY <1>1, OneLossOrdered, PTL

=============================================================================
