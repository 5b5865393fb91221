------------------------------ MODULE SDOBlock ------------------------------
(***************************************************************************)
(* SDO block transfers (src/src/sdo.c from line 1359), next to the plain   *)
(* transfers of SDO on the same lines: a producer sends blocks of segments *)
(* that are acknowledged together, and goes back to the last segment the   *)
(* consumer acknowledged.  The client produces in a download, the server   *)
(* in an upload.                                                           *)
(*                                                                         *)
(* A frame that controls a block transfer has cs 5 or 6 and a sub command; *)
(* the n of an acknowledgement is the next block's size and its seq the    *)
(* segment acknowledged.  The first byte of a segment is its number, with  *)
(* 0x80 for the last one: whoever does not expect it reads cs 0 or 4.      *)
(***************************************************************************)
EXTENDS SDO

CONSTANT SDO_BLOCK_SIZE  \* segments of a block

ASSUME BlockAssumption == SDO_BLOCK_SIZE \in 1 .. 31

VARIABLE block  \* what a line keeps of a block transfer

blockVars == <<vars, block>>

RXSTEP_INIT == "init"
RXSTEP_STARTED == "started"
RXSTEP_END == "end"

INITIATE == 0
END == 1
RESPONSE == 2
START_UPLOAD == 3

\* initSDOline; endfield is the number of bytes of the last segment.
NoBlock ==
  [blksize |-> 0, seqno |-> 0, lastblockoffset |-> 0, objsize |-> 0,
   endfield |-> 0, rxstep |-> RXSTEP_INIT, tmpData |-> Frame(0)]

BlockInit == Init /\ block = [n \in Nodes |-> [i \in Lines |-> NoBlock]]

\* A step that starts no block transfer: a line that is reset forgets its own.
ForgetsBlocks ==
  block' = [n \in Nodes |-> [i \in Lines |->
              IF transfers'[n][i].state = RESET THEN NoBlock ELSE block[n][i]]]

Block(cs, sub) == [Frame(cs) EXCEPT !.sub = sub]

-----------------------------------------------------------------------------
(***************************************************************************)
(* The producer.                                                           *)
(***************************************************************************)
\* Bytes of the segments a block still has room for.
BlockOf(l, blksize) ==
  LET rest == getSDOlineRestBytes(l)
      all == IF rest = 0 THEN 1 ELSE (rest + SEGMENT - 1) \div SEGMENT
  IN  [s \in 1 .. (IF all < blksize THEN all ELSE blksize) |->
         [Frame(IF s = all THEN 4 ELSE 0) EXCEPT
            !.seq = s, !.data = l.data, !.from = l.offset + SEGMENT * (s - 1),
            !.n = IF s = all THEN rest - SEGMENT * (s - 1) ELSE SEGMENT]]

\* The line and what it keeps after a block from its offset has been sent.
AfterBlock(l, b, blksize) ==
  LET frames == BlockOf(l, blksize)
      final == frames[Len(frames)]
  IN  [line |-> [l EXCEPT !.offset = final.from + final.n],
       block |-> [b EXCEPT !.blksize = blksize, !.lastblockoffset = l.offset,
                           !.seqno = Len(frames),
                           !.endfield = IF final.cs = 4 THEN final.n ELSE @],
       frames |-> frames]

AllAcknowledged(l, b, m) == getSDOlineRestBytes(l) = 0 /\ m.seq = b.seqno

\* Goes on behind what it has sent.
GoneOn(l, b, m) == l

\* Back to the segment behind the one acknowledged.
GoneBack(l, b, m) == [l EXCEPT !.offset = b.lastblockoffset + SEGMENT * m.seq]

BadAckSeq(l, b, m) == ~AllAcknowledged(l, b, m) /\ GoneBack(l, b, m).offset > l.count

\* What an acknowledgement m calls for; end is the frame that ends the transfer.
Acknowledged(l, b, m, end) ==
  IF AllAcknowledged(l, b, m)
  THEN [line |-> l, block |-> [b EXCEPT !.blksize = m.n],
        frames |-> <<[end EXCEPT !.n = b.endfield]>>]
  ELSE AfterBlock(GoneBack(l, b, m), b, m.n)

-----------------------------------------------------------------------------
(***************************************************************************)
(* The consumer.                                                           *)
(***************************************************************************)
IsSegment(m) == m.cs \in {0, 4} /\ m.seq > 0

\* The lower seven bits of the first byte: other frames have more than 31.
SeqNo(m) == IF IsSegment(m) THEN m.seq ELSE 32

LowBit(m) == IF IsSegment(m) THEN m.seq % 2 ELSE m.sub % 2

IsLast(m) == m.cs >= 4

Expected(b, m) == SeqNo(m) = b.seqno + 1

SegmentOverflows(l, b, m) == ~IsLast(m) /\ Expected(b, m) /\ ~Fits(l, SEGMENT)

ReceivedInFullBlocks(l, b, m) ==
  LET seqno == IF Expected(b, m) THEN SeqNo(m) ELSE b.seqno
      answers == SeqNo(m) = SDO_BLOCK_SIZE
  IN  [line |-> IF Expected(b, m) /\ ~IsLast(m) THEN SDOtoLine(l, m) ELSE l,
       block |-> [IF Expected(b, m) /\ IsLast(m)
                  THEN [b EXCEPT !.rxstep = RXSTEP_END, !.tmpData = m] ELSE b
                  EXCEPT !.seqno = IF answers THEN 0 ELSE seqno],
       frames |-> IF answers
                  THEN <<[Block(5, RESPONSE) EXCEPT !.seq = seqno, !.n = SDO_BLOCK_SIZE]>>
                  ELSE <<>>]

\* A segment, and the answer to the last one of a block or of all.  How many
\* bytes of the last segment are data is known at the end.
Received(l, b, m) ==
  LET seqno == IF Expected(b, m) THEN SeqNo(m) ELSE b.seqno
      answers == IsLast(m) \/ SeqNo(m) = SDO_BLOCK_SIZE
  IN  [line |-> IF Expected(b, m) /\ ~IsLast(m) THEN SDOtoLine(l, m) ELSE l,
       block |-> [IF Expected(b, m) /\ IsLast(m)
                  THEN [b EXCEPT !.rxstep = RXSTEP_END, !.tmpData = m] ELSE b
                  EXCEPT !.seqno = IF answers THEN 0 ELSE seqno],
       frames |-> IF answers
                  THEN <<[Block(5, RESPONSE) EXCEPT !.seq = seqno, !.n = SDO_BLOCK_SIZE]>>
                  ELSE <<>>]

\* The line with the last segment, of which m says how much is data.
Completed(l, b, m) == SDOtoLine(l, [b.tmpData EXCEPT !.n = m.n])

WrongSize(l, b, m) ==
  \/ ~Fits(l, m.n)
  \/ b.objsize # 0 /\ b.objsize # Completed(l, b, m).offset

-----------------------------------------------------------------------------
(***************************************************************************)
(* The server's half of proceedSDO.  While a block download is in progress *)
(* every frame but an abort is read as cs 6.                               *)
(***************************************************************************)
ServerLine(k) == getSDOlineOnUse(transfers[server[k]], k, SERVER)

ServerReadsData(k) ==
  /\ Started(transfers[server[k]], k, SERVER, BLOCK_DOWNLOAD)
  /\ req[k] # <<>> /\ Head(req[k]) # Abort

ServerGetsBlock(k, cs) ==
  /\ server[k] \in running
  /\ req[k] # <<>>
  /\ cs = IF ServerReadsData(k) THEN 6 ELSE Head(req[k]).cs

ServerBlockFails(k) == ServerFails(k, <<>>) /\ ForgetsBlocks

\* Line i of the server goes on as s.line and s.block, and sends s.frames.
ServerGoesOn(k, i, s) ==
  /\ ServerDoes(k, [transfers[server[k]] EXCEPT ![i] = s.line], s.frames)
  /\ block' = [block EXCEPT ![server[k]][i] = s.block]
  /\ UNCHANGED <<od, served>>

ServerInitiateBlockUpload(k) ==
  /\ ServerGetsBlock(k, 5)
  /\ Head(req[k]).sub = INITIATE
  /\ LET m == Head(req[k])
         t == transfers[server[k]]
         i == getSDOfreeLine(t)
         v == od[server[k]][m.index]
     IN  IF NoLineFor(t, k) \/ m.n > 127 \/ Size[v] > SDO_MAX_LENGTH_TRANSFER
         THEN ServerBlockFails(k)
         ELSE \/ /\ \E w \in Watchdogs :
                      ServerDoes(k, [t EXCEPT ![i] =
                                       [InitLine(SERVER, k, m.index, BLOCK_UPLOAD, w)
                                        EXCEPT !.count = Size[v], !.data = v]],
                                 <<[Block(6, INITIATE) EXCEPT !.index = m.index, !.n = Size[v]]>>)
                 /\ block' = [block EXCEPT ![server[k]][i] =
                                [NoBlock EXCEPT !.blksize = m.n, !.objsize = Size[v]]]
                 /\ served' = [served EXCEPT ![k] =
                                 [op |-> UPLOAD, index |-> m.index, value |-> v]]
                 /\ UNCHANGED od
              \/ TRUE \in Refusals /\ ServerBlockFails(k)

EndFinished(t, i) == [t EXCEPT ![i] = Finished(@)]

EndUpload(t, i) == resetSDOline(t, i)

ServerBlockUpload(k) ==
  /\ ServerGetsBlock(k, 5)
  /\ Head(req[k]).sub # INITIATE
  /\ LET m == Head(req[k])
         t == transfers[server[k]]
         i == ServerLine(k)
     IN  IF ~Started(t, k, SERVER, BLOCK_UPLOAD)
         THEN ServerBlockFails(k)
         ELSE LET l == RestartTimer(t[i])
                  b == block[server[k]][i]
              IN  \/ /\ m.sub = END
                     /\ ServerDoes(k, EndUpload(t, i), <<>>)
                     /\ ForgetsBlocks
                     /\ UNCHANGED <<od, served>>
                  \/ m.sub = START_UPLOAD /\ ServerGoesOn(k, i, AfterBlock(l, b, b.blksize))
                  \/ /\ m.sub = RESPONSE
                     /\ IF BadAckSeq(l, b, m) THEN ServerBlockFails(k)
                        ELSE ServerGoesOn(k, i, Acknowledged(l, b, m, Block(6, END)))

ServerInitiateBlockDownload(k) ==
  /\ ServerGetsBlock(k, 6)
  /\ ServerLine(k) = NoLine
  /\ LET m == Head(req[k])
         t == transfers[server[k]]
         i == getSDOfreeLine(t)
     IN  IF LowBit(m) # INITIATE \/ i = NoLine
         THEN ServerBlockFails(k)
         ELSE \E w \in Watchdogs :
                ServerGoesOn(k, i,
                  [line |-> InitLine(SERVER, k, m.index, BLOCK_DOWNLOAD, w),
                   block |-> [NoBlock EXCEPT !.rxstep = RXSTEP_STARTED, !.objsize = m.n],
                   frames |-> <<[Block(5, INITIATE) EXCEPT !.index = m.index,
                                                           !.n = SDO_BLOCK_SIZE]>>])

(***************************************************************************)
(* The response to the end leaves before the value is stored.  On a line   *)
(* of a plain transfer the step is still RXSTEP_INIT and nothing happens.  *)
(***************************************************************************)
ServerBlockDownload(k) ==
  /\ ServerGetsBlock(k, 6)
  /\ ServerLine(k) # NoLine
  /\ LET m == Head(req[k])
         t == transfers[server[k]]
         i == ServerLine(k)
         b == block[server[k]][i]
         l == RestartTimer(t[i])
         response == Block(5, END)
     IN  \/ /\ b.rxstep = RXSTEP_INIT
            /\ ServerGoesOn(k, i, [line |-> t[i], block |-> b, frames |-> <<>>])
         \/ /\ b.rxstep = RXSTEP_STARTED
            /\ IF SegmentOverflows(l, b, m) THEN ServerBlockFails(k)
               ELSE ServerGoesOn(k, i, Received(l, b, m))
         \/ /\ b.rxstep = RXSTEP_END
            /\ IF LowBit(m) # END \/ WrongSize(l, b, m) THEN ServerBlockFails(k)
               ELSE \/ /\ ServerDoes(k, resetSDOline(t, i), <<response>>)
                       /\ Stores(k, l.index, Assembled(Completed(l, b, m)))
                       /\ ForgetsBlocks
                    \/ /\ TRUE \in Refusals
                       /\ ServerFails(k, <<response>>)
                       /\ ForgetsBlocks

-----------------------------------------------------------------------------
(***************************************************************************)
(* The client's half.  While a block upload is in progress every frame but *)
(* an abort is read as cs 6.                                               *)
(***************************************************************************)
ClientLine(k) == getSDOlineOnUse(transfers[client[k]], k, CLIENT)

ClientReadsData(k) ==
  /\ Started(transfers[client[k]], k, CLIENT, BLOCK_UPLOAD)
  /\ resp[k] # <<>> /\ Head(resp[k]) # Abort

ClientGetsBlock(k, cs) ==
  /\ client[k] \in running
  /\ resp[k] # <<>>
  /\ cs = IF ClientReadsData(k) THEN 6 ELSE Head(resp[k]).cs

ClientBlockFails(k) == ClientFails(k) /\ ForgetsBlocks

ClientBlockGoesOn(k, i, s) ==
  /\ ClientDoes(k, [transfers[client[k]] EXCEPT ![i] = s.line], s.frames)
  /\ block' = [block EXCEPT ![client[k]][i] = s.block]
  /\ UNCHANGED calls

ClientBlockDownload(k) ==
  /\ ClientGetsBlock(k, 5)
  /\ Head(resp[k]).sub # END
  /\ LET m == Head(resp[k])
         t == transfers[client[k]]
         i == ClientLine(k)
     IN  IF ~Started(t, k, CLIENT, BLOCK_DOWNLOAD) \/ m.sub = START_UPLOAD \/ m.n > 127
         THEN ClientBlockFails(k)
         ELSE LET l == RestartTimer(t[i])
                  b == block[client[k]][i]
              IN  IF m.sub = INITIATE THEN ClientBlockGoesOn(k, i, AfterBlock(l, b, m.n))
                  ELSE IF BadAckSeq(l, b, m) THEN ClientBlockFails(k)
                  ELSE ClientBlockGoesOn(k, i, Acknowledged(l, b, m, Block(6, END)))

\* The callback of a line, if a client's transfer owns it.
CallsBack(l) ==
  calls' = IF l.whoami = CLIENT THEN [calls EXCEPT ![l.CliServNbr] = @ + 1] ELSE calls

(***************************************************************************)
(* The response to the end of a block download finishes the line on use,   *)
(* whatever its state is, and where there is none line 0.                  *)
(***************************************************************************)
ClientEndsBlockDownload(k) ==
  /\ ClientGetsBlock(k, 5)
  /\ Head(resp[k]).sub = END
  /\ LET t == transfers[client[k]]
         i == IF ClientLine(k) = NoLine THEN 0 ELSE ClientLine(k)
     IN  /\ ClientDoes(k, [t EXCEPT ![i] = Finished(@)], <<>>)
         /\ CallsBack(t[i])
         /\ UNCHANGED block

ClientBlockUpload(k) ==
  /\ ClientGetsBlock(k, 6)
  /\ LET m == Head(resp[k])
         t == transfers[client[k]]
         i == ClientLine(k)
     IN  IF i = NoLine THEN ClientBlockFails(k)
         ELSE LET b == block[client[k]][i]
                  l == RestartTimer(t[i])
              IN  \/ /\ b.rxstep = RXSTEP_INIT
                     /\ ClientBlockGoesOn(k, i,
                          IF LowBit(m) # INITIATE
                          THEN [line |-> l, block |-> b, frames |-> <<>>]
                          ELSE [line |-> l, frames |-> <<Block(5, START_UPLOAD)>>,
                                block |-> [b EXCEPT !.rxstep = RXSTEP_STARTED,
                                                    !.objsize = m.n]])
                  \/ /\ b.rxstep = RXSTEP_STARTED
                     /\ IF SegmentOverflows(l, b, m) THEN ClientBlockFails(k)
                        ELSE ClientBlockGoesOn(k, i, Received(l, b, m))
                  \/ /\ b.rxstep = RXSTEP_END
                     /\ IF LowBit(m) # END \/ WrongSize(l, b, m) THEN ClientBlockFails(k)
                        ELSE /\ ClientDoes(k, [t EXCEPT ![i] = Finished(Completed(l, b, m))],
                                           <<Block(5, END)>>)
                             /\ CallBack(k)
                             /\ UNCHANGED block

-----------------------------------------------------------------------------
(***************************************************************************)
(* _writeNetworkDict and _readNetworkDict with useBlockMode.               *)
(***************************************************************************)
StartsBlock(k, objsize) ==
  block' = [block EXCEPT ![client[k]][getSDOfreeLine(transfers[client[k]])] =
              [NoBlock EXCEPT !.objsize = objsize]]

writeNetworkDictBlock(k, index, v) ==
  /\ v \in Objects[index]
  /\ Size[v] <= SDO_MAX_LENGTH_TRANSFER
  /\ \E w \in Watchdogs :
       Starts(k, [op |-> DOWNLOAD, index |-> index, value |-> v],
              [InitLine(CLIENT, k, index, BLOCK_DOWNLOAD, w)
               EXCEPT !.count = Size[v], !.data = v],
              [Block(6, INITIATE) EXCEPT !.index = index, !.n = Size[v]])
  /\ StartsBlock(k, Size[v])

readNetworkDictBlock(k, index) ==
  /\ \E w \in Watchdogs :
       Starts(k, [op |-> UPLOAD, index |-> index, value |-> Nothing],
              InitLine(CLIENT, k, index, BLOCK_UPLOAD, w),
              [Block(5, INITIATE) EXCEPT !.index = index, !.n = SDO_BLOCK_SIZE])
  /\ StartsBlock(k, 0)

-----------------------------------------------------------------------------
ServerDispatches(k) ==
  \/ ~ServerReadsData(k) /\ ServerHandles(k) /\ ForgetsBlocks
  \/ ServerInitiateBlockUpload(k) \/ ServerBlockUpload(k)
  \/ ServerInitiateBlockDownload(k) \/ ServerBlockDownload(k)

ClientDispatches(k) ==
  \/ ~ClientReadsData(k) /\ ClientHandles(k) /\ ForgetsBlocks
  \/ ClientBlockDownload(k) \/ ClientEndsBlockDownload(k) \/ ClientBlockUpload(k)

Elapses(n, i) == SDOTimeoutAlarm(n, i) /\ ForgetsBlocks

PlainStart(k) ==
  /\ \/ \E index \in Indexes, v \in Values : writeNetworkDict(k, index, v)
     \/ \E index \in Indexes : readNetworkDict(k, index)
  /\ UNCHANGED block

BlockStart(k) ==
  \/ \E index \in Indexes, v \in Values : writeNetworkDictBlock(k, index, v)
  \/ \E index \in Indexes : readNetworkDictBlock(k, index)

Elsewhere ==
  /\ \/ \E k \in Conns : GetResult(k) \/ Lose(k) \/ Discard(k)
     \/ \E n \in Nodes : Stop(n) \/ Start(n)
  /\ ForgetsBlocks

BlockNext ==
  \/ \E k \in Conns : ServerDispatches(k) \/ ClientDispatches(k) \/ PlainStart(k) \/ BlockStart(k)
  \/ \E n \in Nodes, i \in Lines : Elapses(n, i)
  \/ Elsewhere

BlockSpec == BlockInit /\ [][BlockNext]_blockVars

\* The fairness of SDO.
BlockFairness ==
  /\ \A k \in Conns : WF_blockVars(ServerDispatches(k)) /\ WF_blockVars(ClientDispatches(k))
  /\ \A n \in Nodes, i \in Lines : WF_blockVars(Elapses(n, i))

FairBlockSpec == BlockSpec /\ BlockFairness

-----------------------------------------------------------------------------
(***************************************************************************)
(* Properties.  FinishedMeansServed of SDO is asked of block transfers too. *)
(***************************************************************************)
\* Line ip of np produces and line ic of nc consumes, and has been answered.
Transmits(k, np, ip, nc, ic) ==
  /\ block[nc][ic].rxstep # RXSTEP_INIT
  /\ \/ /\ np = client[k] /\ nc = server[k]
        /\ OnUse(transfers[np], k, CLIENT, ip) /\ transfers[np][ip].state = BLOCK_DOWNLOAD
        /\ OnUse(transfers[nc], k, SERVER, ic) /\ transfers[nc][ic].state = BLOCK_DOWNLOAD
     \/ /\ np = server[k] /\ nc = client[k]
        /\ OnUse(transfers[np], k, SERVER, ip) /\ transfers[np][ip].state = BLOCK_UPLOAD
        /\ OnUse(transfers[nc], k, CLIENT, ic) /\ transfers[nc][ic].state = BLOCK_UPLOAD

(***************************************************************************)
(* What lies before lastblockoffset is never sent again: the consumer has  *)
(* all of it, and what it has is one piece of one value.  Lost segments    *)
(* and acknowledgements may repeat bytes but leave no hole.                *)
(***************************************************************************)
NoHoles ==
  \A k \in Conns, np, nc \in Nodes, ip, ic \in Lines :
    Transmits(k, np, ip, nc, ic) =>
      /\ block[np][ip].lastblockoffset <= transfers[nc][ic].offset
      /\ transfers[nc][ic].data # Mixed

\* Frames that ask for a new transfer.
Initiates(m) == m.cs \in {1, 2} \/ (m.cs \in {5, 6} /\ m.sub = INITIATE)

(***************************************************************************)
(* A server in a block download takes whatever it gets but an abort for    *)
(* data.  It does not get the request of the next transfer then, as the    *)
(* client ends one transfer before it asks for another, by an abort if     *)
(* need be, unless that abort is lost too.                                 *)
(***************************************************************************)
NoRequestIsMisread ==
  \A k \in Conns : ServerReadsData(k) => ~Initiates(Head(req[k]))

(***************************************************************************)
(* Client and server agree on when a transfer is over: once the user has   *)
(* the result and nothing is in flight, neither of them holds a line,      *)
(* unless a frame was lost.                                                *)
(***************************************************************************)
NothingLeft ==
  losses = 0 =>
    \A k \in Conns :
      ~open[k] /\ req[k] = <<>> /\ resp[k] = <<>> =>
        /\ getSDOlineToClose(transfers[client[k]], k, CLIENT) = NoLine
        /\ getSDOlineToClose(transfers[server[k]], k, SERVER) = NoLine

(***************************************************************************)
(* Without a lost frame a transfer in blocks ends by itself like one in    *)
(* segments, watchdog or not; with one lost, by the watchdog.              *)
(***************************************************************************)
BlockTransfersEnd ==
  \A k \in Conns :
    open[k] ~> \/ ClientLine(k) = NoLine
               \/ transfers[client[k]][ClientLine(k)].state \notin InProgress
               \/ losses > 0 /\ transfers[client[k]][ClientLine(k)].timer = NO_TIMER

=============================================================================
