-------------------------------- MODULE SDO --------------------------------
(***************************************************************************)
(* Expedited and segmented SDO transfers of src/src/sdo.c between nodes:   *)
(* proceedSDO for both roles, the watchdog alarm of every line, the user's *)
(* calls, a bus that may lose frames, nodes that leave and re-enter the    *)
(* states with SDO communication.  A node is one thread at a time: every   *)
(* handler runs under the driver's mutex.                                  *)
(*                                                                         *)
(* A frame keeps its command specifier cs; last is the bit e of an         *)
(* initiate frame and the bit c of a segment; sub and seq belong to the    *)
(* block transfers of SDOBlock.  The user asks for one transfer at a time  *)
(* on a connection and passes a callback.                                  *)
(***************************************************************************)
EXTENDS SDOLine

CONSTANTS
  Nodes,
  client, server,  \* the node at each end of a connection
  HasClientEntry,  \* nodes whose dictionary has client entries (0x1280 ...)
  Objects,         \* what each object may hold
  Watchdogs,       \* what SetAlarm may return
  MayRefuse,       \* whether a dictionary may refuse an access
  LateAnswers,     \* whether frames may outlive the transfer they belong to
  MaxTransfers,    \* bound: transfers a user asks for on a connection
  MaxLosses,       \* bound: frames lost
  MaxStops         \* bound: times a node leaves SDO communication

ASSUME SDOAssumption ==
  /\ client \in [Conns -> Nodes] /\ server \in [Conns -> Nodes]
  /\ HasClientEntry \subseteq Nodes
  /\ Objects \in [Indexes -> (SUBSET Values) \ {{}}]
  /\ Watchdogs \subseteq {ARMED, NO_TIMER} /\ Watchdogs # {}
  /\ MayRefuse \in BOOLEAN /\ LateAnswers \in BOOLEAN
  /\ MaxTransfers \in Nat /\ MaxLosses \in Nat /\ MaxStops \in Nat

VARIABLES
  transfers,  \* the lines of every node
  running,    \* nodes that communicate by SDO: Pre_operational, Operational
  od,         \* the object dictionaries
  req, resp,  \* frames to the server and to the client of a connection
  requests,   \* ghost: the transfers asked for, the last one last
  open,       \* ghost: the user has not got the last one's result
  calls,      \* ghost: calls of the last one's callback
  served,     \* ghost: what the server last did for the connection
  losses, stops

vars == <<transfers, running, od, req, resp, requests, open, calls, served, losses, stops>>
userVars == <<requests, open>>
faultVars == <<running, losses, stops>>

-----------------------------------------------------------------------------
SEGMENT == 7    \* bytes a segment carries
EXPEDITED == 4  \* bytes an initiate frame carries

Frame(cs) ==
  [cs |-> cs, index |-> NoIndex, toggle |-> 0, last |-> FALSE,
   data |-> Nothing, from |-> 0, n |-> 0, sub |-> 0, seq |-> 0]

Abort == Frame(4)

SegmentLastShort(l, toggle) ==
  LET rest == getSDOlineRestBytes(l)
  IN  [Frame(0) EXCEPT !.toggle = toggle, !.last = rest < SEGMENT,
                       !.data = l.data, !.from = l.offset,
                       !.n = IF rest > SEGMENT THEN SEGMENT ELSE rest]

SegmentLastEarly(l, toggle) ==
  LET rest == getSDOlineRestBytes(l)
  IN  [Frame(0) EXCEPT !.toggle = toggle, !.last = rest <= SEGMENT + 1,
                       !.data = l.data, !.from = l.offset,
                       !.n = IF rest > SEGMENT THEN SEGMENT ELSE rest]

\* The next segment of a line that sends, cs = 0.
Segment(l, toggle) ==
  LET rest == getSDOlineRestBytes(l)
  IN  [Frame(0) EXCEPT !.toggle = toggle, !.last = rest <= SEGMENT,
                       !.data = l.data, !.from = l.offset,
                       !.n = IF rest > SEGMENT THEN SEGMENT ELSE rest]

NoRequest == [op |-> "none", index |-> NoIndex, value |-> Nothing]

Asked(k) == IF requests[k] = <<>> THEN NoRequest ELSE requests[k][Len(requests[k])]

InitialValue(i) == CHOOSE v \in Objects[i] : TRUE

Init ==
  /\ transfers = [n \in Nodes |-> [i \in Lines |-> ResetLine]]
  /\ running = Nodes
  /\ od = [n \in Nodes |-> [i \in Indexes |-> InitialValue(i)]]
  /\ req = [k \in Conns |-> <<>>] /\ resp = [k \in Conns |-> <<>>]
  /\ requests = [k \in Conns |-> <<>>]
  /\ open = [k \in Conns |-> FALSE]
  /\ calls = [k \in Conns |-> 0]
  /\ served = [k \in Conns |-> NoRequest]
  /\ losses = 0 /\ stops = 0

-----------------------------------------------------------------------------
(***************************************************************************)
(* The server's half of proceedSDO.                                        *)
(***************************************************************************)
ServerGets(k, cs) ==
  /\ server[k] \in running
  /\ req[k] # <<>>
  /\ Head(req[k]).cs = cs

ServerDoes(k, t, frames) ==
  /\ transfers' = [transfers EXCEPT ![server[k]] = t]
  /\ req' = [req EXCEPT ![k] = Tail(@)]
  /\ resp' = [resp EXCEPT ![k] = @ \o frames]
  /\ UNCHANGED <<userVars, calls, faultVars>>

ServerFails(k, frames) ==
  /\ ServerDoes(k, Failed(transfers[server[k]], k, SERVER), frames \o <<Abort>>)
  /\ UNCHANGED <<od, served>>

\* setODentry with the value the line's buffer makes.
Stores(k, index, value) ==
  /\ od' = [od EXCEPT ![server[k]][index] = value]
  /\ served' = [served EXCEPT ![k] = [op |-> DOWNLOAD, index |-> index, value |-> value]]

Refusals == IF MayRefuse THEN BOOLEAN ELSE {FALSE}

NoFreeLine(t, k) == getSDOfreeLine(t) = NoLine

\* An initiate request fails while a line is on use for it, of whatever state.
NoLineFor(t, k) ==
  getSDOlineOnUse(t, k, SERVER) # NoLine \/ getSDOfreeLine(t) = NoLine

\* cs 1: initiate download.
ServerInitiateDownload(k) ==
  /\ ServerGets(k, 1)
  /\ LET m == Head(req[k])
         t == transfers[server[k]]
         i == getSDOfreeLine(t)
         response == [Frame(3) EXCEPT !.index = m.index]
     IN  IF NoLineFor(t, k)
            \/ m.n > SDO_MAX_LENGTH_TRANSFER
         THEN ServerFails(k, <<>>)
         ELSE \E w \in Watchdogs :
                LET l == InitLine(SERVER, k, m.index, DOWNLOAD, w)
                IN  IF m.last
                    THEN \/ /\ ServerDoes(k, t, <<response>>)
                            /\ Stores(k, m.index,
                                      Assembled(SDOtoLine([l EXCEPT !.count = m.n], m)))
                         \/ /\ TRUE \in Refusals
                            /\ ServerFails(k, <<>>)
                    ELSE /\ ServerDoes(k, [t EXCEPT ![i] = [l EXCEPT !.count = m.n]],
                                       <<response>>)
                         /\ UNCHANGED <<od, served>>

\* The line a segment is for: right state, right toggle, room in the buffer.
SegmentFits(t, k, w, state, m) ==
  /\ Started(t, k, w, state)
  /\ LET l == t[getSDOlineOnUse(t, k, w)] IN l.toggle = m.toggle /\ Fits(l, m.n)

\* cs 0: download segment.  The response leaves before the value is stored.
ServerDownloadSegment(k) ==
  /\ ServerGets(k, 0)
  /\ LET m == Head(req[k])
         t == transfers[server[k]]
         i == getSDOlineOnUse(t, k, SERVER)
         response == [Frame(1) EXCEPT !.toggle = m.toggle]
     IN  IF ~SegmentFits(t, k, SERVER, DOWNLOAD, m)
         THEN ServerFails(k, <<>>)
         ELSE LET l == [SDOtoLine(RestartTimer(t[i]), m) EXCEPT !.toggle = Inverted(@)]
              IN  IF ~m.last
                  THEN /\ ServerDoes(k, [t EXCEPT ![i] = l], <<response>>)
                       /\ UNCHANGED <<od, served>>
                  ELSE \/ /\ ServerDoes(k, resetSDOline(t, i), <<response>>)
                          /\ Stores(k, l.index, Assembled(l))
                       \/ /\ TRUE \in Refusals
                          /\ ServerFails(k, <<response>>)

\* cs 2: initiate upload.
ServerInitiateUpload(k) ==
  /\ ServerGets(k, 2)
  /\ LET m == Head(req[k])
         t == transfers[server[k]]
         i == getSDOfreeLine(t)
         v == od[server[k]][m.index]
         expedited == Size[v] <= EXPEDITED
         response == [Frame(2) EXCEPT !.index = m.index, !.last = expedited,
                                      !.n = Size[v],
                                      !.data = IF expedited THEN v ELSE Nothing]
     IN  IF NoLineFor(t, k)
            \/ Size[v] > SDO_MAX_LENGTH_TRANSFER
         THEN ServerFails(k, <<>>)
         ELSE \/ /\ IF expedited
                    THEN ServerDoes(k, t, <<response>>)
                    ELSE \E w \in Watchdogs :
                           ServerDoes(k, [t EXCEPT ![i] =
                                            [InitLine(SERVER, k, m.index, UPLOAD, w)
                                             EXCEPT !.count = Size[v], !.data = v]],
                                      <<response>>)
                 /\ served' = [served EXCEPT ![k] =
                                 [op |-> UPLOAD, index |-> m.index, value |-> v]]
                 /\ UNCHANGED od
              \/ /\ TRUE \in Refusals
                 /\ ServerFails(k, <<>>)

\* cs 3: upload segment request.  The last segment releases the line.
ServerUploadSegment(k) ==
  /\ ServerGets(k, 3)
  /\ LET m == Head(req[k])
         t == transfers[server[k]]
         i == getSDOlineOnUse(t, k, SERVER)
     IN  IF ~SegmentFits(t, k, SERVER, UPLOAD, m)
         THEN ServerFails(k, <<>>)
         ELSE LET l == RestartTimer(t[i])
                  segment == Segment(l, l.toggle)
                  sent == [lineToSDO(l, segment.n) EXCEPT !.toggle = Inverted(@)]
              IN  /\ ServerDoes(k, IF segment.last THEN resetSDOline(t, i)
                                   ELSE [t EXCEPT ![i] = sent], <<segment>>)
                  /\ UNCHANGED <<od, served>>

\* cs 4: abort.
ServerAbort(k) ==
  /\ ServerGets(k, 4)
  /\ LET t == transfers[server[k]]
         i == getSDOlineOnUse(t, k, SERVER)
     IN  ServerDoes(k, IF i = NoLine THEN t ELSE resetSDOline(t, i), <<>>)
  /\ UNCHANGED <<od, served>>

-----------------------------------------------------------------------------
(***************************************************************************)
(* The client's half of proceedSDO.                                        *)
(***************************************************************************)
ClientGets(k, cs) ==
  /\ client[k] \in running
  /\ resp[k] # <<>>
  /\ Head(resp[k]).cs = cs

ClientDoes(k, t, frames) ==
  /\ transfers' = [transfers EXCEPT ![client[k]] = t]
  /\ resp' = [resp EXCEPT ![k] = Tail(@)]
  /\ req' = [req EXCEPT ![k] = @ \o frames]
  /\ UNCHANGED <<userVars, od, served, faultVars>>

\* failedSDO on a client calls nobody.
ClientFails(k) ==
  /\ ClientDoes(k, Failed(transfers[client[k]], k, CLIENT), <<Abort>>)
  /\ UNCHANGED calls

CallBack(k) == calls' = [calls EXCEPT ![k] = @ + 1]

ClientEnds(k, t) == ClientDoes(k, t, <<>>) /\ CallBack(k)

ClientWaits(k, t, frame) == ClientDoes(k, t, <<>>) /\ UNCHANGED calls

ClientGoesOn(k, t, frame) == ClientDoes(k, t, <<frame>>) /\ UNCHANGED calls

\* The end of a download, or its next segment.
NextSegment(k, t, i, toggle) ==
  LET l == RestartTimer(t[i])
      segment == Segment(l, toggle)
  IN  IF getSDOlineRestBytes(l) = 0
      THEN ClientEnds(k, [t EXCEPT ![i] = Finished(l)])
      ELSE ClientGoesOn(k, [t EXCEPT ![i] = [lineToSDO(l, segment.n)
                                             EXCEPT !.toggle = toggle]], segment)

\* cs 3: initiate download response.  Its index and subindex are not read.
ClientInitiateDownload(k) ==
  /\ ClientGets(k, 3)
  /\ LET t == transfers[client[k]]
         i == getSDOlineOnUse(t, k, CLIENT)
     IN  IF ~Started(t, k, CLIENT, DOWNLOAD)
         THEN ClientFails(k)
         ELSE NextSegment(k, t, i, t[i].toggle)

\* cs 1: download segment response.
ClientDownloadSegment(k) ==
  /\ ClientGets(k, 1)
  /\ LET t == transfers[client[k]]
         i == getSDOlineOnUse(t, k, CLIENT)
     IN  IF ~SegmentFits(t, k, CLIENT, DOWNLOAD, Head(resp[k]))
         THEN ClientFails(k)
         ELSE IF getSDOlineRestBytes(t[i]) = 0
         THEN NextSegment(k, t, i, t[i].toggle)
         ELSE NextSegment(k, t, i, Inverted(t[i].toggle))

\* cs 2: initiate upload response.  Its index and subindex are not read.
ClientInitiateUpload(k) ==
  /\ ClientGets(k, 2)
  /\ LET m == Head(resp[k])
         t == transfers[client[k]]
         i == getSDOlineOnUse(t, k, CLIENT)
     IN  IF ~Started(t, k, CLIENT, UPLOAD)
            \/ (m.last /\ ~Fits(t[i], m.n))
            \/ (~m.last /\ m.n > SDO_MAX_LENGTH_TRANSFER)
         THEN ClientFails(k)
         ELSE IF m.last
         THEN ClientEnds(k, [t EXCEPT ![i] = [Finished(SDOtoLine(t[i], m))
                                              EXCEPT !.count = m.n]])
         ELSE ClientGoesOn(k, [t EXCEPT ![i] = [RestartTimer(t[i]) EXCEPT !.count = m.n]],
                           Frame(3))

\* cs 0: upload segment.
ClientUploadSegment(k) ==
  /\ ClientGets(k, 0)
  /\ LET m == Head(resp[k])
         t == transfers[client[k]]
         i == getSDOlineOnUse(t, k, CLIENT)
     IN  IF ~SegmentFits(t, k, CLIENT, UPLOAD, m)
         THEN ClientFails(k)
         ELSE LET l == [SDOtoLine(RestartTimer(t[i]), m) EXCEPT !.toggle = Inverted(@)]
              IN  IF m.last
                  THEN ClientEnds(k, [t EXCEPT ![i] = Finished(l)])
                  ELSE ClientGoesOn(k, [t EXCEPT ![i] = l],
                                    [Frame(3) EXCEPT !.toggle = l.toggle])

\* cs 4: abort, of a line on use of whatever state.
ClientAbort(k) ==
  /\ ClientGets(k, 4)
  /\ LET t == transfers[client[k]]
         i == getSDOlineOnUse(t, k, CLIENT)
     IN  IF i = NoLine
         THEN ClientDoes(k, t, <<>>) /\ UNCHANGED calls
         ELSE ClientEnds(k, [t EXCEPT ![i] = StopTimer([@ EXCEPT !.state = ABORTED_RCV])])

-----------------------------------------------------------------------------
(***************************************************************************)
(* The watchdog.                                                           *)
(***************************************************************************)
\* Unless answers may be late, an alarm runs or a node comes back only when no
\* frame of the connection is in flight, and the user starts a transfer only
\* when no answer to an earlier one is.
NothingLate(k) == LateAnswers \/ (req[k] = <<>> /\ resp[k] = <<>>)

AlarmDue(n, i) ==
  transfers[n][i].timer = ARMED /\ NothingLate(transfers[n][i].CliServNbr)

(***************************************************************************)
(* SDOTimeoutAlarm.  It looks the peer's node id up among the client       *)
(* entries whatever the line's role is, and returns if there is none.      *)
(* Otherwise it sends an abort and calls the callback, and the line is     *)
(* reset by the callback or after it.                                      *)
(***************************************************************************)
SDOTimeoutAlarm(n, i) ==
  /\ AlarmDue(n, i)
  /\ LET l == transfers[n][i]
         k == l.CliServNbr
     IN  IF n \notin HasClientEntry
         THEN /\ transfers' = [transfers EXCEPT ![n][i].timer = STALE]
              /\ UNCHANGED <<req, resp, calls>>
         ELSE /\ transfers' = [transfers EXCEPT ![n][i] = ResetLine]
              /\ req' = IF l.whoami = CLIENT THEN [req EXCEPT ![k] = Append(@, Abort)] ELSE req
              /\ resp' = IF l.whoami = SERVER THEN [resp EXCEPT ![k] = Append(@, Abort)] ELSE resp
              /\ IF l.whoami = CLIENT THEN CallBack(k) ELSE UNCHANGED calls
  /\ UNCHANGED <<userVars, od, served, faultVars>>

-----------------------------------------------------------------------------
(***************************************************************************)
(* The user of a connection.                                               *)
(***************************************************************************)
\* _writeNetworkDict and _readNetworkDict, when they do not return an error.
Starts(k, request, l, frame) ==
  LET t == transfers[client[k]]
      i == getSDOfreeLine(t)
  IN  /\ ~open[k] /\ Len(requests[k]) < MaxTransfers
      /\ client[k] \in running
      /\ getSDOlineOnUse(t, k, CLIENT) = NoLine
      /\ i # NoLine
      /\ LateAnswers \/ resp[k] = <<>>
      /\ transfers' = [transfers EXCEPT ![client[k]][i] = l]
      /\ req' = [req EXCEPT ![k] = Append(@, frame)]
      /\ requests' = [requests EXCEPT ![k] = Append(@, request)]
      /\ open' = [open EXCEPT ![k] = TRUE]
      /\ calls' = [calls EXCEPT ![k] = 0]
      /\ served' = [served EXCEPT ![k] = NoRequest]
      /\ UNCHANGED <<resp, od, faultVars>>

writeNetworkDict(k, index, v) ==
  LET expedited == Size[v] <= EXPEDITED
  IN  /\ v \in Objects[index]
      /\ Size[v] <= SDO_MAX_LENGTH_TRANSFER
      /\ \E w \in Watchdogs :
           Starts(k, [op |-> DOWNLOAD, index |-> index, value |-> v],
                  [InitLine(CLIENT, k, index, DOWNLOAD, w)
                   EXCEPT !.count = Size[v], !.data = v,
                          !.offset = IF expedited THEN Size[v] ELSE 0],
                  [Frame(1) EXCEPT !.index = index, !.last = expedited, !.n = Size[v],
                                   !.data = IF expedited THEN v ELSE Nothing])

readNetworkDict(k, index) ==
  \E w \in Watchdogs :
    Starts(k, [op |-> UPLOAD, index |-> index, value |-> Nothing],
           InitLine(CLIENT, k, index, UPLOAD, w), [Frame(2) EXCEPT !.index = index])

\* getReadResultNetworkDict and getWriteResultNetworkDict release the line of
\* a finished transfer only.
AfterResult(t, k) ==
  IF Started(t, k, CLIENT, FINISHED) THEN resetSDOline(t, getSDOlineOnUse(t, k, CLIENT)) ELSE t

closeLineOnUse(t, k) ==
  LET i == getSDOlineOnUse(t, k, CLIENT)
  IN  IF i = NoLine THEN t ELSE resetSDOline(t, i)

closeSDOtransfer(t, k) ==
  LET i == getSDOlineToClose(t, k, CLIENT)
  IN  IF i = NoLine THEN t ELSE resetSDOline(t, i)

\* The user sees that the transfer is over, takes the result and closes it.
GetResult(k) ==
  LET t == transfers[client[k]]
      i == getSDOlineOnUse(t, k, CLIENT)
  IN  /\ open[k]
      /\ IF i = NoLine THEN TRUE ELSE t[i].state \notin InProgress
      /\ open' = [open EXCEPT ![k] = FALSE]
      /\ transfers' = [transfers EXCEPT ![client[k]] =
                         closeSDOtransfer(AfterResult(t, k), k)]
      /\ UNCHANGED <<req, resp, od, requests, calls, served, faultVars>>

-----------------------------------------------------------------------------
(***************************************************************************)
(* Faults: lost frames, and nodes that stop communicating by SDO           *)
(* (switchCommunicationState resets every line, frames are discarded).     *)
(***************************************************************************)
Lose(k) ==
  /\ losses < MaxLosses
  /\ losses' = losses + 1
  /\ \/ req[k] # <<>> /\ req' = [req EXCEPT ![k] = Tail(@)] /\ UNCHANGED resp
     \/ resp[k] # <<>> /\ resp' = [resp EXCEPT ![k] = Tail(@)] /\ UNCHANGED req
  /\ UNCHANGED <<transfers, running, od, userVars, calls, served, stops>>

resetSDO(n) == [i \in Lines |-> ResetLine]

Stop(n) ==
  /\ n \in running /\ stops < MaxStops
  /\ running' = running \ {n}
  /\ stops' = stops + 1
  /\ transfers' = [transfers EXCEPT ![n] = resetSDO(n)]
  /\ UNCHANGED <<od, req, resp, userVars, calls, served, losses>>

Start(n) ==
  /\ n \notin running
  /\ \A k \in Conns : n \in {client[k], server[k]} => NothingLate(k)
  /\ running' = running \cup {n}
  /\ UNCHANGED <<transfers, od, req, resp, userVars, calls, served, losses, stops>>

Discard(k) ==
  /\ \/ server[k] \notin running /\ req[k] # <<>>
        /\ req' = [req EXCEPT ![k] = Tail(@)] /\ UNCHANGED resp
     \/ client[k] \notin running /\ resp[k] # <<>>
        /\ resp' = [resp EXCEPT ![k] = Tail(@)] /\ UNCHANGED req
  /\ UNCHANGED <<transfers, od, userVars, calls, served, faultVars>>

-----------------------------------------------------------------------------
ServerHandles(k) ==
  \/ ServerInitiateDownload(k) \/ ServerDownloadSegment(k) \/ ServerInitiateUpload(k)
  \/ ServerUploadSegment(k) \/ ServerAbort(k)

ClientHandles(k) ==
  \/ ClientInitiateDownload(k) \/ ClientDownloadSegment(k) \/ ClientInitiateUpload(k)
  \/ ClientUploadSegment(k) \/ ClientAbort(k)

Next ==
  \/ \E k \in Conns : ServerHandles(k) \/ ClientHandles(k)
  \/ \E n \in Nodes, i \in Lines : SDOTimeoutAlarm(n, i)
  \/ \E k \in Conns, index \in Indexes, v \in Values : writeNetworkDict(k, index, v)
  \/ \E k \in Conns, index \in Indexes : readNetworkDict(k, index)
  \/ \E k \in Conns : GetResult(k) \/ Lose(k) \/ Discard(k)
  \/ \E n \in Nodes : Stop(n) \/ Start(n)

Spec == Init /\ [][Next]_vars

(***************************************************************************)
(* The receive threads dispatch every frame and the alarms are called      *)
(* (EveryAlarmIsServed of UnixTimer); users and faults owe nothing.        *)
(***************************************************************************)
Fairness ==
  /\ \A k \in Conns : WF_vars(ServerHandles(k)) /\ WF_vars(ClientHandles(k))
  /\ \A n \in Nodes, i \in Lines : WF_vars(SDOTimeoutAlarm(n, i))

FairSpec == Spec /\ Fairness

-----------------------------------------------------------------------------
(***************************************************************************)
(* Properties.                                                             *)
(***************************************************************************)
(***************************************************************************)
(* proceedSDO takes the first line on use for the sender of a frame: there *)
(* is never a second one in use for it, whatever finished, aborted and     *)
(* timed-out transfers are still waiting to be closed.                     *)
(***************************************************************************)
OneLinePerPeer ==
  \A n \in Nodes, i, j \in Lines, k \in Conns, w \in {SERVER, CLIENT} :
    OnUse(transfers[n], k, w, i) /\ OnUse(transfers[n], k, w, j) => i = j

(***************************************************************************)
(* A line has its watchdog armed exactly while its transfer is in          *)
(* progress: no transfer hangs for ever and no alarm hits a line that has  *)
(* been given to another transfer.                                         *)
(***************************************************************************)
WatchdogGuardsTransfer ==
  \A n \in Nodes, i \in Lines :
    transfers[n][i].timer = ARMED <=> transfers[n][i].state \in InProgress

(***************************************************************************)
(* What a server writes is a value some client asked to write to that      *)
(* object, complete and unmixed, in spite of transfers cut short, retried  *)
(* and overtaken by timeouts, unless a frame is lost besides: the toggle   *)
(* bit then takes a late segment for the one that is missing.              *)
(***************************************************************************)
OnlyWholeRequestedWrites ==
  losses = 0 => \A n \in Nodes, index \in Indexes :
    \/ od[n][index] = InitialValue(index)
    \/ \E k \in Conns : /\ server[k] = n
                        /\ \E r \in 1 .. Len(requests[k]) :
                             requests[k][r] = [op |-> DOWNLOAD, index |-> index,
                                               value |-> od[n][index]]

(***************************************************************************)
(* SDO_FINISHED means what it says: the server stored the value of this    *)
(* very transfer, or the bytes received are what this transfer's object    *)
(* held when the server answered, and the user was called once (sdo.h:     *)
(* "called at the end of the exchange").                                   *)
(***************************************************************************)
FinishedMeansServed ==
  \A k \in Conns :
    LET t == transfers[client[k]] IN
    Started(t, k, CLIENT, FINISHED) =>
      /\ served[k] = [op |-> Asked(k).op, index |-> Asked(k).index,
                      value |-> Assembled(t[getSDOlineOnUse(t, k, CLIENT)])]
      /\ calls[k] = 1

(***************************************************************************)
(* Once the user has taken the result and closed the transfer, no line is  *)
(* left to it: the four lines are never used up by transfers that ended.   *)
(***************************************************************************)
NoLineLeaks ==
  \A k \in Conns : ~open[k] => getSDOlineToClose(transfers[client[k]], k, CLIENT) = NoLine

(***************************************************************************)
(* Without faults and timeouts every transfer ends by itself: each segment *)
(* and each response calls for the next one.                               *)
(***************************************************************************)
TransfersEnd ==
  \A k \in Conns : open[k] ~> getSDOlineOnUse(transfers[client[k]], k, CLIENT) = NoLine
                              \/ Started(transfers[client[k]], k, CLIENT, FINISHED)
                              \/ Started(transfers[client[k]], k, CLIENT, ABORTED_RCV)

=============================================================================
