----------------------------- MODULE SDO_proofs -----------------------------
(***************************************************************************)
(* Proofs about SDO, for any number of nodes, connections, lines,          *)
(* transfers, losses and stops: whose the lines of transfers[] are; that a *)
(* server writes nothing but what was asked for, with answers as late as   *)
(* they like; and that a finished transfer was served, with answers in     *)
(* time and dictionaries that do not refuse.  SDOBlock is here for the     *)
(* frame that ends a block upload: SDOBlock_proofs uses the same dialogue. *)
(***************************************************************************)
EXTENDS SDOBlock, WellFoundedInduction, TLAPS

USE DEF RESET, FINISHED, DOWNLOAD, UPLOAD, BLOCK_DOWNLOAD, BLOCK_UPLOAD, ABORTED_RCV,
        ABORTED_INTERNAL, SERVER, CLIENT, UNKNOWN, NO_TIMER, ARMED, STALE

-----------------------------------------------------------------------------
(***************************************************************************)
(* The inductive invariant.                                                *)
(***************************************************************************)
Fields ==
  {"state", "whoami", "CliServNbr", "index", "timer", "toggle", "count", "offset", "data"}

\* Every SetAlarm finds a row, and every node can tell who its peers are.
WatchdogsWork == Watchdogs = {ARMED} /\ HasClientEntry = Nodes

\* A line has a watchdog of its own exactly while its transfer is in progress.
Guarded(l) == l.timer = ARMED <=> l.state \in InProgress

\* The lines of a node.
LinesOK(t) ==
  /\ DOMAIN t = Lines
  /\ \A i \in Lines : DOMAIN t[i] = Fields
  /\ \A i \in Lines : t[i].whoami = SERVER => t[i].state # ABORTED_INTERNAL
  /\ \A i, j \in Lines, k \in Conns, w \in {SERVER, CLIENT} :
       LineToClose(t, k, w, i) /\ LineToClose(t, k, w, j) => i = j
  /\ WatchdogsWork => \A i \in Lines : Guarded(t[i])

\* A line of node n that is in use or watched is one of n's connections.
Placed(n, l) ==
  l.state # RESET \/ l.timer = ARMED =>
    /\ l.state # RESET /\ l.CliServNbr \in Conns
    /\ \/ l.whoami = CLIENT /\ client[l.CliServNbr] = n
       \/ l.whoami = SERVER /\ server[l.CliServNbr] = n

LineInvariant ==
  /\ DOMAIN transfers = Nodes /\ DOMAIN open = Conns
  /\ \A n \in Nodes : LinesOK(transfers[n]) /\ \A i \in Lines : Placed(n, transfers[n][i])
  /\ \A n \in Nodes \ running, i \in Lines : transfers[n][i].state = RESET
  /\ \A k \in Conns : ~open[k] =>
       \A i \in Lines : ~LineToClose(transfers[client[k]], k, CLIENT, i)

-----------------------------------------------------------------------------
(***************************************************************************)
(* Finding a line.                                                         *)
(***************************************************************************)
\* The loops of getSDOfreeLine, getSDOlineOnUse and getSDOlineToClose find a
\* line if there is one, and one of those they look for.
LEMMA LowestIsIn ==
  ASSUME NEW S, S \subseteq Lines
  PROVE  /\ S = {} => Lowest(S) = NoLine
         /\ S # {} => Lowest(S) \in S /\ Lowest(S) # NoLine
<1>1. S \subseteq Nat
  BY LineAssumption DEF Lines
<1>2. ASSUME S # {} PROVE Lowest(S) \in S
  <2>1. IsWellFoundedOn(OpToRel(<, Nat), Nat)
    BY NatLessThanWellFounded, Zenon
  <2>2. PICK n \in S : \A m \in S : ~(<<m, n>> \in OpToRel(<, Nat))
    BY <1>1, <1>2, <2>1, WFMin, Zenon
  <2>3. \A m \in S : ~(m < n)
    BY <1>1, <2>2, Zenon DEF OpToRel
  <2>4. ASSUME NEW m \in S PROVE n <= m
    <3>1. m \in Nat /\ n \in Nat
      BY <1>1, <2>2
    <3> QED BY <2>3, <3>1
  <2> QED BY <1>2, <2>2, <2>4, Zenon DEF Lowest
<1>3. NoLine \notin S
  BY <1>1 DEF NoLine
<1>4. S = {} => Lowest(S) = NoLine
  BY Zenon DEF Lowest
<1> QED BY <1>2, <1>3, <1>4, Zenon

\* getSDOfreeLine returns a line that nobody uses.
LEMMA FreeLineIsFree ==
  ASSUME NEW t, getSDOfreeLine(t) # NoLine
  PROVE  getSDOfreeLine(t) \in Lines /\ t[getSDOfreeLine(t)].state = RESET
BY LowestIsIn DEF getSDOfreeLine

\* getSDOlineOnUse returns a line on use for this peer and role, or there is none.
LEMMA LineOnUseIsOnUse ==
  ASSUME NEW t, NEW k, NEW w
  PROVE  LET i == getSDOlineOnUse(t, k, w)
         IN  /\ i # NoLine => i \in Lines /\ OnUse(t, k, w, i)
             /\ i = NoLine => \A j \in Lines : ~OnUse(t, k, w, j)
BY LowestIsIn DEF getSDOlineOnUse

\* getSDOlineToClose returns a line this peer and role hold, or there is none.
LEMMA LineToCloseIsToClose ==
  ASSUME NEW t, NEW k, NEW w
  PROVE  LET i == getSDOlineToClose(t, k, w)
         IN  /\ i # NoLine => i \in Lines /\ LineToClose(t, k, w, i)
             /\ i = NoLine => \A j \in Lines : ~LineToClose(t, k, w, j)
BY LowestIsIn DEF getSDOlineToClose

-----------------------------------------------------------------------------
(***************************************************************************)
(* What a step does to the lines of a node: it leaves them, resets them,   *)
(* goes on with their transfers, or opens one.                             *)
(***************************************************************************)
\* Line l becomes m and stays its peer's.
Kept(l, m) ==
  /\ l.state # RESET /\ m.state # RESET
  /\ m.CliServNbr = l.CliServNbr /\ m.whoami = l.whoami
  /\ DOMAIN m = Fields
  /\ m.whoami = SERVER => m.state # ABORTED_INTERNAL
  /\ WatchdogsWork /\ Guarded(l) => Guarded(m)

\* No line is opened.
Narrows(t, u) ==
  /\ DOMAIN u = Lines
  /\ \A i \in Lines : u[i] = t[i] \/ u[i] = ResetLine \/ Kept(t[i], u[i])

\* One free line is opened for peer k in role w, which has none.
Opens(t, u, k, w) ==
  \E i \in Lines :
    /\ \A j \in Lines : ~LineToClose(t, k, w, j)
    /\ DOMAIN u = Lines /\ \A j \in Lines \ {i} : u[j] = t[j]
    /\ DOMAIN u[i] = Fields
    /\ u[i].whoami = w /\ u[i].CliServNbr = k
    /\ u[i].state \notin {RESET, ABORTED_INTERNAL}
    /\ WatchdogsWork => Guarded(u[i])

\* A step that leaves, resets or goes on with lines gives nobody a new one.
LEMMA NarrowsKeeps ==
  ASSUME NEW t, NEW u, LinesOK(t), Narrows(t, u)
  PROVE  /\ LinesOK(u)
         /\ \A k \in Conns, w \in {SERVER, CLIENT}, i \in Lines :
              LineToClose(u, k, w, i) => LineToClose(t, k, w, i)
         /\ \A i \in Lines : t[i].state = RESET => u[i].state = RESET
         /\ \A n : \A i \in Lines : Placed(n, t[i]) => Placed(n, u[i])
<1>1. ASSUME NEW k \in Conns, NEW w \in {SERVER, CLIENT}, NEW i \in Lines, LineToClose(u, k, w, i)
      PROVE  LineToClose(t, k, w, i)
  BY <1>1 DEF Narrows, Kept, LineToClose, ResetLine
<1>2. ASSUME NEW i \in Lines
      PROVE  /\ DOMAIN u[i] = Fields
             /\ u[i].whoami = SERVER => u[i].state # ABORTED_INTERNAL
  BY DEF LinesOK, Narrows, Kept, ResetLine, Fields
<1>3. ASSUME NEW i \in Lines, WatchdogsWork PROVE Guarded(u[i])
  <2>1. Guarded(ResetLine)
    BY DEF Guarded, ResetLine, InProgress
  <2> QED BY <1>3, <2>1 DEF LinesOK, Narrows, Kept
<1>4. ASSUME NEW i \in Lines, t[i].state = RESET PROVE u[i].state = RESET
  BY <1>4 DEF Narrows, Kept, ResetLine
<1>5. ASSUME NEW n, NEW i \in Lines, Placed(n, t[i]) PROVE Placed(n, u[i])
  BY <1>5 DEF Narrows, Kept, Placed, ResetLine
<1> QED BY <1>1, <1>2, <1>3, <1>4, <1>5 DEF LinesOK, Narrows

\* A step that opens a line gives one to the peer that had none, and to nobody else.
LEMMA OpensKeeps ==
  ASSUME NEW t, NEW u, NEW k \in Conns, NEW w \in {SERVER, CLIENT}, LinesOK(t), Opens(t, u, k, w)
  PROVE  /\ LinesOK(u)
         /\ \A h \in Conns, v \in {SERVER, CLIENT}, i \in Lines :
              LineToClose(u, h, v, i) => LineToClose(t, h, v, i) \/ (h = k /\ v = w)
         /\ \A n : (\A i \in Lines : Placed(n, t[i])) /\ n = (IF w = CLIENT THEN client[k] ELSE server[k])
                   => \A i \in Lines : Placed(n, u[i])
<1>1. PICK i \in Lines :
        /\ \A j \in Lines : ~LineToClose(t, k, w, j)
        /\ DOMAIN u = Lines /\ \A j \in Lines \ {i} : u[j] = t[j]
        /\ DOMAIN u[i] = Fields
        /\ u[i].whoami = w /\ u[i].CliServNbr = k
        /\ u[i].state \notin {RESET, ABORTED_INTERNAL}
        /\ WatchdogsWork => Guarded(u[i])
  BY DEF Opens
<1>2. ASSUME NEW h \in Conns, NEW v \in {SERVER, CLIENT}, NEW j \in Lines, LineToClose(u, h, v, j)
      PROVE  IF j = i THEN h = k /\ v = w
             ELSE LineToClose(t, h, v, j) /\ ~(h = k /\ v = w)
  BY <1>1, <1>2 DEF LineToClose
<1>3. ASSUME NEW j \in Lines
      PROVE  /\ DOMAIN u[j] = Fields
             /\ u[j].whoami = SERVER => u[j].state # ABORTED_INTERNAL
             /\ WatchdogsWork => Guarded(u[j])
  BY <1>1 DEF LinesOK
<1>4. ASSUME NEW a \in Lines, NEW b \in Lines, NEW h \in Conns, NEW v \in {SERVER, CLIENT},
             LineToClose(u, h, v, a), LineToClose(u, h, v, b)
      PROVE  a = b
  BY <1>2, <1>4 DEF LinesOK
<1>5. ASSUME NEW n, \A j \in Lines : Placed(n, t[j]), n = (IF w = CLIENT THEN client[k] ELSE server[k]),
             NEW j \in Lines
      PROVE  Placed(n, u[j])
  BY <1>1, <1>5 DEF Placed
<1> QED BY <1>1, <1>2, <1>3, <1>4, <1>5 DEF LinesOK

\* The same for a client's line.
LEMMA ClientOpensKeeps ==
  ASSUME NEW t, NEW u, NEW k \in Conns, LinesOK(t), Opens(t, u, k, CLIENT)
  PROVE  /\ LinesOK(u)
         /\ \A h \in Conns \ {k}, i \in Lines :
              LineToClose(u, h, CLIENT, i) => LineToClose(t, h, CLIENT, i)
         /\ (\A i \in Lines : Placed(client[k], t[i])) => \A i \in Lines : Placed(client[k], u[i])
BY OpensKeeps

-----------------------------------------------------------------------------
(***************************************************************************)
(* The steps of a transfer, for a line l of the right record fields.       *)
(***************************************************************************)
Owned(l, m) ==
  /\ m.CliServNbr = l.CliServNbr /\ m.whoami = l.whoami /\ DOMAIN m = Fields

\* A transfer in progress goes on; its watchdog is left or restarted.
GoesOn(l, m) ==
  /\ Owned(l, m) /\ l.state \in InProgress /\ m.state = l.state
  /\ m.timer = l.timer \/ m.timer = IF l.timer = NO_TIMER THEN NO_TIMER ELSE ARMED

\* A transfer ends without being reset, and so does its watchdog.
Ends(l, m) ==
  /\ Owned(l, m) /\ l.state # RESET /\ m.timer = NO_TIMER
  /\ m.state \in {FINISHED, ABORTED_RCV, ABORTED_INTERNAL}
  /\ m.state = ABORTED_INTERNAL => l.whoami = CLIENT

\* A transfer that goes on or ends keeps its peer, its role and a watchdog that fits.
LEMMA GoesOnOrEnds ==
  ASSUME NEW l, NEW m, GoesOn(l, m) \/ Ends(l, m)
  PROVE  Kept(l, m)
BY DEF GoesOn, Ends, Owned, Kept, Guarded, InProgress

\* Leaving all lines as they are.
LEMMA SameNarrows ==
  ASSUME NEW t, LinesOK(t)
  PROVE  Narrows(t, t)
BY DEF LinesOK, Narrows

\* resetSDOline, on whichever line.
LEMMA ResetNarrows ==
  ASSUME NEW t, LinesOK(t), NEW i \in Lines
  PROVE  Narrows(t, resetSDOline(t, i))
BY DEF LinesOK, Narrows, resetSDOline

\* One line goes on or ends, the others stay.
LEMMA KeptNarrows ==
  ASSUME NEW t, LinesOK(t), NEW i \in Lines, NEW m, GoesOn(t[i], m) \/ Ends(t[i], m)
  PROVE  Narrows(t, [t EXCEPT ![i] = m])
BY GoesOnOrEnds DEF LinesOK, Narrows

\* failedSDO resets a server's line and aborts a client's.
LEMMA FailedNarrows ==
  ASSUME NEW t, LinesOK(t), NEW k \in Conns, NEW w \in {SERVER, CLIENT}
  PROVE  Narrows(t, Failed(t, k, w))
<1> DEFINE i == getSDOlineOnUse(t, k, w)
           m == StopTimer([t[i] EXCEPT !.state = ABORTED_INTERNAL])
<1>1. CASE i = NoLine
  BY <1>1, SameNarrows DEF Failed
<1>2. CASE i # NoLine /\ w = SERVER
  <2>1. i \in Lines
    BY <1>2, LineOnUseIsOnUse
  <2>2. Failed(t, k, w) = resetSDOline(t, i)
    BY <1>2 DEF Failed
  <2> HIDE DEF i
  <2> QED BY <2>1, <2>2, ResetNarrows
<1>3. CASE i # NoLine /\ w = CLIENT
  <2>1. i \in Lines /\ OnUse(t, k, w, i)
    BY <1>3, LineOnUseIsOnUse
  <2>2. Ends(t[i], m)
    BY <1>3, <2>1 DEF LinesOK, OnUse, LineToClose, Ends, Owned, StopTimer, Fields
  <2>3. Failed(t, k, w) = [t EXCEPT ![i] = m]
    BY <1>3 DEF Failed
  <2> HIDE DEF i, m
  <2>4. Narrows(t, [t EXCEPT ![i] = m])
    BY <2>1, <2>2, KeptNarrows
  <2> QED BY <2>3, <2>4
<1> QED BY <1>1, <1>2, <1>3

\* A server's new line.
LEMMA ServerOpens ==
  ASSUME NEW t, LinesOK(t), NEW k \in Conns, ~NoLineFor(t, k),
         NEW l, DOMAIN l = Fields, l.CliServNbr = k, l.whoami = SERVER,
         l.state \in InProgress, l.timer \in Watchdogs
  PROVE  Opens(t, [t EXCEPT ![getSDOfreeLine(t)] = l], k, SERVER)
<1>1. \A j \in Lines : ~LineToClose(t, k, SERVER, j)
  <2>1. \A j \in Lines : ~OnUse(t, k, SERVER, j)
    BY LineOnUseIsOnUse DEF NoLineFor
  <2> QED BY <2>1 DEF OnUse, LineToClose, LinesOK
<1>2. getSDOfreeLine(t) \in Lines
  BY FreeLineIsFree DEF NoLineFor
<1>3. WatchdogsWork => Guarded(l)
  BY DEF WatchdogsWork, Guarded, InProgress
<1> QED BY <1>1, <1>2, <1>3 DEF Opens, LinesOK, InProgress

-----------------------------------------------------------------------------
(***************************************************************************)
(* A step that changes the lines of one node, and not whether users wait.  *)
(***************************************************************************)
LEMMA NodeStepKeeps ==
  ASSUME LineInvariant, NEW n \in Nodes, NEW u,
         transfers' = [transfers EXCEPT ![n] = u], open' = open, running' = running,
         \/ Narrows(transfers[n], u)
         \/ \E k \in Conns : server[k] = n /\ n \in running /\ Opens(transfers[n], u, k, SERVER)
  PROVE  LineInvariant'
<1>1. /\ LinesOK(u)
      /\ \A k \in Conns, i \in Lines :
           LineToClose(u, k, CLIENT, i) => LineToClose(transfers[n], k, CLIENT, i)
      /\ \A i \in Lines : Placed(n, u[i])
      /\ n \in running \/ \A i \in Lines : u[i].state = RESET
  <2>1. CASE Narrows(transfers[n], u)
    <3> DEFINE t == transfers[n]
    <3>1. /\ LinesOK(t) /\ \A i \in Lines : Placed(n, t[i])
          /\ n \in running \/ \A i \in Lines : t[i].state = RESET
      BY DEF LineInvariant
    <3> HIDE DEF t
    <3>2. LinesOK(u) /\ \A i \in Lines : t[i].state = RESET => u[i].state = RESET
      BY <2>1, <3>1, NarrowsKeeps DEF t
    <3>3. \A i \in Lines : Placed(n, u[i])
      BY <2>1, <3>1, NarrowsKeeps DEF t
    <3>4. \A k \in Conns, w \in {SERVER, CLIENT}, i \in Lines :
            LineToClose(u, k, w, i) => LineToClose(t, k, w, i)
      BY <2>1, <3>1, NarrowsKeeps DEF t
    <3> QED BY <3>1, <3>2, <3>3, <3>4 DEF t
  <2>2. CASE \E k \in Conns : server[k] = n /\ n \in running /\ Opens(transfers[n], u, k, SERVER)
    BY <2>2, OpensKeeps DEF LineInvariant
  <2> QED BY <2>1, <2>2
<1>2. \A m \in Nodes : transfers'[m] = IF m = n THEN u ELSE transfers[m]
  BY DEF LineInvariant
<1>3. ASSUME NEW m \in Nodes
      PROVE  /\ LinesOK(transfers'[m]) /\ \A i \in Lines : Placed(m, transfers'[m][i])
             /\ m \in running \/ \A i \in Lines : transfers'[m][i].state = RESET
  BY <1>1, <1>2 DEF LineInvariant
<1>4. ASSUME NEW k \in Conns, ~open[k], NEW i \in Lines
      PROVE  ~LineToClose(transfers'[client[k]], k, CLIENT, i)
  BY <1>1, <1>2, <1>4, SDOAssumption DEF LineInvariant
<1>5. DOMAIN transfers' = Nodes
  BY DEF LineInvariant
<1> QED BY <1>3, <1>4, <1>5 DEF LineInvariant

\* What a server does with a frame, if the lines change in one of the two ways.
LEMMA ServerDoesKeeps ==
  ASSUME LineInvariant, NEW k \in Conns, NEW t, NEW frames, ServerDoes(k, t, frames),
         \/ Narrows(transfers[server[k]], t)
         \/ server[k] \in running /\ Opens(transfers[server[k]], t, k, SERVER)
  PROVE  LineInvariant'
BY NodeStepKeeps, SDOAssumption DEF ServerDoes, userVars, faultVars

\* The same for a client, whose lines are opened by the user alone.
LEMMA ClientDoesKeeps ==
  ASSUME LineInvariant, NEW k \in Conns, NEW t, NEW frames, ClientDoes(k, t, frames),
         Narrows(transfers[client[k]], t)
  PROVE  LineInvariant'
BY NodeStepKeeps, SDOAssumption DEF ClientDoes, userVars, faultVars

\* failedSDO of a server.
LEMMA ServerFailsKeeps ==
  ASSUME LineInvariant, NEW k \in Conns, NEW frames, ServerFails(k, frames)
  PROVE  LineInvariant'
BY ServerDoesKeeps, FailedNarrows, SDOAssumption DEF ServerFails, LineInvariant

\* failedSDO of a client.
LEMMA ClientFailsKeeps ==
  ASSUME LineInvariant, NEW k \in Conns, ClientFails(k)
  PROVE  LineInvariant'
BY ClientDoesKeeps, FailedNarrows, SDOAssumption DEF ClientFails, LineInvariant

-----------------------------------------------------------------------------
(***************************************************************************)
(* The server's half of proceedSDO keeps the invariant.                    *)
(***************************************************************************)
LEMMA ServerInitiatesKeeps ==
  ASSUME LineInvariant, NEW k \in Conns, ServerInitiateDownload(k) \/ ServerInitiateUpload(k)
  PROVE  LineInvariant'
<1> DEFINE t == transfers[server[k]]
           m == Head(req[k])
<1>1. LinesOK(t) /\ server[k] \in running
  BY SDOAssumption DEF LineInvariant, ServerInitiateDownload, ServerInitiateUpload, ServerGets
<1>2. ASSUME NEW l, DOMAIN l = Fields, l.CliServNbr = k, l.whoami = SERVER,
             l.state \in InProgress, l.timer \in Watchdogs, NEW f, ~NoLineFor(t, k),
             ServerDoes(k, [t EXCEPT ![getSDOfreeLine(t)] = l], f)
      PROVE  LineInvariant'
  BY <1>1, <1>2, ServerOpens, ServerDoesKeeps
<1>3. ASSUME NEW f, ServerDoes(k, t, f) PROVE LineInvariant'
  BY <1>1, <1>3, SameNarrows, ServerDoesKeeps
<1>4. CASE ServerInitiateDownload(k)
  <2> DEFINE l(w) == [InitLine(SERVER, k, m.index, DOWNLOAD, w) EXCEPT !.count = m.n]
  <2>1. \/ \E f : ServerFails(k, f)
        \/ \E f : ServerDoes(k, t, f)
        \/ /\ ~NoLineFor(t, k)
           /\ \E w \in Watchdogs : \E f :
                ServerDoes(k, [t EXCEPT ![getSDOfreeLine(t)] = l(w)], f)
    BY <1>4 DEF ServerInitiateDownload
  <2>2. \A w \in Watchdogs : /\ DOMAIN l(w) = Fields /\ l(w).CliServNbr = k
                             /\ l(w).whoami = SERVER /\ l(w).state \in InProgress
                             /\ l(w).timer = w
    BY DEF InitLine, ResetLine, Fields, InProgress
  <2> HIDE DEF l
  <2> QED BY <1>2, <1>3, <2>1, <2>2, ServerFailsKeeps
<1>5. CASE ServerInitiateUpload(k)
  <2> DEFINE v == od[server[k]][m.index]
             l(w) == [InitLine(SERVER, k, m.index, UPLOAD, w)
                      EXCEPT !.count = Size[v], !.data = v]
  <2>1. \/ \E f : ServerFails(k, f)
        \/ \E f : ServerDoes(k, t, f)
        \/ /\ ~NoLineFor(t, k)
           /\ \E w \in Watchdogs : \E f :
                ServerDoes(k, [t EXCEPT ![getSDOfreeLine(t)] = l(w)], f)
    BY <1>5 DEF ServerInitiateUpload
  <2>2. \A w \in Watchdogs : /\ DOMAIN l(w) = Fields /\ l(w).CliServNbr = k
                             /\ l(w).whoami = SERVER /\ l(w).state \in InProgress
                             /\ l(w).timer = w
    BY DEF InitLine, ResetLine, Fields, InProgress
  <2> HIDE DEF l
  <2> QED BY <1>2, <1>3, <2>1, <2>2, ServerFailsKeeps
<1> QED BY <1>4, <1>5

\* Every frame a server handles.
LEMMA ServerHandlesKeeps ==
  ASSUME LineInvariant, NEW k \in Conns, ServerHandles(k)
  PROVE  LineInvariant'
<1> DEFINE t == transfers[server[k]]
           m == Head(req[k])
           i == getSDOlineOnUse(t, k, SERVER)
<1>1. LinesOK(t)
  BY SDOAssumption DEF LineInvariant
<1>2. ASSUME NEW f, ServerDoes(k, resetSDOline(t, i), f), i # NoLine PROVE LineInvariant'
  BY <1>1, <1>2, ResetNarrows, LineOnUseIsOnUse, ServerDoesKeeps
<1>3. ASSUME NEW f, NEW l, i # NoLine, GoesOn(t[i], l), ServerDoes(k, [t EXCEPT ![i] = l], f)
      PROVE  LineInvariant'
  <2>1. i \in Lines
    BY <1>3, LineOnUseIsOnUse
  <2> HIDE DEF i
  <2>2. Narrows(t, [t EXCEPT ![i] = l])
    BY <1>1, <1>3, <2>1, KeptNarrows
  <2> QED BY <1>3, <2>2, ServerDoesKeeps
<1>4. CASE ServerDownloadSegment(k)
  <2> DEFINE l == [SDOtoLine(RestartTimer(t[i]), m) EXCEPT !.toggle = Inverted(@)]
  <2>1. \/ \E f : ServerFails(k, f)
        \/ /\ SegmentFits(t, k, SERVER, DOWNLOAD, m)
           /\ \/ \E f : ServerDoes(k, [t EXCEPT ![i] = l], f)
              \/ \E f : ServerDoes(k, resetSDOline(t, i), f)
    BY <1>4 DEF ServerDownloadSegment
  <2>2. SegmentFits(t, k, SERVER, DOWNLOAD, m) => i # NoLine /\ GoesOn(t[i], l)
    <3>1. i # NoLine => i \in Lines
      BY LineOnUseIsOnUse
    <3> QED BY <1>1, <3>1 DEF SegmentFits, Started, LinesOK, GoesOn, Owned, SDOtoLine, RestartTimer,
                              InProgress, Fields
  <2> HIDE DEF i, l
  <2> QED BY <1>2, <1>3, <2>1, <2>2, ServerFailsKeeps
<1>5. CASE ServerUploadSegment(k)
  <2> DEFINE l == [lineToSDO(RestartTimer(t[i]), Segment(RestartTimer(t[i]), RestartTimer(t[i]).toggle).n)
                   EXCEPT !.toggle = Inverted(@)]
  <2>1. \/ \E f : ServerFails(k, f)
        \/ /\ SegmentFits(t, k, SERVER, UPLOAD, m)
           /\ \/ \E f : ServerDoes(k, [t EXCEPT ![i] = l], f)
              \/ \E f : ServerDoes(k, resetSDOline(t, i), f)
    BY <1>5 DEF ServerUploadSegment
  <2>2. SegmentFits(t, k, SERVER, UPLOAD, m) => i # NoLine /\ GoesOn(t[i], l)
    <3>1. i # NoLine => i \in Lines
      BY LineOnUseIsOnUse
    <3> QED BY <1>1, <3>1 DEF SegmentFits, Started, LinesOK, GoesOn, Owned, lineToSDO, RestartTimer,
                              InProgress, Fields
  <2> HIDE DEF i, l
  <2> QED BY <1>2, <1>3, <2>1, <2>2, ServerFailsKeeps
<1>6. CASE ServerAbort(k)
  <2>1. CASE i = NoLine
    BY <1>1, <1>6, <2>1, SameNarrows, ServerDoesKeeps DEF ServerAbort
  <2>2. CASE i # NoLine
    BY <1>2, <1>6, <2>2 DEF ServerAbort
  <2> QED BY <2>1, <2>2
<1> QED BY <1>4, <1>5, <1>6, ServerInitiatesKeeps DEF ServerHandles

-----------------------------------------------------------------------------
(***************************************************************************)
(* The client's half.                                                      *)
(***************************************************************************)
\* A client's transfer goes on or ends.
LEMMA ClientStepKeeps ==
  ASSUME LineInvariant, NEW k \in Conns, NEW i \in Lines, NEW l, NEW f,
         LET t == transfers[client[k]]
         IN  /\ GoesOn(t[i], l) \/ Ends(t[i], l)
             /\ ClientDoes(k, [t EXCEPT ![i] = l], f)
  PROVE  LineInvariant'
<1> DEFINE t == transfers[client[k]]
<1>1. LinesOK(t)
  BY SDOAssumption DEF LineInvariant
<1>2. Narrows(t, [t EXCEPT ![i] = l])
  BY <1>1, KeptNarrows
<1> QED BY <1>2, ClientDoesKeeps

\* A client's line in a state of transfer.
LEMMA ClientLineStarted ==
  ASSUME LineInvariant, NEW k \in Conns, NEW state \in InProgress,
         Started(transfers[client[k]], k, CLIENT, state)
  PROVE  LET t == transfers[client[k]]
             i == getSDOlineOnUse(t, k, CLIENT)
         IN  i \in Lines /\ t[i].state = state /\ DOMAIN t[i] = Fields
<1>1. LinesOK(transfers[client[k]])
  BY SDOAssumption DEF LineInvariant
<1> QED BY <1>1, LineOnUseIsOnUse DEF Started, LinesOK

\* The client sends its next segment, or has sent the last one.
LEMMA NextSegmentKeeps ==
  ASSUME LineInvariant, NEW k \in Conns, NEW toggle,
         Started(transfers[client[k]], k, CLIENT, DOWNLOAD),
         NextSegment(k, transfers[client[k]],
                     getSDOlineOnUse(transfers[client[k]], k, CLIENT), toggle)
  PROVE  LineInvariant'
<1> DEFINE t == transfers[client[k]]
           i == getSDOlineOnUse(t, k, CLIENT)
           l == RestartTimer(t[i])
           goes == [lineToSDO(l, Segment(l, toggle).n) EXCEPT !.toggle = toggle]
           ends == Finished(l)
<1>1. i \in Lines /\ t[i].state = DOWNLOAD /\ DOMAIN t[i] = Fields
  BY ClientLineStarted DEF InProgress
<1>2. \/ ClientDoes(k, [t EXCEPT ![i] = ends], <<>>)
      \/ ClientDoes(k, [t EXCEPT ![i] = goes], <<Segment(l, toggle)>>)
  BY DEF NextSegment, ClientEnds, ClientGoesOn
<1>3. GoesOn(t[i], goes) /\ Ends(t[i], ends)
  BY <1>1 DEF GoesOn, Ends, Owned, Fields, InProgress, lineToSDO, RestartTimer, Finished, StopTimer
<1> HIDE DEF i, goes, ends
<1> QED BY <1>1, <1>2, <1>3, ClientStepKeeps

\* Every frame a client handles.
LEMMA ClientHandlesKeeps ==
  ASSUME LineInvariant, NEW k \in Conns, ClientHandles(k)
  PROVE  LineInvariant'
<1> DEFINE t == transfers[client[k]]
           m == Head(resp[k])
           i == getSDOlineOnUse(t, k, CLIENT)
<1>1. LinesOK(t)
  BY SDOAssumption DEF LineInvariant
<1>2. CASE ClientInitiateDownload(k)
  BY <1>2, ClientFailsKeeps, NextSegmentKeeps DEF ClientInitiateDownload
<1>3. CASE ClientDownloadSegment(k)
  BY <1>3, ClientFailsKeeps, NextSegmentKeeps DEF ClientDownloadSegment, SegmentFits
<1>4. CASE ClientInitiateUpload(k)
  <2> DEFINE ends == [Finished(SDOtoLine(t[i], m)) EXCEPT !.count = m.n]
             goes == [RestartTimer(t[i]) EXCEPT !.count = m.n]
  <2>1. \/ ClientFails(k)
        \/ /\ Started(t, k, CLIENT, UPLOAD)
           /\ \/ ClientDoes(k, [t EXCEPT ![i] = ends], <<>>)
              \/ ClientDoes(k, [t EXCEPT ![i] = goes], <<Frame(3)>>)
    BY <1>4 DEF ClientInitiateUpload, ClientEnds, ClientGoesOn
  <2>2. Started(t, k, CLIENT, UPLOAD) =>
          i \in Lines /\ t[i].state = UPLOAD /\ DOMAIN t[i] = Fields
    BY ClientLineStarted DEF InProgress
  <2>3. Started(t, k, CLIENT, UPLOAD) => GoesOn(t[i], goes) /\ Ends(t[i], ends)
    BY <2>2 DEF GoesOn, Ends, Owned, Fields, InProgress, RestartTimer, Finished, StopTimer, SDOtoLine
  <2> HIDE DEF i, goes, ends
  <2> QED BY <2>1, <2>2, <2>3, ClientFailsKeeps, ClientStepKeeps
<1>5. CASE ClientUploadSegment(k)
  <2> DEFINE goes == [SDOtoLine(RestartTimer(t[i]), m) EXCEPT !.toggle = Inverted(@)]
             ends == Finished(goes)
  <2>1. \/ ClientFails(k)
        \/ /\ Started(t, k, CLIENT, UPLOAD)
           /\ \/ ClientDoes(k, [t EXCEPT ![i] = ends], <<>>)
              \/ \E f : ClientDoes(k, [t EXCEPT ![i] = goes], f)
    BY <1>5 DEF ClientUploadSegment, ClientEnds, ClientGoesOn, SegmentFits
  <2>2. Started(t, k, CLIENT, UPLOAD) =>
          i \in Lines /\ t[i].state = UPLOAD /\ DOMAIN t[i] = Fields
    BY ClientLineStarted DEF InProgress
  <2>3. Started(t, k, CLIENT, UPLOAD) => GoesOn(t[i], goes) /\ Ends(t[i], ends)
    BY <2>2 DEF GoesOn, Ends, Owned, Fields, InProgress, RestartTimer, Finished, StopTimer, SDOtoLine
  <2> HIDE DEF i, goes, ends
  <2> QED BY <2>1, <2>2, <2>3, ClientFailsKeeps, ClientStepKeeps
<1>6. CASE ClientAbort(k)
  <2> DEFINE ends == StopTimer([t[i] EXCEPT !.state = ABORTED_RCV])
  <2>1. CASE i = NoLine
    BY <1>1, <1>6, <2>1, SameNarrows, ClientDoesKeeps DEF ClientAbort
  <2>2. CASE i # NoLine
    <3>1. ClientDoes(k, [t EXCEPT ![i] = ends], <<>>)
      BY <1>6, <2>2 DEF ClientAbort, ClientEnds
    <3>2. i \in Lines /\ OnUse(t, k, CLIENT, i)
      BY <2>2, LineOnUseIsOnUse
    <3>3. Ends(t[i], ends)
      BY <1>1, <3>2 DEF LinesOK, OnUse, LineToClose, Ends, Owned, Fields, StopTimer
    <3> HIDE DEF i, ends
    <3> QED BY <3>1, <3>2, <3>3, ClientStepKeeps
  <2> QED BY <2>1, <2>2
<1> QED BY <1>2, <1>3, <1>4, <1>5, <1>6 DEF ClientHandles

-----------------------------------------------------------------------------
(***************************************************************************)
(* The watchdog, the user and the faults.                                  *)
(***************************************************************************)
LEMMA TimeoutKeeps ==
  ASSUME LineInvariant, NEW n \in Nodes, NEW i \in Lines, SDOTimeoutAlarm(n, i)
  PROVE  LineInvariant'
<1> DEFINE t == transfers[n]
           late == [t[i] EXCEPT !.timer = STALE]
<1>1. LinesOK(t) /\ DOMAIN transfers = Nodes
  BY DEF LineInvariant
<1>2. open' = open /\ running' = running
  BY DEF SDOTimeoutAlarm, userVars, faultVars
<1>3. CASE n \notin HasClientEntry
  <2>1. transfers' = [transfers EXCEPT ![n] = [t EXCEPT ![i] = late]]
    BY <1>3 DEF SDOTimeoutAlarm
  <2>2. t[i].timer = ARMED /\ ~WatchdogsWork
    BY <1>3 DEF SDOTimeoutAlarm, AlarmDue, WatchdogsWork
  <2>3. LinesOK([t EXCEPT ![i] = late])
    BY <1>1, <2>2 DEF LinesOK, LineToClose, Fields
  <2>4. \A k \in Conns, j \in Lines :
          LineToClose([t EXCEPT ![i] = late], k, CLIENT, j) => LineToClose(t, k, CLIENT, j)
    BY <1>1 DEF LinesOK, LineToClose, Fields
  <2>5. ASSUME NEW j \in Lines
        PROVE  /\ Placed(n, t[j]) => Placed(n, [t EXCEPT ![i] = late][j])
               /\ t[j].state = RESET => [t EXCEPT ![i] = late][j].state = RESET
    BY <1>1, <2>2 DEF LinesOK, Placed, Fields
  <2> DEFINE u == [t EXCEPT ![i] = late]
  <2> HIDE DEF late
  <2>6. \A m \in Nodes : transfers'[m] = IF m = n THEN u ELSE transfers[m]
    BY <1>1, <2>1
  <2>7. DOMAIN transfers' = Nodes
    BY <1>1, <2>1
  <2>8. LinesOK(u) /\ \A j \in Lines : Placed(n, u[j]) /\ (t[j].state = RESET => u[j].state = RESET)
    BY <2>3, <2>5 DEF LineInvariant
  <2>9. ASSUME NEW k \in Conns, ~open[k], NEW j \in Lines
        PROVE  ~LineToClose(transfers'[client[k]], k, CLIENT, j)
    BY <2>4, <2>6, <2>9, SDOAssumption DEF LineInvariant
  <2> HIDE DEF u
  <2> QED BY <1>2, <2>6, <2>7, <2>8, <2>9 DEF LineInvariant
<1>4. CASE n \in HasClientEntry
  <2>1. transfers' = [transfers EXCEPT ![n] = resetSDOline(t, i)]
    BY <1>4 DEF SDOTimeoutAlarm, resetSDOline
  <2> QED BY <1>1, <1>2, <2>1, ResetNarrows, NodeStepKeeps
<1> QED BY <1>3, <1>4

\* A new transfer of a user who has the result of the last one.
LEMMA StartsKeeps ==
  ASSUME LineInvariant, NEW k \in Conns, NEW r, NEW l, NEW f, Starts(k, r, l, f),
         DOMAIN l = Fields, l.CliServNbr = k, l.whoami = CLIENT,
         l.state \in InProgress, l.timer \in Watchdogs
  PROVE  LineInvariant'
<1> DEFINE n == client[k]
           t == transfers[n]
           i == getSDOfreeLine(t)
           u == [t EXCEPT ![i] = l]
<1>1. n \in Nodes /\ LinesOK(t) /\ i \in Lines /\ n \in running
      /\ \A j \in Lines : Placed(n, t[j])
  BY SDOAssumption, FreeLineIsFree DEF LineInvariant, Starts
<1>2. \A j \in Lines : ~LineToClose(t, k, CLIENT, j)
  BY DEF LineInvariant, Starts
<1>3. WatchdogsWork => Guarded(l)
  BY DEF WatchdogsWork, Guarded, InProgress
<1>4. Opens(t, u, k, CLIENT)
  <2> HIDE DEF t, i
  <2> QED BY <1>1, <1>2, <1>3 DEF Opens, LinesOK, InProgress
<1>5. /\ transfers' = [transfers EXCEPT ![n] = u] /\ open' = [open EXCEPT ![k] = TRUE]
      /\ running' = running
  BY DEF Starts, faultVars
<1>6. /\ LinesOK(u) /\ \A j \in Lines : Placed(n, u[j])
      /\ \A h \in Conns \ {k}, j \in Lines :
           LineToClose(u, h, CLIENT, j) => LineToClose(t, h, CLIENT, j)
  <2> HIDE DEF t, i, u
  <2> QED BY <1>1, <1>4, ClientOpensKeeps
<1> HIDE DEF u
<1>7. \A m \in Nodes : transfers'[m] = IF m = n THEN u ELSE transfers[m]
  BY <1>1, <1>5 DEF LineInvariant
<1>8. ASSUME NEW h \in Conns, ~open'[h], NEW j \in Lines
      PROVE  ~LineToClose(transfers'[client[h]], h, CLIENT, j)
  <2>1. h # k /\ ~open[h]
    BY <1>5, <1>8 DEF LineInvariant
  <2> QED BY <1>6, <1>7, <2>1, SDOAssumption DEF LineInvariant
<1>9. ASSUME NEW m \in Nodes
      PROVE  /\ LinesOK(transfers'[m]) /\ \A j \in Lines : Placed(m, transfers'[m][j])
             /\ m \in running' \/ \A j \in Lines : transfers'[m][j].state = RESET
  <2> HIDE DEF t, n
  <2>1. CASE m = n
    BY <1>1, <1>5, <1>6, <1>7, <2>1
  <2>2. CASE m # n
    BY <1>5, <1>7, <2>2 DEF LineInvariant
  <2> QED BY <2>1, <2>2
<1>10. DOMAIN transfers' = Nodes /\ DOMAIN open' = Conns
  BY <1>5 DEF LineInvariant
<1> QED BY <1>8, <1>9, <1>10 DEF LineInvariant

LEMMA WriteKeeps ==
  ASSUME LineInvariant, NEW k \in Conns, NEW index \in Indexes, NEW v \in Values,
         writeNetworkDict(k, index, v)
  PROVE  LineInvariant'
<1>1. PICK w \in Watchdogs : \E f, r, o :
        Starts(k, r, [InitLine(CLIENT, k, index, DOWNLOAD, w)
                      EXCEPT !.count = Size[v], !.data = v, !.offset = o], f)
  BY DEF writeNetworkDict
<1>2. PICK f, r, o :
        Starts(k, r, [InitLine(CLIENT, k, index, DOWNLOAD, w)
                      EXCEPT !.count = Size[v], !.data = v, !.offset = o], f)
  BY <1>1
<1> DEFINE l == [InitLine(CLIENT, k, index, DOWNLOAD, w)
                 EXCEPT !.count = Size[v], !.data = v, !.offset = o]
<1>3. /\ DOMAIN l = Fields /\ l.CliServNbr = k /\ l.whoami = CLIENT
      /\ l.state \in InProgress /\ l.timer = w
  BY DEF InitLine, ResetLine, Fields, InProgress
<1> HIDE DEF l
<1> QED BY <1>2, <1>3, StartsKeeps DEF l

LEMMA ReadKeeps ==
  ASSUME LineInvariant, NEW k \in Conns, NEW index \in Indexes, readNetworkDict(k, index)
  PROVE  LineInvariant'
<1>1. PICK w \in Watchdogs : \E f, r : Starts(k, r, InitLine(CLIENT, k, index, UPLOAD, w), f)
  BY DEF readNetworkDict
<1>2. LET l == InitLine(CLIENT, k, index, UPLOAD, w)
      IN  /\ DOMAIN l = Fields /\ l.CliServNbr = k /\ l.whoami = CLIENT
          /\ l.state \in InProgress /\ l.timer = w
  BY DEF InitLine, ResetLine, Fields, InProgress
<1> QED BY <1>1, <1>2, StartsKeeps

\* After GetResult no line is left to the user.
LEMMA GetResultKeeps ==
  ASSUME LineInvariant, NEW k \in Conns, GetResult(k)
  PROVE  LineInvariant'
<1> DEFINE n == client[k]
           t == transfers[n]
           a == AfterResult(t, k)
           u == closeSDOtransfer(a, k)
<1>1. n \in Nodes /\ LinesOK(t)
  BY SDOAssumption DEF LineInvariant
<1>2. Narrows(t, a)
  BY <1>1, SameNarrows, ResetNarrows, LineOnUseIsOnUse DEF AfterResult, Started
<1>3. LinesOK(a)
  BY <1>1, <1>2, NarrowsKeeps
<1>4. Narrows(a, u)
  BY <1>3, SameNarrows, ResetNarrows, LineToCloseIsToClose DEF closeSDOtransfer
<1>5. \A j \in Lines : ~LineToClose(u, k, CLIENT, j)
  <2> DEFINE i == getSDOlineToClose(a, k, CLIENT)
  <2>1. CASE i = NoLine
    <3>1. u = a
      BY <2>1 DEF closeSDOtransfer
    <3> QED BY <2>1, <3>1, LineToCloseIsToClose
  <2>2. CASE i # NoLine
    <3>1. i \in Lines /\ LineToClose(a, k, CLIENT, i)
      BY <2>2, LineToCloseIsToClose
    <3>2. u = [a EXCEPT ![i] = ResetLine]
      BY <2>2 DEF closeSDOtransfer, resetSDOline
    <3> HIDE DEF a, i, u
    <3> QED BY <1>3, <3>1, <3>2 DEF LinesOK, LineToClose, ResetLine
  <2> QED BY <2>1, <2>2
<1>6. /\ transfers' = [transfers EXCEPT ![n] = u] /\ open' = [open EXCEPT ![k] = FALSE]
      /\ running' = running
  BY DEF GetResult, faultVars
<1> HIDE DEF a, u
<1>7. /\ LinesOK(u) /\ \A j \in Lines : Placed(n, t[j]) => Placed(n, u[j])
      /\ \A j \in Lines : t[j].state = RESET => u[j].state = RESET
      /\ \A h \in Conns, j \in Lines :
           LineToClose(u, h, CLIENT, j) => LineToClose(t, h, CLIENT, j)
  <2>1. /\ \A j \in Lines : (Placed(n, t[j]) => Placed(n, a[j]))
                          /\ (t[j].state = RESET => a[j].state = RESET)
        /\ \A h \in Conns, j \in Lines :
             LineToClose(a, h, CLIENT, j) => LineToClose(t, h, CLIENT, j)
    <3> HIDE DEF t
    <3> QED BY <1>1, <1>2, NarrowsKeeps
  <2>2. /\ LinesOK(u)
        /\ \A j \in Lines : (Placed(n, a[j]) => Placed(n, u[j]))
                          /\ (a[j].state = RESET => u[j].state = RESET)
        /\ \A h \in Conns, j \in Lines :
             LineToClose(u, h, CLIENT, j) => LineToClose(a, h, CLIENT, j)
    BY <1>3, <1>4, NarrowsKeeps
  <2> QED BY <2>1, <2>2
<1>8. \A m \in Nodes : transfers'[m] = IF m = n THEN u ELSE transfers[m]
  BY <1>1, <1>6 DEF LineInvariant
<1>9. ASSUME NEW h \in Conns, ~open'[h], NEW j \in Lines
      PROVE  ~LineToClose(transfers'[client[h]], h, CLIENT, j)
  <2>1. CASE h = k
    BY <1>1, <1>5, <1>8, <2>1
  <2>2. CASE h # k
    <3>1. ~open[h]
      BY <1>6, <1>9, <2>2 DEF LineInvariant
    <3> QED BY <1>7, <1>8, <3>1, SDOAssumption DEF LineInvariant
  <2> QED BY <2>1, <2>2
<1> QED BY <1>6, <1>7, <1>8, <1>9 DEF LineInvariant

\* At first every line is reset.
LEMMA LinesAtFirst == Init => LineInvariant
<1> SUFFICES ASSUME Init PROVE LineInvariant
  OBVIOUS
<1>1. \A n \in Nodes, i \in Lines : transfers[n][i] = ResetLine
  BY DEF Init
<1>2. DOMAIN transfers = Nodes /\ DOMAIN open = Conns
      /\ \A n \in Nodes : DOMAIN transfers[n] = Lines
  BY DEF Init
<1>3. /\ DOMAIN ResetLine = Fields /\ Guarded(ResetLine)
      /\ ResetLine.state = RESET /\ ResetLine.whoami = UNKNOWN /\ ResetLine.timer = NO_TIMER
  BY DEF ResetLine, Fields, Guarded, InProgress
<1> QED BY <1>1, <1>2, <1>3, SDOAssumption DEF LineInvariant, LinesOK, LineToClose, Placed

-----------------------------------------------------------------------------
(***************************************************************************)
(* The theorems.                                                           *)
(***************************************************************************)
\* The strengthening all of them rest on.
THEOREM LinesInvariant == Spec => []LineInvariant
<1>1. LineInvariant /\ [Next]_vars => LineInvariant'
  <2> SUFFICES ASSUME LineInvariant, [Next]_vars
               PROVE  LineInvariant'
    OBVIOUS
  <2>1. ASSUME NEW k \in Conns, ServerHandles(k) PROVE LineInvariant'
    BY <2>1, ServerHandlesKeeps
  <2>2. ASSUME NEW k \in Conns, ClientHandles(k) PROVE LineInvariant'
    BY <2>2, ClientHandlesKeeps
  <2>3. ASSUME NEW n \in Nodes, NEW i \in Lines, SDOTimeoutAlarm(n, i) PROVE LineInvariant'
    BY <2>3, TimeoutKeeps
  <2>4. ASSUME NEW k \in Conns, NEW index \in Indexes, NEW v \in Values,
               writeNetworkDict(k, index, v)
        PROVE  LineInvariant'
    BY <2>4, WriteKeeps
  <2>5. ASSUME NEW k \in Conns, NEW index \in Indexes, readNetworkDict(k, index)
        PROVE  LineInvariant'
    BY <2>5, ReadKeeps
  <2>6. ASSUME NEW k \in Conns, GetResult(k) PROVE LineInvariant'
    BY <2>6, GetResultKeeps
  <2>7. ASSUME NEW k \in Conns, Lose(k) \/ Discard(k) PROVE LineInvariant'
    BY <2>7 DEF Lose, Discard, userVars, faultVars, LineInvariant, LinesOK
  <2>8. ASSUME NEW n \in Nodes, Stop(n) PROVE LineInvariant'
    <3>1. LinesOK(transfers[n]) /\ Narrows(transfers[n], resetSDO(n))
      BY DEF LineInvariant, LinesOK, Narrows, resetSDO
    <3>2. \A m \in Nodes : transfers'[m] = IF m = n THEN resetSDO(n) ELSE transfers[m]
      BY <2>8 DEF Stop, LineInvariant
    <3>3. /\ LinesOK(resetSDO(n))
          /\ \A k \in Conns, i \in Lines : ~LineToClose(resetSDO(n), k, CLIENT, i)
          /\ \A i \in Lines : Placed(n, resetSDO(n)[i]) /\ resetSDO(n)[i].state = RESET
      BY <3>1, NarrowsKeeps DEF resetSDO, ResetLine, LineToClose, Placed
    <3>4. /\ DOMAIN transfers' = Nodes /\ open' = open
          /\ \A m \in Nodes \ running' : m = n \/ m \in Nodes \ running
      BY <2>8 DEF Stop, userVars, LineInvariant
    <3> HIDE DEF resetSDO
    <3>5. ASSUME NEW k \in Conns, ~open[k], NEW i \in Lines
          PROVE  ~LineToClose(transfers'[client[k]], k, CLIENT, i)
      BY <3>2, <3>3, <3>5, SDOAssumption DEF LineInvariant
    <3> QED BY <3>2, <3>3, <3>4, <3>5 DEF LineInvariant
  <2>9. ASSUME NEW n \in Nodes, Start(n) PROVE LineInvariant'
    BY <2>9 DEF Start, userVars, LineInvariant, LinesOK
  <2>10. CASE UNCHANGED vars
    BY <2>10 DEF vars, LineInvariant, LinesOK
  <2> QED BY <2>1, <2>2, <2>3, <2>4, <2>5, <2>6, <2>7, <2>8, <2>9, <2>10 DEF Next
<1> QED BY <1>1, LinesAtFirst, PTL DEF Spec

\* OneLinePerPeer: getSDOlineOnUse (sdo.c:545) has no choice.
THEOREM PeersHaveOneLine == Spec => []OneLinePerPeer
<1>1. LineInvariant => OneLinePerPeer
  BY DEF LineInvariant, LinesOK, OneLinePerPeer, OnUse
<1> QED BY <1>1, LinesInvariant, PTL

\* NoLineLeaks: closeSDOtransfer leaves the user no line, however the
\* transfer ended.
THEOREM LinesComeBack == Spec => []NoLineLeaks
<1>1. LineInvariant => NoLineLeaks
  BY LineToCloseIsToClose DEF LineInvariant, NoLineLeaks
<1> QED BY <1>1, LinesInvariant, PTL

\* WatchdogGuardsTransfer: where every SetAlarm finds a row and every node
\* has client entries (sdo.c:143), a line is watched exactly while its
\* transfer goes on.
THEOREM TransfersAreWatched ==
  ASSUME Watchdogs = {ARMED}, HasClientEntry = Nodes
  PROVE  Spec => []WatchdogGuardsTransfer
<1>1. LineInvariant => WatchdogGuardsTransfer
  BY DEF WatchdogsWork, LineInvariant, LinesOK, Guarded, WatchdogGuardsTransfer
<1> QED BY <1>1, LinesInvariant, PTL

-----------------------------------------------------------------------------
(***************************************************************************)
(* What is written.  While nothing is lost the frames of a connection come *)
(* in the order they were sent, so that what a server's line has received, *)
(* the frames on their way and what the client's line has still to send    *)
(* follow one another, whatever is cut short between.                      *)
(***************************************************************************)
\* What a line keeps of a download.
Content(l) == [index |-> l.index, count |-> l.count, offset |-> l.offset, data |-> l.data]

DownloadLine(t, k, w, i) ==
  t[i].state = DOWNLOAD /\ t[i].CliServNbr = k /\ t[i].whoami = w

\* The downloads of connection k at the end in role w.
Downloads(t, k, w) == {Content(t[i]) : i \in {j \in Lines : DownloadLine(t, k, w, j)}}

AtServer(k) == Downloads(transfers[server[k]], k, SERVER)
AtClient(k) == Downloads(transfers[client[k]], k, CLIENT)

\* The objects and values the user of connection k asked to write.
Requested(k) ==
  {p \in Indexes \X Values :
     \E r \in 1 .. Len(requests[k]) :
       requests[k][r] = [op |-> DOWNLOAD, index |-> p[1], value |-> p[2]]}

\* After frame m a segment may carry the bytes of v from byte "from" on.
Follows(m, v, from, R) ==
  \/ m.cs = 1 /\ ~m.last /\ from = 0 /\ m.n = Size[v] /\ <<m.index, v>> \in R
  \/ m.cs = 0 /\ m.data = v /\ from = m.from + m.n

\* They are the bytes that line l waits for.
Resumes(l, v, from, R) ==
  /\ l.count = Size[v] /\ <<l.index, v>> \in R
  /\ from = l.offset /\ (l.offset = 0 \/ l.data = v)

\* A frame with data has bytes of a value, up to its end if it is the last.
FrameOK(m, R) ==
  /\ m.cs = 1 /\ m.last =>
       m.data \in Values /\ m.from = 0 /\ m.n = Size[m.data] /\ <<m.index, m.data>> \in R
  /\ m.cs = 0 =>
       /\ m.data \in Values /\ m.from \in Nat /\ m.n \in Nat
       /\ m.last => m.from + m.n = Size[m.data]

Unsent(c) == c.offset # c.count

SenderOK(c) == c.data \in Values /\ c.count = Size[c.data] /\ c.offset \in 0 .. c.count

\* Downloads S of the server, frames q and downloads C of the client, of requests R.
Stream(S, C, q, R) ==
  /\ \A p \in 1 .. Len(q) : FrameOK(q[p], R)
  /\ \A p \in 2 .. Len(q) : q[p].cs = 0 => Follows(q[p - 1], q[p].data, q[p].from, R)
  /\ Len(q) # 0 /\ q[1].cs = 0 => \A l \in S : Resumes(l, q[1].data, q[1].from, R)
  /\ \A c \in C : SenderOK(c)
  /\ Len(q) = 0 => \A c \in C : Unsent(c) => \A l \in S : Resumes(l, c.data, c.offset, R)
  /\ Len(q) # 0 => \A c \in C : Unsent(c) => Follows(q[Len(q)], c.data, c.offset, R)

IsSequence(q) == \E X : q \in Seq(X)

Streams ==
  /\ DOMAIN req = Conns /\ DOMAIN requests = Conns
  /\ \A k \in Conns : IsSequence(req[k]) /\ IsSequence(requests[k])
  /\ \A k \in Conns : Stream(AtServer(k), AtClient(k), req[k], Requested(k))

\* What an object holds was there or was asked for.
Written ==
  /\ DOMAIN od = Nodes /\ \A n \in Nodes : DOMAIN od[n] = Indexes
  /\ \A n \in Nodes, index \in Indexes :
       \/ od[n][index] = InitialValue(index)
       \/ \E k \in Conns : server[k] = n /\ <<index, od[n][index]>> \in Requested(k)

DataInvariant == losses \in Nat /\ (losses = 0 => Streams /\ Written)

-----------------------------------------------------------------------------
(***************************************************************************)
(* Streams that lose their first frame, get another one, or end.           *)
(***************************************************************************)
\* What may follow frame m is what each of S waits for.
Heeds(S, m, R) ==
  \A l \in S : \A v, from : Follows(m, v, from, R) => Resumes(l, v, from, R)

\* The first frame is handled and leaves the server with downloads S2.
LEMMA StreamTail ==
  ASSUME NEW S, NEW S2, NEW C, NEW q, NEW R, Stream(S, C, q, R), IsSequence(q), q # <<>>,
         Heeds(S2, Head(q), R)
  PROVE  Stream(S2, C, Tail(q), R) /\ IsSequence(Tail(q))
<1>1. PICK X : q \in Seq(X)
  BY DEF IsSequence
<1> DEFINE u == Tail(q)
<1>2. /\ Len(q) \in Nat \ {0} /\ u \in Seq(X) /\ Len(u) = Len(q) - 1
      /\ \A p \in 1 .. Len(u) : u[p] = q[p + 1]
      /\ Head(q) = q[1]
  BY <1>1
<1> HIDE DEF u
<1>3. \A p \in 1 .. Len(u) : FrameOK(u[p], R)
  BY <1>2 DEF Stream
<1>4. ASSUME NEW p \in 2 .. Len(u), u[p].cs = 0
      PROVE  Follows(u[p - 1], u[p].data, u[p].from, R)
  <2>1. p + 1 \in 2 .. Len(q) /\ p - 1 \in 1 .. Len(u) /\ p \in 1 .. Len(u) /\ (p - 1) + 1 = p
        /\ (p + 1) - 1 = p
    BY <1>2
  <2>2. u[p] = q[p + 1] /\ u[p - 1] = q[p]
    BY <1>2, <2>1
  <2>3. q[p + 1].cs = 0 => Follows(q[(p + 1) - 1], q[p + 1].data, q[p + 1].from, R)
    BY <2>1 DEF Stream
  <2> QED BY <1>4, <2>1, <2>2, <2>3
<1>5. ASSUME Len(u) # 0, u[1].cs = 0, NEW l \in S2 PROVE Resumes(l, u[1].data, u[1].from, R)
  <2>1. u[1] = q[2] /\ 2 \in 2 .. Len(q)
    BY <1>2, <1>5
  <2>2. q[2].cs = 0 => Follows(q[2 - 1], q[2].data, q[2].from, R)
    BY <2>1 DEF Stream
  <2>3. Follows(Head(q), u[1].data, u[1].from, R)
    BY <1>2, <1>5, <2>1, <2>2
  <2> QED BY <2>3 DEF Heeds
<1>6. \A c \in C : SenderOK(c)
  BY DEF Stream
<1>7. ASSUME Len(u) = 0, NEW c \in C, Unsent(c), NEW l \in S2
      PROVE  Resumes(l, c.data, c.offset, R)
  <2>1. Len(q) = 1
    BY <1>2, <1>7
  <2>2. Follows(Head(q), c.data, c.offset, R)
    BY <1>2, <1>7, <2>1 DEF Stream
  <2> QED BY <2>2 DEF Heeds
<1>8. ASSUME Len(u) # 0, NEW c \in C, Unsent(c)
      PROVE  Follows(u[Len(u)], c.data, c.offset, R)
  <2>1. u[Len(u)] = q[Len(q)]
    BY <1>2, <1>8
  <2> QED BY <1>2, <1>8, <2>1 DEF Stream
<1> QED BY <1>2, <1>3, <1>4, <1>5, <1>6, <1>7, <1>8 DEF Stream, IsSequence, u

\* The client sends frame f, for a request of R2 or the next bytes of a download.
LEMMA StreamAppend ==
  ASSUME NEW S, NEW C, NEW C2, NEW q, NEW f, NEW R, NEW R2, R \subseteq R2,
         Stream(S, C, q, R), IsSequence(q), FrameOK(f, R2),
         f.cs = 0 => \E c \in C : Unsent(c) /\ f.data = c.data /\ f.from = c.offset,
         \A c \in C2 : SenderOK(c) /\ (Unsent(c) => Follows(f, c.data, c.offset, R2))
  PROVE  Stream(S, C2, Append(q, f), R2) /\ IsSequence(Append(q, f))
<1>1. PICK X : q \in Seq(X)
  BY DEF IsSequence
<1> DEFINE u == Append(q, f)
<1>2. /\ Len(q) \in Nat /\ u \in Seq(X \cup {f}) /\ Len(u) = Len(q) + 1
      /\ \A p \in 1 .. Len(q) : u[p] = q[p]
      /\ u[Len(q) + 1] = f
  <2>1. q \in Seq(X \cup {f})
    BY <1>1
  <2> QED BY <2>1
<1> HIDE DEF u
<1>3. \A l, v, from : Resumes(l, v, from, R) => Resumes(l, v, from, R2)
  BY DEF Resumes
<1>4. \A m, v, from : Follows(m, v, from, R) => Follows(m, v, from, R2)
  BY DEF Follows
<1>5. \A m : FrameOK(m, R) => FrameOK(m, R2)
  BY DEF FrameOK
<1>6. ASSUME NEW p \in 1 .. Len(u) PROVE FrameOK(u[p], R2)
  <2>1. CASE p = Len(q) + 1
    BY <1>2, <2>1
  <2>2. CASE p # Len(q) + 1
    <3>1. p \in 1 .. Len(q)
      BY <1>2, <2>2
    <3> QED BY <1>2, <1>5, <3>1 DEF Stream
  <2> QED BY <2>1, <2>2
<1>7. ASSUME NEW p \in 2 .. Len(u), u[p].cs = 0
      PROVE  Follows(u[p - 1], u[p].data, u[p].from, R2)
  <2>1. CASE p = Len(q) + 1
    <3>1. u[p] = f /\ Len(q) # 0 /\ u[p - 1] = q[Len(q)]
      BY <1>2, <2>1
    <3> QED BY <1>4, <1>7, <3>1 DEF Stream
  <2>2. CASE p # Len(q) + 1
    <3>1. p \in 2 .. Len(q) /\ u[p] = q[p] /\ u[p - 1] = q[p - 1]
      BY <1>2, <2>2
    <3> QED BY <1>4, <1>7, <3>1 DEF Stream
  <2> QED BY <2>1, <2>2
<1>8. ASSUME u[1].cs = 0, NEW l \in S PROVE Resumes(l, u[1].data, u[1].from, R2)
  <2>1. CASE Len(q) = 0
    <3>1. u[1] = f
      BY <1>2, <2>1
    <3> QED BY <1>3, <1>8, <2>1, <3>1 DEF Stream
  <2>2. CASE Len(q) # 0
    <3>1. u[1] = q[1]
      BY <1>2, <2>2
    <3> QED BY <1>3, <1>8, <2>2, <3>1 DEF Stream
  <2> QED BY <2>1, <2>2
<1>9. Len(u) # 0 /\ u[Len(u)] = f
  BY <1>2
<1> QED BY <1>2, <1>6, <1>7, <1>8, <1>9 DEF Stream, IsSequence, u

\* Downloads end.
LEMMA StreamFewer ==
  ASSUME NEW S, NEW S2, NEW C, NEW C2, NEW q, NEW R, Stream(S, C, q, R),
         S2 \subseteq S, C2 \subseteq C
  PROVE  Stream(S2, C2, q, R)
BY DEF Stream

-----------------------------------------------------------------------------
(***************************************************************************)
(* The downloads of a node whose lines change from t to u.                 *)
(***************************************************************************)
OthersEnd(t, u, k, w) ==
  \A h \in Conns, v \in {SERVER, CLIENT} :
    (h = k /\ v = w) \/ Downloads(u, h, v) \subseteq Downloads(t, h, v)

\* A line changes, and k has no other on use in role w.
LEMMA OneLineChanges ==
  ASSUME NEW t, DOMAIN t = Lines, NEW k, NEW w, NEW i \in Lines, NEW m,
         \A j \in Lines \ {i} : ~OnUse(t, k, w, j),
         m.state = DOWNLOAD => m.CliServNbr = k /\ m.whoami = w
  PROVE  LET u == [t EXCEPT ![i] = m]
         IN  /\ OthersEnd(t, u, k, w)
             /\ Downloads(u, k, w) \subseteq {Content(m)}
             /\ m.state # DOWNLOAD => Downloads(u, k, w) = {}
<1> DEFINE u == [t EXCEPT ![i] = m]
<1>1. \A j \in Lines : u[j] = IF j = i THEN m ELSE t[j]
  OBVIOUS
<1> HIDE DEF u
<1>2. ASSUME NEW h, NEW v, NEW j \in Lines, DownloadLine(u, h, v, j), j # i
      PROVE  DownloadLine(t, h, v, j) /\ u[j] = t[j]
  BY <1>1, <1>2 DEF DownloadLine
<1>3. ASSUME NEW j \in Lines, DownloadLine(u, k, w, j)
      PROVE  j = i
  <2>1. CASE j # i
    <3>1. DownloadLine(t, k, w, j)
      BY <1>2, <1>3, <2>1
    <3> QED BY <2>1, <3>1 DEF DownloadLine, OnUse, LineToClose
  <2> QED BY <2>1
<1>4. ASSUME NEW h, NEW v, ~(h = k /\ v = w), NEW j \in Lines, DownloadLine(u, h, v, j)
      PROVE  j # i
  BY <1>1, <1>4 DEF DownloadLine
<1>5. OthersEnd(t, u, k, w)
  BY <1>2, <1>4 DEF OthersEnd, Downloads
<1>6. Downloads(u, k, w) \subseteq {Content(m)}
  BY <1>1, <1>3 DEF Downloads
<1>7. ASSUME m.state # DOWNLOAD PROVE Downloads(u, k, w) = {}
  BY <1>1, <1>3, <1>7 DEF Downloads, DownloadLine
<1> QED BY <1>5, <1>6, <1>7 DEF u

\* Lines not on use for k and w are no downloads of theirs.
LEMMA NoneOnUse ==
  ASSUME NEW t, NEW k, NEW w, \A j \in Lines : ~OnUse(t, k, w, j)
  PROVE  Downloads(t, k, w) = {}
BY DEF Downloads, DownloadLine, OnUse, LineToClose

\* Of lines on use there is one.
LEMMA OnlyOneOnUse ==
  ASSUME NEW t, LinesOK(t), NEW k \in Conns, NEW w \in {SERVER, CLIENT},
         getSDOlineOnUse(t, k, w) # NoLine
  PROVE  LET i == getSDOlineOnUse(t, k, w)
         IN  /\ i \in Lines /\ OnUse(t, k, w, i)
             /\ \A j \in Lines \ {i} : ~OnUse(t, k, w, j)
             /\ t[i].state = DOWNLOAD => Content(t[i]) \in Downloads(t, k, w)
<1> DEFINE i == getSDOlineOnUse(t, k, w)
<1>1. i \in Lines /\ OnUse(t, k, w, i)
  BY LineOnUseIsOnUse
<1> HIDE DEF i
<1>2. \A j \in Lines \ {i} : ~OnUse(t, k, w, j)
  BY <1>1 DEF LinesOK, OnUse
<1>3. t[i].state = DOWNLOAD => Content(t[i]) \in Downloads(t, k, w)
  BY <1>1 DEF Downloads, DownloadLine, OnUse, LineToClose
<1> QED BY <1>1, <1>2, <1>3 DEF i

LEMMA SameDownloads ==
  ASSUME NEW t, NEW k, NEW w
  PROVE  OthersEnd(t, t, k, w)
BY DEF OthersEnd

\* failedSDO leaves k no download in role w.
LEMMA FailedDownloads ==
  ASSUME NEW t, LinesOK(t), NEW k \in Conns, NEW w \in {SERVER, CLIENT}
  PROVE  /\ OthersEnd(t, Failed(t, k, w), k, w)
         /\ Downloads(Failed(t, k, w), k, w) = {}
<1> DEFINE i == getSDOlineOnUse(t, k, w)
<1>1. CASE i = NoLine
  BY <1>1, LineOnUseIsOnUse, NoneOnUse, SameDownloads DEF Failed
<1>2. CASE i # NoLine
  <2>1. i \in Lines /\ DOMAIN t = Lines /\ DOMAIN t[i] = Fields
        /\ \A j \in Lines \ {i} : ~OnUse(t, k, w, j)
    <3>1. i \in Lines /\ \A j \in Lines \ {i} : ~OnUse(t, k, w, j)
      BY <1>2, OnlyOneOnUse
    <3> HIDE DEF i
    <3> QED BY <3>1 DEF LinesOK
  <2>2. PICK m : Failed(t, k, w) = [t EXCEPT ![i] = m] /\ m.state # DOWNLOAD
    <3> DEFINE aborted == StopTimer([t[i] EXCEPT !.state = ABORTED_INTERNAL])
    <3>1. ResetLine.state # DOWNLOAD /\ aborted.state # DOWNLOAD
      BY <2>1 DEF ResetLine, StopTimer, Fields
    <3>2. \/ Failed(t, k, w) = [t EXCEPT ![i] = ResetLine]
          \/ Failed(t, k, w) = [t EXCEPT ![i] = aborted]
      BY <1>2 DEF Failed, resetSDOline
    <3> QED BY <3>1, <3>2
  <2> HIDE DEF i
  <2> DEFINE u == [t EXCEPT ![i] = m]
  <2>3. OthersEnd(t, u, k, w) /\ Downloads(u, k, w) = {}
    BY <2>1, <2>2, OneLineChanges
  <2> HIDE DEF u
  <2> QED BY <2>2, <2>3 DEF u
<1> QED BY <1>1, <1>2

-----------------------------------------------------------------------------
(***************************************************************************)
(* A step changes the lines of node n in role w of connection k.           *)
(***************************************************************************)
LEMMA LinesOfNode ==
  ASSUME DOMAIN transfers = Nodes, NEW k \in Conns, NEW w \in {SERVER, CLIENT},
         NEW n \in Nodes, n = (IF w = SERVER THEN server[k] ELSE client[k]),
         NEW u, transfers' = [transfers EXCEPT ![n] = u], OthersEnd(transfers[n], u, k, w)
  PROVE  /\ \A h \in Conns : h # k \/ w = CLIENT => AtServer(h)' \subseteq AtServer(h)
         /\ \A h \in Conns : h # k \/ w = SERVER => AtClient(h)' \subseteq AtClient(h)
         /\ w = SERVER => AtServer(k)' = Downloads(u, k, SERVER)
         /\ w = CLIENT => AtClient(k)' = Downloads(u, k, CLIENT)
<1>1. \A m \in Nodes : transfers'[m] = IF m = n THEN u ELSE transfers[m]
  OBVIOUS
<1>2. \A h \in Conns : server[h] \in Nodes /\ client[h] \in Nodes
  BY SDOAssumption
<1>3. ASSUME NEW h \in Conns, h # k \/ w = CLIENT PROVE AtServer(h)' \subseteq AtServer(h)
  <2>1. CASE server[h] = n
    BY <1>1, <1>2, <1>3, <2>1 DEF AtServer, OthersEnd
  <2>2. CASE server[h] # n
    BY <1>1, <1>2, <2>2 DEF AtServer
  <2> QED BY <2>1, <2>2
<1>4. ASSUME NEW h \in Conns, h # k \/ w = SERVER PROVE AtClient(h)' \subseteq AtClient(h)
  <2>1. CASE client[h] = n
    BY <1>1, <1>2, <1>4, <2>1 DEF AtClient, OthersEnd
  <2>2. CASE client[h] # n
    BY <1>1, <1>2, <2>2 DEF AtClient
  <2> QED BY <2>1, <2>2
<1> QED BY <1>1, <1>2, <1>3, <1>4 DEF AtServer, AtClient

\* It is enough to follow the stream of k.
LEMMA StreamsStay ==
  ASSUME Streams, NEW k \in Conns, DOMAIN req' = Conns, DOMAIN requests' = Conns,
         \A h \in Conns \ {k} :
           /\ AtServer(h)' \subseteq AtServer(h) /\ AtClient(h)' \subseteq AtClient(h)
           /\ req'[h] = req[h] /\ requests'[h] = requests[h],
         IsSequence(req'[k]), IsSequence(requests'[k]),
         Stream(AtServer(k)', AtClient(k)', req'[k], Requested(k)')
  PROVE  Streams'
<1>1. ASSUME NEW h \in Conns
      PROVE  /\ IsSequence(req'[h]) /\ IsSequence(requests'[h])
             /\ Stream(AtServer(h)', AtClient(h)', req'[h], Requested(h)')
  <2>1. CASE h = k
    BY <2>1
  <2>2. CASE h # k
    <3>1. Requested(h)' = Requested(h)
      BY <2>2 DEF Requested
    <3>2. Stream(AtServer(h), AtClient(h), req[h], Requested(h))
      BY DEF Streams
    <3>3. Stream(AtServer(h)', AtClient(h)', req[h], Requested(h))
      BY <2>2, <3>2, StreamFewer
    <3> QED BY <2>2, <3>1, <3>3 DEF Streams
  <2> QED BY <2>1, <2>2
<1> QED BY <1>1 DEF Streams

\* What a server does with the first frame of a connection.
LEMMA ServerStep ==
  ASSUME LineInvariant, Streams, NEW k \in Conns, NEW u, NEW frames,
         ServerDoes(k, u, frames), req[k] # <<>>,
         OthersEnd(transfers[server[k]], u, k, SERVER),
         Heeds(Downloads(u, k, SERVER), Head(req[k]), Requested(k))
  PROVE  Streams'
<1>1. DOMAIN transfers = Nodes /\ server[k] \in Nodes
  BY SDOAssumption DEF LineInvariant
<1>2. /\ transfers' = [transfers EXCEPT ![server[k]] = u] /\ req' = [req EXCEPT ![k] = Tail(@)]
      /\ requests' = requests
  BY DEF ServerDoes, userVars
<1>3. /\ \A h \in Conns : h # k => AtServer(h)' \subseteq AtServer(h)
      /\ \A h \in Conns : AtClient(h)' \subseteq AtClient(h)
      /\ AtServer(k)' = Downloads(u, k, SERVER)
  BY <1>1, <1>2, LinesOfNode
<1>4. Stream(AtServer(k), AtClient(k), req[k], Requested(k)) /\ IsSequence(req[k])
  BY DEF Streams
<1>5. Stream(AtServer(k)', AtClient(k), Tail(req[k]), Requested(k)) /\ IsSequence(Tail(req[k]))
  BY <1>3, <1>4, StreamTail
<1>6. Stream(AtServer(k)', AtClient(k)', Tail(req[k]), Requested(k))
  BY <1>3, <1>5, StreamFewer
<1>7. Requested(k)' = Requested(k)
  BY <1>2 DEF Requested
<1>8. DOMAIN req' = Conns /\ req'[k] = Tail(req[k]) /\ \A h \in Conns \ {k} : req'[h] = req[h]
  BY <1>2 DEF Streams
<1>9. DOMAIN requests' = Conns /\ IsSequence(requests'[k])
  BY <1>2 DEF Streams
<1> QED BY <1>2, <1>3, <1>5, <1>6, <1>7, <1>8, <1>9, StreamsStay

\* What a client sends, for what it has received or been asked.
LEMMA ClientStep ==
  ASSUME LineInvariant, Streams, NEW k \in Conns, NEW u,
         transfers' = [transfers EXCEPT ![client[k]] = u],
         OthersEnd(transfers[client[k]], u, k, CLIENT),
         DOMAIN requests' = Conns, \A h \in Conns \ {k} : requests'[h] = requests[h],
         IsSequence(requests'[k]), Requested(k) \subseteq Requested(k)',
         NEW f, req' = [req EXCEPT ![k] = Append(@, f)],
         FrameOK(f, Requested(k)'),
         f.cs = 0 => \E c \in AtClient(k) : Unsent(c) /\ f.data = c.data /\ f.from = c.offset,
         \A c \in Downloads(u, k, CLIENT) :
           SenderOK(c) /\ (Unsent(c) => Follows(f, c.data, c.offset, Requested(k)'))
  PROVE  Streams'
<1>1. DOMAIN transfers = Nodes /\ client[k] \in Nodes
  BY SDOAssumption DEF LineInvariant
<1>2. /\ \A h \in Conns : AtServer(h)' \subseteq AtServer(h)
      /\ \A h \in Conns : h # k => AtClient(h)' \subseteq AtClient(h)
      /\ AtClient(k)' = Downloads(u, k, CLIENT)
  BY <1>1, LinesOfNode
<1>3. Stream(AtServer(k), AtClient(k), req[k], Requested(k)) /\ IsSequence(req[k])
  BY DEF Streams
<1>4. /\ Stream(AtServer(k), AtClient(k)', Append(req[k], f), Requested(k)')
      /\ IsSequence(Append(req[k], f))
  <2> DEFINE S == AtServer(k)
             C == AtClient(k)
             C2 == AtClient(k)'
             R == Requested(k)
             R2 == Requested(k)'
             q == req[k]
  <2>1. \A c \in C2 : SenderOK(c) /\ (Unsent(c) => Follows(f, c.data, c.offset, R2))
    BY <1>2
  <2>2. /\ R \subseteq R2 /\ FrameOK(f, R2) /\ Stream(S, C, q, R) /\ IsSequence(q)
        /\ f.cs = 0 => \E c \in C : Unsent(c) /\ f.data = c.data /\ f.from = c.offset
    BY <1>3
  <2> HIDE DEF S, C, C2, R, R2, q
  <2>3. Stream(S, C2, Append(q, f), R2) /\ IsSequence(Append(q, f))
    BY <2>1, <2>2, StreamAppend
  <2> QED BY <2>3 DEF S, C2, R2, q
<1>5. Stream(AtServer(k)', AtClient(k)', Append(req[k], f), Requested(k)')
  BY <1>2, <1>4, StreamFewer
<1>6. DOMAIN req' = Conns /\ req'[k] = Append(req[k], f) /\ \A h \in Conns \ {k} : req'[h] = req[h]
  BY DEF Streams
<1> QED BY <1>2, <1>4, <1>5, <1>6, StreamsStay

\* Steps that send nothing and leave fewer downloads.
LEMMA QuietStep ==
  ASSUME Streams, DOMAIN req' = Conns, \A k \in Conns : req'[k] = req[k], requests' = requests,
         \A k \in Conns : AtServer(k)' \subseteq AtServer(k) /\ AtClient(k)' \subseteq AtClient(k)
  PROVE  Streams'
<1>1. ASSUME NEW k \in Conns
      PROVE  Stream(AtServer(k)', AtClient(k)', req'[k], Requested(k)')
  <2>1. Requested(k)' = Requested(k)
    BY DEF Requested
  <2>2. Stream(AtServer(k), AtClient(k), req[k], Requested(k))
    BY DEF Streams
  <2>3. Stream(AtServer(k)', AtClient(k)', req[k], Requested(k))
    BY <2>2, StreamFewer
  <2> QED BY <2>1, <2>3
<1> QED BY <1>1 DEF Streams

-----------------------------------------------------------------------------
(***************************************************************************)
(* The server's half of proceedSDO.                                        *)
(***************************************************************************)
\* The buffer of a line that has all bytes of a value.
LEMMA WholeIsAssembled ==
  ASSUME NEW l, l.data \in Values, l.offset = Size[l.data], l.count = Size[l.data]
  PROVE  Assembled(l) = l.data
<1>1. Size[l.data] \in Nat \ {0}
  BY LineAssumption
<1> QED BY <1>1 DEF Assembled

LEMMA WrittenStays ==
  ASSUME Written, od' = od, \A k \in Conns : Requested(k) \subseteq Requested(k)'
  PROVE  Written'
BY DEF Written

\* The server writes what was asked for.
LEMMA WrittenByStores ==
  ASSUME Written, NEW k \in Conns, NEW index, NEW v, Stores(k, index, v), requests' = requests,
         <<index, v>> \in Requested(k)
  PROVE  Written'
<1>1. index \in Indexes /\ server[k] \in Nodes
  BY SDOAssumption DEF Requested
<1>2. od' = [od EXCEPT ![server[k]][index] = v]
  BY DEF Stores
<1>3. \A h \in Conns : Requested(h)' = Requested(h)
  BY DEF Requested
<1>4. \A n \in Nodes, j \in Indexes :
        od'[n][j] = IF n = server[k] /\ j = index THEN v ELSE od[n][j]
  BY <1>2 DEF Written
<1>5. DOMAIN od' = Nodes /\ \A n \in Nodes : DOMAIN od'[n] = Indexes
  BY <1>1, <1>2 DEF Written
<1>6. ASSUME NEW n \in Nodes, NEW j \in Indexes
      PROVE  \/ od'[n][j] = InitialValue(j)
             \/ \E h \in Conns : server[h] = n /\ <<j, od'[n][j]>> \in Requested(h)'
  BY <1>3, <1>4 DEF Written
<1> QED BY <1>5, <1>6 DEF Written

\* Only frames with cs 0 and 1 are followed by data.
LEMMA OthersAreNotFollowed ==
  ASSUME NEW S, NEW m, NEW R, m.cs \notin {0, 1}
  PROVE  Heeds(S, m, R)
BY DEF Heeds, Follows

\* A server that forgets its download heeds whatever comes.
LEMMA NothingIsHeeded ==
  ASSUME NEW m, NEW R
  PROVE  Heeds({}, m, R)
BY DEF Heeds

\* Handlers that store nothing.
LEMMA ServerKeepsData ==
  ASSUME LineInvariant, Streams, Written, NEW k \in Conns, NEW u, NEW frames,
         ServerDoes(k, u, frames), req[k] # <<>>, od' = od,
         OthersEnd(transfers[server[k]], u, k, SERVER),
         Heeds(Downloads(u, k, SERVER), Head(req[k]), Requested(k))
  PROVE  Streams' /\ Written'
<1>1. Streams'
  BY ServerStep
<1>2. \A h \in Conns : Requested(h)' = Requested(h)
  BY DEF ServerDoes, userVars, Requested
<1> QED BY <1>1, <1>2, WrittenStays

LEMMA ServerFailsKeepsData ==
  ASSUME LineInvariant, Streams, Written, NEW k \in Conns, NEW frames, ServerFails(k, frames),
         req[k] # <<>>
  PROVE  Streams' /\ Written'
<1> DEFINE t == transfers[server[k]]
           u == Failed(t, k, SERVER)
<1>1. LinesOK(t)
  BY SDOAssumption DEF LineInvariant
<1>2. OthersEnd(t, u, k, SERVER) /\ Downloads(u, k, SERVER) = {}
  BY <1>1, FailedDownloads
<1>3. ServerDoes(k, u, frames \o <<Abort>>) /\ od' = od
  BY DEF ServerFails
<1> HIDE DEF u
<1> QED BY <1>2, <1>3, NothingIsHeeded, ServerKeepsData

\* The free line of a server that has none on use for the connection.
LEMMA ServerFreeLine ==
  ASSUME NEW t, LinesOK(t), NEW k \in Conns, ~NoLineFor(t, k)
  PROVE  /\ getSDOfreeLine(t) \in Lines /\ DOMAIN t = Lines
         /\ \A j \in Lines : ~OnUse(t, k, SERVER, j)
         /\ Downloads(t, k, SERVER) = {}
<1>1. \A j \in Lines : ~OnUse(t, k, SERVER, j)
  BY LineOnUseIsOnUse DEF NoLineFor
<1>2. getSDOfreeLine(t) \in Lines
  BY FreeLineIsFree DEF NoLineFor
<1> QED BY <1>1, <1>2, NoneOnUse DEF LinesOK

\* The line initiate request m opens, and what it is when m has all bytes.
Opened(k, m, w) == [InitLine(SERVER, k, m.index, DOWNLOAD, w) EXCEPT !.count = m.n]
Filled(k, m, w) == SDOtoLine(Opened(k, m, w), m)

LEMMA OpenedHolds ==
  ASSUME NEW k, NEW m, NEW w
  PROVE  Content(Opened(k, m, w)) =
           [index |-> m.index, count |-> m.n, offset |-> 0, data |-> Nothing]
BY DEF Opened, InitLine, ResetLine, Content

LEMMA FilledHolds ==
  ASSUME NEW k, NEW m, NEW w, m.from = 0, m.n \in Nat
  PROVE  /\ Filled(k, m, w).data = m.data
         /\ Filled(k, m, w).count = m.n /\ Filled(k, m, w).offset = m.n
BY DEF Opened, Filled, InitLine, ResetLine, SDOtoLine, Joined

LEMMA ServerInitiateDownloadKeepsData ==
  ASSUME LineInvariant, Streams, Written, NEW k \in Conns, ServerInitiateDownload(k)
  PROVE  Streams' /\ Written'
<1> DEFINE t == transfers[server[k]]
           m == Head(req[k])
           i == getSDOfreeLine(t)
           R == Requested(k)
<1>1. LinesOK(t) /\ req[k] # <<>> /\ m.cs = 1
  BY SDOAssumption DEF LineInvariant, ServerInitiateDownload, ServerGets
<1>2. Stream(AtServer(k), AtClient(k), req[k], R) /\ IsSequence(req[k])
  BY DEF Streams
<1>3. FrameOK(m, R)
  BY <1>1, <1>2 DEF Stream, IsSequence
<1>4. \/ \E f : ServerFails(k, f)
      \/ /\ ~NoLineFor(t, k) /\ m.last
         /\ \E w, f : ServerDoes(k, t, f) /\ Stores(k, m.index, Assembled(Filled(k, m, w)))
      \/ /\ ~NoLineFor(t, k) /\ ~m.last /\ od' = od
         /\ \E w, f : ServerDoes(k, [t EXCEPT ![i] = Opened(k, m, w)], f)
  BY DEF ServerInitiateDownload, Opened, Filled
<1>5. CASE \E f : ServerFails(k, f)
  BY <1>1, <1>5, ServerFailsKeepsData
<1>6. ASSUME ~NoLineFor(t, k), m.last, NEW w, NEW f, ServerDoes(k, t, f),
             Stores(k, m.index, Assembled(Filled(k, m, w)))
      PROVE  Streams' /\ Written'
  <2>1. /\ m.data \in Values /\ m.from = 0 /\ m.n = Size[m.data] /\ m.n \in Nat
        /\ <<m.index, m.data>> \in R
    BY <1>1, <1>3, <1>6, LineAssumption DEF FrameOK
  <2>2. Assembled(Filled(k, m, w)) = m.data
    <3>1. Filled(k, m, w).data = m.data /\ Filled(k, m, w).offset = m.n /\ Filled(k, m, w).count = m.n
      BY <2>1, FilledHolds
    <3> QED BY <2>1, <3>1, WholeIsAssembled
  <2>3. requests' = requests
    BY <1>6 DEF ServerDoes, userVars
  <2>4. Written'
    BY <1>6, <2>1, <2>2, <2>3, WrittenByStores
  <2>5. Downloads(t, k, SERVER) = {}
    BY <1>1, <1>6, ServerFreeLine
  <2>6. Streams'
    BY <1>1, <1>6, <2>5, SameDownloads, NothingIsHeeded, ServerStep
  <2> QED BY <2>4, <2>6
<1>7. ASSUME ~NoLineFor(t, k), ~m.last, od' = od, NEW w, NEW f,
             ServerDoes(k, [t EXCEPT ![i] = Opened(k, m, w)], f)
      PROVE  Streams' /\ Written'
  <2> DEFINE u == [t EXCEPT ![i] = Opened(k, m, w)]
  <2>1. /\ i \in Lines /\ DOMAIN t = Lines
        /\ \A j \in Lines \ {i} : ~OnUse(t, k, SERVER, j)
    BY <1>1, <1>7, ServerFreeLine
  <2>2. OthersEnd(t, u, k, SERVER) /\ Downloads(u, k, SERVER) \subseteq {Content(Opened(k, m, w))}
    <3> HIDE DEF t, i
    <3> DEFINE l == Opened(k, m, w)
    <3>1. l.state = DOWNLOAD /\ l.CliServNbr = k /\ l.whoami = SERVER
      BY DEF Opened, InitLine, ResetLine
    <3> HIDE DEF l
    <3> QED BY <2>1, <3>1, OneLineChanges DEF l
  <2> HIDE DEF u
  <2>3. Heeds(Downloads(u, k, SERVER), m, R)
    <3> DEFINE c == Content(Opened(k, m, w))
    <3>1. c.index = m.index /\ c.count = m.n /\ c.offset = 0
      BY OpenedHolds
    <3> HIDE DEF c, m, R
    <3>2. ASSUME NEW v, NEW from, Follows(m, v, from, R) PROVE Resumes(c, v, from, R)
      BY <1>1, <3>1, <3>2 DEF Follows, Resumes
    <3> QED BY <2>2, <3>2 DEF Heeds, c
  <2> QED BY <1>1, <1>7, <2>2, <2>3, ServerKeepsData DEF u
<1> QED BY <1>4, <1>5, <1>6, <1>7

LEMMA ServerDownloadSegmentKeepsData ==
  ASSUME LineInvariant, Streams, Written, NEW k \in Conns, ServerDownloadSegment(k)
  PROVE  Streams' /\ Written'
<1> DEFINE t == transfers[server[k]]
           m == Head(req[k])
           i == getSDOlineOnUse(t, k, SERVER)
           R == Requested(k)
           l == [SDOtoLine(RestartTimer(t[i]), m) EXCEPT !.toggle = Inverted(@)]
<1>1. LinesOK(t) /\ req[k] # <<>> /\ m.cs = 0
  BY SDOAssumption DEF LineInvariant, ServerDownloadSegment, ServerGets
<1>2. Stream(AtServer(k), AtClient(k), req[k], R) /\ IsSequence(req[k])
  BY DEF Streams
<1>3. /\ FrameOK(m, R)
      /\ \A c \in AtServer(k) : Resumes(c, m.data, m.from, R)
  BY <1>1, <1>2 DEF Stream, IsSequence
<1>4. \/ \E f : ServerFails(k, f)
      \/ /\ SegmentFits(t, k, SERVER, DOWNLOAD, m)
         /\ \/ od' = od /\ \E f : ServerDoes(k, [t EXCEPT ![i] = l], f)
            \/ m.last /\ Stores(k, l.index, Assembled(l))
                 /\ \E f : ServerDoes(k, resetSDOline(t, i), f)
  BY DEF ServerDownloadSegment
<1>5. CASE \E f : ServerFails(k, f)
  BY <1>1, <1>5, ServerFailsKeepsData
<1>6. CASE SegmentFits(t, k, SERVER, DOWNLOAD, m)
  <2>1. i # NoLine /\ t[i].state = DOWNLOAD
    BY <1>6 DEF SegmentFits, Started
  <2>2. i \in Lines /\ OnUse(t, k, SERVER, i) /\ \A j \in Lines \ {i} : ~OnUse(t, k, SERVER, j)
    BY <1>1, <2>1, OnlyOneOnUse
  <2>3. Content(t[i]) \in AtServer(k)
    BY <1>1, <2>1, OnlyOneOnUse DEF AtServer
  <2>4. DOMAIN t = Lines /\ DOMAIN t[i] = Fields /\ t[i].CliServNbr = k /\ t[i].whoami = SERVER
    <3> HIDE DEF i
    <3> QED BY <1>1, <2>2 DEF LinesOK, OnUse, LineToClose
  <2>5. /\ t[i].count = Size[m.data] /\ <<t[i].index, m.data>> \in R
        /\ m.from = t[i].offset /\ (t[i].offset = 0 \/ t[i].data = m.data)
    BY <1>3, <2>3 DEF Resumes, Content
  <2>6. /\ l.state = DOWNLOAD /\ l.CliServNbr = k /\ l.whoami = SERVER
        /\ l.index = t[i].index /\ l.count = t[i].count /\ l.offset = t[i].offset + m.n
        /\ l.data = m.data
    <3> HIDE DEF i, t
    <3> QED BY <2>1, <2>4, <2>5 DEF SDOtoLine, RestartTimer, Joined, Fields
  <2>7. Content(l) = [index |-> t[i].index, count |-> Size[m.data],
                      offset |-> m.from + m.n, data |-> m.data]
    BY <2>5, <2>6 DEF Content
  <2> HIDE DEF l
  <2>8. ASSUME od' = od, NEW f, ServerDoes(k, [t EXCEPT ![i] = l], f)
        PROVE  Streams' /\ Written'
    <3> DEFINE u == [t EXCEPT ![i] = l]
    <3>1. OthersEnd(t, u, k, SERVER) /\ Downloads(u, k, SERVER) \subseteq {Content(l)}
      <4> HIDE DEF t, i
      <4> QED BY <2>2, <2>4, <2>6, OneLineChanges
    <3> HIDE DEF u
    <3>2. Heeds(Downloads(u, k, SERVER), m, R)
      BY <1>1, <2>5, <2>7, <3>1 DEF Heeds, Follows, Resumes
    <3> QED BY <1>1, <2>8, <3>1, <3>2, ServerKeepsData DEF u
  <2>9. ASSUME m.last, Stores(k, l.index, Assembled(l)), NEW f,
               ServerDoes(k, resetSDOline(t, i), f)
        PROVE  Streams' /\ Written'
    <3> DEFINE u == resetSDOline(t, i)
    <3>1. OthersEnd(t, u, k, SERVER) /\ Downloads(u, k, SERVER) = {}
      <4>1. ResetLine.state # DOWNLOAD
        BY DEF ResetLine
      <4> HIDE DEF t, i
      <4> QED BY <2>2, <2>4, <4>1, OneLineChanges DEF resetSDOline
    <3> HIDE DEF u
    <3>2. Streams'
      BY <1>1, <2>9, <3>1, NothingIsHeeded, ServerStep DEF u
    <3>3. m.data \in Values /\ m.from + m.n = Size[m.data]
      BY <1>1, <1>3, <2>9 DEF FrameOK
    <3>4. Assembled(l) = m.data
      BY <2>5, <2>6, <3>3, WholeIsAssembled
    <3>5. requests' = requests
      BY <2>9 DEF ServerDoes, userVars
    <3>6. Written'
      BY <2>5, <2>6, <2>9, <3>4, <3>5, WrittenByStores
    <3> QED BY <3>2, <3>6
  <2> QED BY <1>4, <1>5, <2>8, <2>9
<1> QED BY <1>4, <1>5, <1>6

\* Handlers of other frames.
LEMMA ServerOthersKeepData ==
  ASSUME LineInvariant, Streams, Written, NEW k \in Conns,
         ServerInitiateUpload(k) \/ ServerUploadSegment(k) \/ ServerAbort(k)
  PROVE  Streams' /\ Written'
<1> DEFINE t == transfers[server[k]]
           m == Head(req[k])
           i == getSDOlineOnUse(t, k, SERVER)
<1>1. LinesOK(t) /\ req[k] # <<>> /\ m.cs \notin {0, 1} /\ DOMAIN t = Lines
      /\ \A j \in Lines : DOMAIN t[j] = Fields
  <2>1. LinesOK(t)
    BY SDOAssumption DEF LineInvariant
  <2>2. ServerGets(k, 2) \/ ServerGets(k, 3) \/ ServerGets(k, 4)
    BY DEF ServerInitiateUpload, ServerUploadSegment, ServerAbort
  <2>3. req[k] # <<>> /\ m.cs \notin {0, 1}
    BY <2>2 DEF ServerGets
  <2> HIDE DEF t, m
  <2> QED BY <2>1, <2>3 DEF LinesOK
<1>2. ASSUME NEW u, NEW f, ServerDoes(k, u, f), od' = od, OthersEnd(t, u, k, SERVER)
      PROVE  Streams' /\ Written'
  BY <1>1, <1>2, OthersAreNotFollowed, ServerKeepsData
<1>3. ASSUME NEW f, ServerDoes(k, t, f), od' = od PROVE Streams' /\ Written'
  BY <1>2, <1>3, SameDownloads
<1>4. ASSUME NEW j \in Lines, \A h \in Lines \ {j} : ~OnUse(t, k, SERVER, h),
             NEW l, l.state # DOWNLOAD
      PROVE  OthersEnd(t, [t EXCEPT ![j] = l], k, SERVER)
  <2> HIDE DEF t
  <2> QED BY <1>1, <1>4, OneLineChanges
<1>5. CASE ServerInitiateUpload(k)
  <2> DEFINE v == od[server[k]][m.index]
             l(w) == [InitLine(SERVER, k, m.index, UPLOAD, w) EXCEPT !.count = Size[v], !.data = v]
             j == getSDOfreeLine(t)
  <2>1. \/ \E f : ServerFails(k, f)
        \/ \E f : ServerDoes(k, t, f) /\ od' = od
        \/ /\ ~NoLineFor(t, k) /\ od' = od
           /\ \E w, f : ServerDoes(k, [t EXCEPT ![j] = l(w)], f)
    BY <1>5 DEF ServerInitiateUpload
  <2>2. \A w : l(w).state # DOWNLOAD
    BY DEF InitLine, ResetLine
  <2> HIDE DEF l
  <2>3. ASSUME ~NoLineFor(t, k), od' = od, NEW w, NEW f, ServerDoes(k, [t EXCEPT ![j] = l(w)], f)
        PROVE  Streams' /\ Written'
    <3>1. j \in Lines /\ \A h \in Lines \ {j} : ~OnUse(t, k, SERVER, h)
      BY <1>1, <2>3, ServerFreeLine
    <3>2. OthersEnd(t, [t EXCEPT ![j] = l(w)], k, SERVER)
      <4> HIDE DEF j, t
      <4> QED BY <1>4, <2>2, <3>1
    <3> QED BY <1>2, <2>3, <3>2
  <2> QED BY <1>1, <1>3, <2>1, <2>3, ServerFailsKeepsData
<1>6. i # NoLine => i \in Lines /\ \A h \in Lines \ {i} : ~OnUse(t, k, SERVER, h)
  BY <1>1, OnlyOneOnUse
<1>7. ASSUME i # NoLine, NEW f, ServerDoes(k, resetSDOline(t, i), f), od' = od
      PROVE  Streams' /\ Written'
  <2>1. ResetLine.state # DOWNLOAD
    BY DEF ResetLine
  <2>2. OthersEnd(t, resetSDOline(t, i), k, SERVER)
    BY <1>4, <1>6, <1>7, <2>1 DEF resetSDOline
  <2> QED BY <1>2, <1>7, <2>2
<1>8. CASE ServerUploadSegment(k)
  <2> DEFINE l == [lineToSDO(RestartTimer(t[i]), Segment(RestartTimer(t[i]), RestartTimer(t[i]).toggle).n)
                   EXCEPT !.toggle = Inverted(@)]
  <2>1. \/ \E f : ServerFails(k, f)
        \/ /\ SegmentFits(t, k, SERVER, UPLOAD, m) /\ od' = od
           /\ \/ \E f : ServerDoes(k, [t EXCEPT ![i] = l], f)
              \/ \E f : ServerDoes(k, resetSDOline(t, i), f)
    BY <1>8 DEF ServerUploadSegment
  <2>2. SegmentFits(t, k, SERVER, UPLOAD, m) => i # NoLine /\ l.state # DOWNLOAD
    BY <1>1, <1>6 DEF SegmentFits, Started, lineToSDO, RestartTimer, Fields
  <2> HIDE DEF l, i
  <2>3. ASSUME i # NoLine, l.state # DOWNLOAD, od' = od, NEW f,
               ServerDoes(k, [t EXCEPT ![i] = l], f)
        PROVE  Streams' /\ Written'
    <3>1. OthersEnd(t, [t EXCEPT ![i] = l], k, SERVER)
      BY <1>4, <1>6, <2>3
    <3> QED BY <1>2, <2>3, <3>1
  <2> QED BY <1>1, <1>7, <2>1, <2>2, <2>3, ServerFailsKeepsData
<1>9. CASE ServerAbort(k)
  BY <1>3, <1>7, <1>9 DEF ServerAbort
<1> QED BY <1>5, <1>8, <1>9

LEMMA ServerHandlesKeepsData ==
  ASSUME LineInvariant, Streams, Written, NEW k \in Conns, ServerHandles(k)
  PROVE  Streams' /\ Written'
BY ServerInitiateDownloadKeepsData, ServerDownloadSegmentKeepsData, ServerOthersKeepData
   DEF ServerHandles

-----------------------------------------------------------------------------
(***************************************************************************)
(* The client's half.                                                      *)
(***************************************************************************)
\* The client ends its download, if it has one, and says nothing.
LEMMA ClientEndsKeepsData ==
  ASSUME LineInvariant, Streams, Written, NEW k \in Conns, NEW u, ClientDoes(k, u, <<>>),
         OthersEnd(transfers[client[k]], u, k, CLIENT),
         Downloads(u, k, CLIENT) \subseteq AtClient(k)
  PROVE  Streams' /\ Written'
<1>1. DOMAIN transfers = Nodes /\ client[k] \in Nodes
  BY SDOAssumption DEF LineInvariant
<1>2. /\ transfers' = [transfers EXCEPT ![client[k]] = u] /\ req' = [req EXCEPT ![k] = @ \o <<>>]
      /\ requests' = requests /\ od' = od
  BY DEF ClientDoes, userVars
<1>3. /\ \A h \in Conns : AtServer(h)' \subseteq AtServer(h)
      /\ \A h \in Conns : h # k => AtClient(h)' \subseteq AtClient(h)
      /\ AtClient(k)' = Downloads(u, k, CLIENT)
  BY <1>1, <1>2, LinesOfNode
<1>4. DOMAIN req' = Conns /\ \A h \in Conns : req'[h] = req[h]
  <2>1. PICK X : req[k] \in Seq(X)
    BY DEF Streams, IsSequence
  <2>2. req[k] \o <<>> = req[k]
    BY <2>1
  <2> QED BY <1>2, <2>2 DEF Streams
<1>5. Streams'
  BY <1>2, <1>3, <1>4, QuietStep
<1>6. \A h \in Conns : Requested(h)' = Requested(h)
  BY <1>2 DEF Requested
<1> QED BY <1>2, <1>5, <1>6, WrittenStays

\* The client sends a frame.
LEMMA ClientSendsKeepsData ==
  ASSUME LineInvariant, Streams, Written, NEW k \in Conns, NEW u, NEW f,
         ClientDoes(k, u, <<f>>), OthersEnd(transfers[client[k]], u, k, CLIENT),
         FrameOK(f, Requested(k)),
         f.cs = 0 => \E c \in AtClient(k) : Unsent(c) /\ f.data = c.data /\ f.from = c.offset,
         \A c \in Downloads(u, k, CLIENT) :
           SenderOK(c) /\ (Unsent(c) => Follows(f, c.data, c.offset, Requested(k)))
  PROVE  Streams' /\ Written'
<1>1. /\ transfers' = [transfers EXCEPT ![client[k]] = u] /\ req' = [req EXCEPT ![k] = @ \o <<f>>]
      /\ requests' = requests /\ od' = od
  BY DEF ClientDoes, userVars
<1>2. req' = [req EXCEPT ![k] = Append(@, f)]
  <2>1. PICK X : req[k] \in Seq(X)
    BY DEF Streams, IsSequence
  <2>2. req[k] \o <<f>> = Append(req[k], f)
    BY <2>1
  <2> QED BY <1>1, <2>2
<1>3. \A h \in Conns : Requested(h)' = Requested(h)
  BY <1>1 DEF Requested
<1>4. DOMAIN requests' = Conns /\ IsSequence(requests'[k])
      /\ \A h \in Conns \ {k} : requests'[h] = requests[h]
  BY <1>1 DEF Streams
<1>5. FrameOK(f, Requested(k)') /\ Requested(k) \subseteq Requested(k)'
  BY <1>3
<1>6. \A c \in Downloads(u, k, CLIENT) :
        SenderOK(c) /\ (Unsent(c) => Follows(f, c.data, c.offset, Requested(k)'))
  BY <1>3
<1>7. Streams'
  <2> HIDE <1>3
  <2> QED BY <1>1, <1>2, <1>4, <1>5, <1>6, ClientStep
<1> QED BY <1>1, <1>3, <1>7, WrittenStays

\* A frame without data, from a client that has no download any more.
LEMMA ClientTellsKeepsData ==
  ASSUME LineInvariant, Streams, Written, NEW k \in Conns, NEW u, NEW f,
         ClientDoes(k, u, <<f>>), OthersEnd(transfers[client[k]], u, k, CLIENT),
         f.cs \notin {0, 1}, Downloads(u, k, CLIENT) = {}
  PROVE  Streams' /\ Written'
<1>1. FrameOK(f, Requested(k))
  BY DEF FrameOK
<1> QED BY <1>1, ClientSendsKeepsData

LEMMA ClientFailsKeepsData ==
  ASSUME LineInvariant, Streams, Written, NEW k \in Conns, ClientFails(k)
  PROVE  Streams' /\ Written'
<1> DEFINE t == transfers[client[k]]
           u == Failed(t, k, CLIENT)
<1>1. LinesOK(t)
  BY SDOAssumption DEF LineInvariant
<1>2. OthersEnd(t, u, k, CLIENT) /\ Downloads(u, k, CLIENT) = {}
  BY <1>1, FailedDownloads
<1>3. ClientDoes(k, u, <<Abort>>)
  BY DEF ClientFails
<1>4. Abort.cs \notin {0, 1}
  BY DEF Abort, Frame
<1> HIDE DEF u
<1> QED BY <1>2, <1>3, <1>4, ClientTellsKeepsData

\* The line the client has on use for the connection becomes m, and is no download.
LEMMA ClientLineEnds ==
  ASSUME LineInvariant, NEW k \in Conns,
         getSDOlineOnUse(transfers[client[k]], k, CLIENT) # NoLine, NEW m, m.state # DOWNLOAD
  PROVE  LET t == transfers[client[k]]
             u == [t EXCEPT ![getSDOlineOnUse(t, k, CLIENT)] = m]
         IN  OthersEnd(t, u, k, CLIENT) /\ Downloads(u, k, CLIENT) = {}
<1> DEFINE t == transfers[client[k]]
           i == getSDOlineOnUse(t, k, CLIENT)
<1>1. LinesOK(t) /\ DOMAIN t = Lines
  BY SDOAssumption DEF LineInvariant, LinesOK
<1>2. i \in Lines /\ \A j \in Lines \ {i} : ~OnUse(t, k, CLIENT, j)
  BY <1>1, OnlyOneOnUse
<1> HIDE DEF t, i
<1>3. LET u == [t EXCEPT ![i] = m] IN OthersEnd(t, u, k, CLIENT) /\ Downloads(u, k, CLIENT) = {}
  BY <1>1, <1>2, OneLineChanges
<1> QED BY <1>3 DEF t, i

\* A segment carries the next bytes of a value, the last one those up to its end.
LEMMA SegmentGoesOn ==
  ASSUME NEW l, NEW toggle, l.data \in Values, l.count = Size[l.data],
         l.offset \in 0 .. l.count, getSDOlineRestBytes(l) # 0
  PROVE  LET f == Segment(l, toggle)
         IN  /\ f.cs = 0 /\ f.data = l.data /\ f.from = l.offset /\ l.offset # l.count
             /\ f.n \in Nat /\ l.offset + f.n \in 0 .. l.count
             /\ f.last => l.offset + f.n = l.count
<1> DEFINE x == l.count
           y == l.offset
           f == Segment(l, toggle)
<1>1. x \in Nat \ {0} /\ y \in 0 .. x
  BY LineAssumption
<1>2. getSDOlineRestBytes(l) = x - y
  BY <1>1 DEF getSDOlineRestBytes
<1>3. f.cs = 0 /\ f.data = l.data /\ f.from = y
  BY DEF Segment, Frame
<1>4. f.n = (IF x - y > 7 THEN 7 ELSE x - y) /\ (f.last => x - y <= 7)
  BY <1>2 DEF Segment, Frame, SEGMENT
<1> HIDE DEF f, x, y
<1>5. x - y # 0
  BY <1>2
<1>6. y # x /\ f.n \in Nat /\ y + f.n \in 0 .. x /\ (f.last => y + f.n = x)
  BY <1>1, <1>4, <1>5
<1> QED BY <1>3, <1>6 DEF f, x, y

\* The next segment carries the next bytes.
LEMMA NextSegmentKeepsData ==
  ASSUME LineInvariant, Streams, Written, NEW k \in Conns, NEW toggle,
         Started(transfers[client[k]], k, CLIENT, DOWNLOAD),
         NextSegment(k, transfers[client[k]],
                     getSDOlineOnUse(transfers[client[k]], k, CLIENT), toggle)
  PROVE  Streams' /\ Written'
<1> DEFINE t == transfers[client[k]]
           i == getSDOlineOnUse(t, k, CLIENT)
           l == RestartTimer(t[i])
           f == Segment(l, toggle)
           goes == [lineToSDO(l, f.n) EXCEPT !.toggle = toggle]
           ends == Finished(l)
           c == Content(t[i])
           u == [t EXCEPT ![i] = goes]
<1>1. LinesOK(t) /\ i # NoLine /\ t[i].state = DOWNLOAD
  BY SDOAssumption DEF LineInvariant, Started
<1>2. /\ i \in Lines /\ OnUse(t, k, CLIENT, i) /\ \A j \in Lines \ {i} : ~OnUse(t, k, CLIENT, j)
      /\ c \in AtClient(k)
  BY <1>1, OnlyOneOnUse DEF AtClient
<1>3. DOMAIN t = Lines /\ DOMAIN t[i] = Fields /\ t[i].CliServNbr = k /\ t[i].whoami = CLIENT
  <2> HIDE DEF i, t
  <2> QED BY <1>1, <1>2 DEF LinesOK, OnUse, LineToClose
<1>4. SenderOK(c)
  BY <1>2 DEF Streams, Stream
<1>5. /\ t[i].data \in Values /\ t[i].count = Size[t[i].data] /\ t[i].count \in Nat \ {0}
      /\ t[i].offset \in 0 .. t[i].count
  BY <1>4, LineAssumption DEF SenderOK, Content
<1>6. /\ l.state = DOWNLOAD /\ l.CliServNbr = k /\ l.whoami = CLIENT /\ l.index = t[i].index
      /\ l.count = t[i].count /\ l.offset = t[i].offset /\ l.data = t[i].data
      /\ DOMAIN l = Fields
  <2> HIDE DEF i, t
  <2> QED BY <1>1, <1>3 DEF RestartTimer, Fields
<1> HIDE DEF l
<1>8. CASE getSDOlineRestBytes(l) = 0
  <2>1. ClientDoes(k, [t EXCEPT ![i] = ends], <<>>)
    BY <1>8 DEF NextSegment, ClientEnds, l
  <2>2. ends.state # DOWNLOAD
    BY <1>6 DEF Finished, StopTimer, Fields
  <2>3. OthersEnd(t, [t EXCEPT ![i] = ends], k, CLIENT)
        /\ Downloads([t EXCEPT ![i] = ends], k, CLIENT) = {}
    BY <1>1, <2>2, ClientLineEnds
  <2> QED BY <2>1, <2>3, ClientEndsKeepsData
<1>9. CASE getSDOlineRestBytes(l) # 0
  <2>1. ClientDoes(k, u, <<f>>)
    BY <1>9 DEF NextSegment, ClientGoesOn, l
  <2>2. /\ l.data \in Values /\ l.count = Size[l.data]
        /\ l.offset \in 0 .. l.count
    BY <1>5, <1>6
  <2>3. /\ f.cs = 0 /\ f.data = l.data /\ f.from = l.offset /\ l.offset # l.count
        /\ f.n \in Nat /\ l.offset + f.n \in 0 .. l.count
        /\ f.last => l.offset + f.n = l.count
    BY <1>9, <2>2, SegmentGoesOn
  <2>4. f.cs = 0 /\ f.data = t[i].data /\ f.from = t[i].offset /\ t[i].offset # t[i].count
    <3> HIDE DEF t, i, f
    <3> QED BY <1>6, <2>3
  <2>5. /\ f.n \in Nat /\ t[i].offset + f.n \in 0 .. t[i].count
        /\ f.last => t[i].offset + f.n = t[i].count
    <3> HIDE DEF t, i, f
    <3> QED BY <1>6, <2>3
  <2>6. /\ goes.state = DOWNLOAD /\ goes.CliServNbr = k /\ goes.whoami = CLIENT
        /\ goes.count = t[i].count /\ goes.data = t[i].data /\ goes.offset = t[i].offset + f.n
    BY <1>6 DEF lineToSDO, Fields
  <2> HIDE DEF f, goes
  <2>7. FrameOK(f, Requested(k))
    <3> HIDE DEF i, t, c, u, ends, DOWNLOAD
    <3>1. f.cs # 1
      BY <2>4
    <3>2. f.data \in Values /\ Size[f.data] = t[i].count
      BY <1>5, <2>4
    <3>3. t[i].offset \in Nat
      BY <1>5
    <3>4. f.from \in Nat /\ (f.last => f.from + f.n = t[i].count)
      BY <2>4, <2>5, <3>3
    <3> QED BY <2>5, <3>1, <3>2, <3>4 DEF FrameOK
  <2>8. OthersEnd(t, u, k, CLIENT) /\ Downloads(u, k, CLIENT) \subseteq {Content(goes)}
    <3> HIDE DEF i, t
    <3> QED BY <1>2, <1>3, <2>6, OneLineChanges
  <2>9. SenderOK(Content(goes))
        /\ Follows(f, Content(goes).data, Content(goes).offset, Requested(k))
    BY <1>5, <2>4, <2>6, <2>5 DEF SenderOK, Follows, Content
  <2>10. Unsent(c) /\ f.data = c.data /\ f.from = c.offset
    <3> HIDE DEF i, t
    <3> QED BY <2>4 DEF Unsent, Content
  <2> HIDE DEF u, c
  <2> QED BY <1>2, <2>1, <2>7, <2>8, <2>9, <2>10, ClientSendsKeepsData
<1> QED BY <1>8, <1>9

LEMMA ClientHandlesKeepsData ==
  ASSUME LineInvariant, Streams, Written, NEW k \in Conns, ClientHandles(k)
  PROVE  Streams' /\ Written'
<1> DEFINE t == transfers[client[k]]
           m == Head(resp[k])
           i == getSDOlineOnUse(t, k, CLIENT)
<1>1. LinesOK(t)
  BY SDOAssumption DEF LineInvariant
<1>2. i # NoLine => DOMAIN t[i] = Fields
  <2>1. i # NoLine => i \in Lines
    BY LineOnUseIsOnUse
  <2> HIDE DEF i
  <2> QED BY <1>1, <2>1 DEF LinesOK
<1>3. ASSUME i # NoLine, NEW l, l.state # DOWNLOAD, ClientDoes(k, [t EXCEPT ![i] = l], <<>>)
      PROVE  Streams' /\ Written'
  BY <1>3, ClientLineEnds, ClientEndsKeepsData
<1>4. ASSUME i # NoLine, NEW l, l.state # DOWNLOAD, NEW f, f.cs = 3,
             ClientDoes(k, [t EXCEPT ![i] = l], <<f>>)
      PROVE  Streams' /\ Written'
  <2> DEFINE u == [t EXCEPT ![i] = l]
  <2>1. OthersEnd(t, u, k, CLIENT) /\ Downloads(u, k, CLIENT) = {}
    BY <1>4, ClientLineEnds
  <2>2. ClientDoes(k, u, <<f>>)
    BY <1>4
  <2>3. f.cs \notin {0, 1}
    <3>1. f.cs = 3
      BY <1>4
    <3> HIDE DEF t, i, u, m
    <3> QED BY <3>1
  <2> HIDE DEF u, i
  <2> QED BY <2>1, <2>2, <2>3, ClientTellsKeepsData
<1>5. CASE ClientInitiateDownload(k)
  BY <1>5, ClientFailsKeepsData, NextSegmentKeepsData DEF ClientInitiateDownload
<1>6. CASE ClientDownloadSegment(k)
  BY <1>6, ClientFailsKeepsData, NextSegmentKeepsData DEF ClientDownloadSegment, SegmentFits
<1>7. CASE ClientInitiateUpload(k)
  <2> DEFINE ends == [Finished(SDOtoLine(t[i], m)) EXCEPT !.count = m.n]
             goes == [RestartTimer(t[i]) EXCEPT !.count = m.n]
  <2>1. \/ ClientFails(k)
        \/ /\ Started(t, k, CLIENT, UPLOAD)
           /\ \/ ClientDoes(k, [t EXCEPT ![i] = ends], <<>>)
              \/ ClientDoes(k, [t EXCEPT ![i] = goes], <<Frame(3)>>)
    BY <1>7 DEF ClientInitiateUpload, ClientEnds, ClientGoesOn
  <2>2. Started(t, k, CLIENT, UPLOAD) => i # NoLine /\ goes.state # DOWNLOAD /\ ends.state # DOWNLOAD
    BY <1>2 DEF Started, Fields, RestartTimer, Finished, StopTimer, SDOtoLine
  <2>3. Frame(3).cs = 3
    BY DEF Frame
  <2> HIDE DEF i, goes, ends
  <2> QED BY <1>3, <1>4, <2>1, <2>2, <2>3, ClientFailsKeepsData
<1>8. CASE ClientUploadSegment(k)
  <2> DEFINE goes == [SDOtoLine(RestartTimer(t[i]), m) EXCEPT !.toggle = Inverted(@)]
             ends == Finished(goes)
             f == [Frame(3) EXCEPT !.toggle = goes.toggle]
  <2>1. \/ ClientFails(k)
        \/ /\ Started(t, k, CLIENT, UPLOAD)
           /\ \/ ClientDoes(k, [t EXCEPT ![i] = ends], <<>>)
              \/ ClientDoes(k, [t EXCEPT ![i] = goes], <<f>>)
    BY <1>8 DEF ClientUploadSegment, ClientEnds, ClientGoesOn, SegmentFits
  <2>2. Started(t, k, CLIENT, UPLOAD) => i # NoLine /\ goes.state # DOWNLOAD /\ ends.state # DOWNLOAD
    BY <1>2 DEF Started, Fields, RestartTimer, Finished, StopTimer, SDOtoLine
  <2>3. f.cs = 3
    BY DEF Frame
  <2> HIDE DEF i, goes, ends, f
  <2> QED BY <1>3, <1>4, <2>1, <2>2, <2>3, ClientFailsKeepsData
<1>9. CASE ClientAbort(k)
  <2> DEFINE ends == StopTimer([t[i] EXCEPT !.state = ABORTED_RCV])
  <2>1. CASE i = NoLine
    <3>1. ClientDoes(k, t, <<>>)
      BY <1>9, <2>1 DEF ClientAbort
    <3> QED BY <3>1, SameDownloads, ClientEndsKeepsData DEF AtClient
  <2>2. CASE i # NoLine
    <3>1. ClientDoes(k, [t EXCEPT ![i] = ends], <<>>)
      BY <1>9, <2>2 DEF ClientAbort, ClientEnds
    <3>2. ends.state # DOWNLOAD
      BY <1>2, <2>2 DEF StopTimer, Fields
    <3> HIDE DEF i, ends
    <3> QED BY <1>3, <2>2, <3>1, <3>2
  <2> QED BY <2>1, <2>2
<1> QED BY <1>5, <1>6, <1>7, <1>8, <1>9 DEF ClientHandles

-----------------------------------------------------------------------------
(***************************************************************************)
(* The watchdog, the user and the faults.                                  *)
(***************************************************************************)
\* What Append leaves of a sequence.
LEMMA AppendKeeps ==
  ASSUME NEW q, IsSequence(q), NEW r
  PROVE  /\ IsSequence(Append(q, r))
         /\ \A p \in 1 .. Len(q) : p \in 1 .. Len(Append(q, r)) /\ Append(q, r)[p] = q[p]
         /\ Len(q) + 1 \in 1 .. Len(Append(q, r)) /\ Append(q, r)[Len(q) + 1] = r
<1>1. PICK X : q \in Seq(X)
  BY DEF IsSequence
<1>2. q \in Seq(X \cup {r})
  BY <1>1
<1>3. Append(q, r) \in Seq(X \cup {r})
  BY <1>2
<1> QED BY <1>2, <1>3 DEF IsSequence

\* Every download in u is one in t.
LEMMA FewerDownloads ==
  ASSUME NEW t, NEW u,
         \A j \in Lines : u[j].state = DOWNLOAD =>
           /\ t[j].state = DOWNLOAD /\ Content(u[j]) = Content(t[j])
           /\ u[j].CliServNbr = t[j].CliServNbr /\ u[j].whoami = t[j].whoami
  PROVE  \A k, w : Downloads(u, k, w) \subseteq Downloads(t, k, w)
BY DEF Downloads, DownloadLine

\* A node ends downloads and sends nothing.
LEMMA NodeEndsKeepsData ==
  ASSUME LineInvariant, Streams, Written, NEW n \in Nodes, NEW u,
         transfers' = [transfers EXCEPT ![n] = u], requests' = requests, od' = od,
         DOMAIN req' = Conns, \A k \in Conns : req'[k] = req[k],
         \A k, w : Downloads(u, k, w) \subseteq Downloads(transfers[n], k, w)
  PROVE  Streams' /\ Written'
<1>1. \A m \in Nodes : transfers'[m] = IF m = n THEN u ELSE transfers[m]
  BY DEF LineInvariant
<1>2. ASSUME NEW k \in Conns
      PROVE  AtServer(k)' \subseteq AtServer(k) /\ AtClient(k)' \subseteq AtClient(k)
  <2>1. server[k] \in Nodes /\ client[k] \in Nodes
    BY SDOAssumption
  <2>2. AtServer(k)' \subseteq AtServer(k)
    <3>1. CASE server[k] = n
      BY <1>1, <2>1, <3>1 DEF AtServer
    <3>2. CASE server[k] # n
      BY <1>1, <2>1, <3>2 DEF AtServer
    <3> QED BY <3>1, <3>2
  <2>3. AtClient(k)' \subseteq AtClient(k)
    <3>1. CASE client[k] = n
      BY <1>1, <2>1, <3>1 DEF AtClient
    <3>2. CASE client[k] # n
      BY <1>1, <2>1, <3>2 DEF AtClient
    <3> QED BY <3>1, <3>2
  <2> QED BY <2>2, <2>3
<1>3. Streams'
  BY <1>2, QuietStep
<1>4. \A k \in Conns : Requested(k)' = Requested(k)
  BY DEF Requested
<1> QED BY <1>3, <1>4, WrittenStays

LEMMA TimeoutKeepsData ==
  ASSUME LineInvariant, Streams, Written, NEW n \in Nodes, NEW i \in Lines, SDOTimeoutAlarm(n, i)
  PROVE  Streams' /\ Written'
<1> DEFINE t == transfers[n]
           late == [t[i] EXCEPT !.timer = STALE]
<1>1. LinesOK(t) /\ DOMAIN t = Lines /\ DOMAIN transfers = Nodes /\ \A j \in Lines : DOMAIN t[j] = Fields
  BY DEF LineInvariant, LinesOK
<1>2. requests' = requests /\ od' = od /\ DOMAIN req = Conns
  BY DEF SDOTimeoutAlarm, userVars, Streams
<1>3. \A h \in Conns : Requested(h)' = Requested(h)
  BY <1>2 DEF Requested
<1>4. PICK k \in Conns :
        /\ t[i].state # RESET /\ t[i].CliServNbr = k
        /\ \/ t[i].whoami = CLIENT /\ client[k] = n
           \/ t[i].whoami = SERVER
  BY DEF SDOTimeoutAlarm, AlarmDue, LineInvariant, Placed
<1>5. CASE n \notin HasClientEntry
  <2>1. transfers' = [transfers EXCEPT ![n] = [t EXCEPT ![i] = late]] /\ req' = req
    BY <1>5 DEF SDOTimeoutAlarm
  <2>2. /\ late.state = t[i].state /\ Content(late) = Content(t[i])
        /\ late.CliServNbr = t[i].CliServNbr /\ late.whoami = t[i].whoami
    BY <1>1 DEF Content, Fields
  <2> DEFINE u == [t EXCEPT ![i] = late]
  <2>3. \A j \in Lines : u[j] = IF j = i THEN late ELSE t[j]
    BY <1>1
  <2> HIDE DEF t, u, late
  <2>4. \A h, w : Downloads(u, h, w) \subseteq Downloads(t, h, w)
    BY <2>2, <2>3, FewerDownloads
  <2> QED BY <1>2, <2>1, <2>4, NodeEndsKeepsData DEF u, t
<1>6. CASE n \in HasClientEntry
  <2> DEFINE u == [t EXCEPT ![i] = ResetLine]
  <2>1. transfers' = [transfers EXCEPT ![n] = u]
    BY <1>6 DEF SDOTimeoutAlarm
  <2>2. ResetLine.state = RESET
    BY DEF ResetLine
  <2>3. CASE t[i].whoami = SERVER
    <3>1. req' = req
      BY <1>6, <2>3 DEF SDOTimeoutAlarm
    <3>2. \A j \in Lines : u[j] = IF j = i THEN ResetLine ELSE t[j]
      BY <1>1
    <3> HIDE DEF t, u
    <3>3. \A h, w : Downloads(u, h, w) \subseteq Downloads(t, h, w)
      BY <2>2, <3>2, FewerDownloads
    <3> QED BY <1>2, <2>1, <3>1, <3>3, NodeEndsKeepsData DEF t
  <2>4. CASE t[i].whoami = CLIENT /\ client[k] = n
    <3>1. req' = [req EXCEPT ![k] = Append(@, Abort)]
      BY <1>4, <1>6, <2>4 DEF SDOTimeoutAlarm
    <3>2. \A j \in Lines \ {i} : ~OnUse(t, k, CLIENT, j)
      <4>1. LineToClose(t, k, CLIENT, i)
        BY <1>4, <2>4 DEF LineToClose
      <4> HIDE DEF t
      <4> QED BY <1>1, <1>4, <4>1 DEF LinesOK, OnUse
    <3>3. OthersEnd(t, u, k, CLIENT) /\ Downloads(u, k, CLIENT) = {}
      <4> HIDE DEF t
      <4> QED BY <1>1, <2>2, <3>2, OneLineChanges
    <3>4. Abort.cs = 4
      BY DEF Abort, Frame
    <3>5. Abort.cs # 0 /\ FrameOK(Abort, Requested(k)')
      <4>1. Abort.cs # 0 /\ Abort.cs # 1
        <5> HIDE DEF t, u, late
        <5> QED BY <3>4
      <4> QED BY <4>1 DEF FrameOK
    <3>6. DOMAIN requests' = Conns /\ IsSequence(requests'[k])
          /\ \A h \in Conns \ {k} : requests'[h] = requests[h]
      BY <1>2, <1>4 DEF Streams
    <3>7. Requested(k) \subseteq Requested(k)'
      BY <1>3, <1>4
    <3>8. transfers' = [transfers EXCEPT ![client[k]] = u]
          /\ OthersEnd(transfers[client[k]], u, k, CLIENT)
      BY <2>1, <2>4, <3>3
    <3>9. Streams'
      <4> HIDE DEF u
      <4> QED BY <1>4, <3>1, <3>3, <3>5, <3>6, <3>7, <3>8, ClientStep
    <3> QED BY <1>2, <1>3, <3>9, WrittenStays
  <2> QED BY <1>4, <2>3, <2>4
<1> QED BY <1>5, <1>6

\* A new transfer, of a client that has no line for the connection.
LEMMA StartsKeepsData ==
  ASSUME LineInvariant, Streams, Written, NEW k \in Conns, NEW r, NEW l, NEW f, Starts(k, r, l, f),
         l.state = DOWNLOAD => l.CliServNbr = k /\ l.whoami = CLIENT,
         f.cs # 0, FrameOK(f, Requested(k)'),
         l.state = DOWNLOAD =>
           /\ SenderOK(Content(l))
           /\ Unsent(Content(l)) =>
                Follows(f, Content(l).data, Content(l).offset, Requested(k)')
  PROVE  Streams' /\ Written'
<1> DEFINE t == transfers[client[k]]
           i == getSDOfreeLine(t)
           u == [t EXCEPT ![i] = l]
<1>1. LinesOK(t) /\ i \in Lines /\ DOMAIN t = Lines
  <2>1. LinesOK(t)
    BY SDOAssumption DEF LineInvariant
  <2>2. i \in Lines
    BY FreeLineIsFree DEF Starts
  <2> HIDE DEF t, i
  <2> QED BY <2>1, <2>2 DEF LinesOK
<1>2. \A j \in Lines \ {i} : ~OnUse(t, k, CLIENT, j)
  BY DEF LineInvariant, Starts, OnUse
<1>3. /\ transfers' = [transfers EXCEPT ![client[k]] = u] /\ od' = od
      /\ req' = [req EXCEPT ![k] = Append(@, f)]
      /\ requests' = [requests EXCEPT ![k] = Append(@, r)]
  BY DEF Starts
<1>4. DOMAIN requests' = Conns /\ requests'[k] = Append(requests[k], r)
      /\ \A h \in Conns \ {k} : requests'[h] = requests[h]
  BY <1>3 DEF Streams
<1>5. /\ IsSequence(requests'[k])
      /\ \A p \in 1 .. Len(requests[k]) :
           p \in 1 .. Len(requests'[k]) /\ requests'[k][p] = requests[k][p]
  <2>1. IsSequence(requests[k])
    BY DEF Streams
  <2> HIDE DEF DOWNLOAD, t, i, u
  <2> QED BY <1>4, <2>1, AppendKeeps
<1>7. Requested(k) \subseteq Requested(k)'
  <2> HIDE DEF DOWNLOAD, t, i, u
  <2> QED BY <1>5 DEF Requested
<1>8. \A h \in Conns : Requested(h) \subseteq Requested(h)'
  <2>1. \A h \in Conns \ {k} : Requested(h)' = Requested(h)
    BY <1>4 DEF Requested
  <2> QED BY <1>7, <2>1
<1>9. /\ OthersEnd(t, u, k, CLIENT) /\ Downloads(u, k, CLIENT) \subseteq {Content(l)}
      /\ l.state # DOWNLOAD => Downloads(u, k, CLIENT) = {}
  <2> HIDE DEF t, i
  <2> QED BY <1>1, <1>2, OneLineChanges
<1>10. \A c \in Downloads(u, k, CLIENT) :
         SenderOK(c) /\ (Unsent(c) => Follows(f, c.data, c.offset, Requested(k)'))
  <2> HIDE DEF u, i, t
  <2> QED BY <1>9
<1>11. Streams'
  <2> HIDE DEF u
  <2> QED BY <1>3, <1>4, <1>5, <1>7, <1>9, <1>10, ClientStep
<1> QED BY <1>3, <1>8, <1>11, WrittenStays

\* writeNetworkDict.
LEMMA WriteKeepsData ==
  ASSUME LineInvariant, Streams, Written, NEW k \in Conns, NEW index \in Indexes,
         NEW v \in Values, writeNetworkDict(k, index, v)
  PROVE  Streams' /\ Written'
<1> DEFINE expedited == Size[v] <= EXPEDITED
           request == [op |-> DOWNLOAD, index |-> index, value |-> v]
           line(w) == [InitLine(CLIENT, k, index, DOWNLOAD, w)
                       EXCEPT !.count = Size[v], !.data = v,
                              !.offset = IF expedited THEN Size[v] ELSE 0]
           f == [Frame(1) EXCEPT !.index = index, !.last = expedited, !.n = Size[v],
                                 !.data = IF expedited THEN v ELSE Nothing]
<1>1. PICK w \in Watchdogs : Starts(k, request, line(w), f)
  BY DEF writeNetworkDict
<1> DEFINE l == line(w)
           c == Content(l)
<1>2. l.CliServNbr = k /\ l.whoami = CLIENT
  BY DEF InitLine, ResetLine
<1>3. c.data = v /\ c.count = Size[v] /\ c.offset = IF expedited THEN Size[v] ELSE 0
  BY DEF Content, InitLine, ResetLine
<1>4. f.cs = 1 /\ f.index = index /\ f.n = Size[v] /\ f.from = 0
      /\ f.data = IF expedited THEN v ELSE Nothing
  BY DEF Frame
<1>5. f.last <=> expedited
  BY DEF Frame
<1>6. <<index, v>> \in Requested(k)'
  <2>1. requests'[k] = Append(requests[k], request) /\ IsSequence(requests[k])
    BY <1>1 DEF Starts, Streams
  <2>2. Len(requests[k]) + 1 \in 1 .. Len(requests'[k])
        /\ requests'[k][Len(requests[k]) + 1] = request
    <3> HIDE DEF request, line, f, l, c
    <3> QED BY <2>1, AppendKeeps
  <2> HIDE DEF line, f, l, c
  <2> QED BY <2>2 DEF Requested
<1>7. Starts(k, request, l, f)
  BY <1>1
<1>8. Size[v] \in Nat \ {0}
  BY LineAssumption
<1> HIDE DEF line, l, c, f, request, expedited
<1>9. FrameOK(f, Requested(k)')
  <2>1. f.cs # 0
    BY <1>4
  <2>2. f.last => f.data = v
    BY <1>4, <1>5
  <2> QED BY <1>4, <1>6, <2>1, <2>2 DEF FrameOK
<1>10. SenderOK(c)
  BY <1>3, <1>8 DEF SenderOK
<1>11. Unsent(c) => Follows(f, c.data, c.offset, Requested(k)')
  <2>1. Unsent(c) => ~expedited
    BY <1>3 DEF Unsent
  <2> QED BY <1>3, <1>4, <1>5, <1>6, <2>1 DEF Follows
<1>12. f.cs # 0
  BY <1>4
<1> QED BY <1>2, <1>7, <1>9, <1>10, <1>11, <1>12, StartsKeepsData DEF c

\* readNetworkDict.
LEMMA ReadKeepsData ==
  ASSUME LineInvariant, Streams, Written, NEW k \in Conns, NEW index \in Indexes,
         readNetworkDict(k, index)
  PROVE  Streams' /\ Written'
<1> DEFINE request == [op |-> UPLOAD, index |-> index, value |-> Nothing]
           line(w) == InitLine(CLIENT, k, index, UPLOAD, w)
           f == [Frame(2) EXCEPT !.index = index]
<1>1. PICK w \in Watchdogs : Starts(k, request, line(w), f)
  BY DEF readNetworkDict
<1> DEFINE l == line(w)
<1>2. Starts(k, request, l, f)
  BY <1>1
<1>3. l.state # DOWNLOAD
  BY DEF InitLine, ResetLine
<1>4. f.cs = 2
  BY DEF Frame
<1> HIDE DEF line, l, f, request
<1>5. f.cs # 0 /\ FrameOK(f, Requested(k)')
  BY <1>4 DEF FrameOK
<1> QED BY <1>2, <1>3, <1>5, StartsKeepsData

LEMMA GetResultKeepsData ==
  ASSUME LineInvariant, Streams, Written, NEW k \in Conns, GetResult(k)
  PROVE  Streams' /\ Written'
<1> DEFINE t == transfers[client[k]]
           a == AfterResult(t, k)
           u == closeSDOtransfer(a, k)
<1>1. client[k] \in Nodes /\ DOMAIN t = Lines
  BY SDOAssumption DEF LineInvariant, LinesOK
<1>2. DOMAIN a = Lines /\ \A j \in Lines : a[j] = t[j] \/ a[j] = ResetLine
  <2> HIDE DEF t
  <2> QED BY <1>1 DEF AfterResult, resetSDOline
<1>3. \A j \in Lines : u[j] = a[j] \/ u[j] = ResetLine
  <2> HIDE DEF a
  <2> QED BY <1>2 DEF closeSDOtransfer, resetSDOline
<1>4. ResetLine.state = RESET
  BY DEF ResetLine
<1>5. /\ transfers' = [transfers EXCEPT ![client[k]] = u] /\ requests' = requests /\ od' = od
      /\ req' = req
  BY DEF GetResult
<1>6. \A h, w : Downloads(u, h, w) \subseteq Downloads(t, h, w)
  <2> HIDE DEF u, a, t
  <2>1. \A j \in Lines : u[j] = t[j] \/ u[j] = ResetLine
    BY <1>2, <1>3
  <2> QED BY <1>4, <2>1, FewerDownloads
<1> HIDE DEF u
<1> QED BY <1>1, <1>5, <1>6, NodeEndsKeepsData DEF Streams

LEMMA StopKeepsData ==
  ASSUME LineInvariant, Streams, Written, NEW n \in Nodes, Stop(n)
  PROVE  Streams' /\ Written'
<1> DEFINE u == resetSDO(n)
<1>1. \A j \in Lines : u[j].state = RESET
  BY DEF resetSDO, ResetLine
<1>2. /\ transfers' = [transfers EXCEPT ![n] = u] /\ requests' = requests /\ od' = od
      /\ req' = req
  BY DEF Stop, userVars
<1> HIDE DEF u
<1>3. \A h, w : Downloads(u, h, w) \subseteq Downloads(transfers[n], h, w)
  BY <1>1, FewerDownloads
<1> QED BY <1>2, <1>3, NodeEndsKeepsData DEF Streams

\* A server that does not run has no download that could miss the frame.
LEMMA DiscardKeepsData ==
  ASSUME LineInvariant, Streams, Written, NEW k \in Conns, Discard(k)
  PROVE  Streams' /\ Written'
<1>1. transfers' = transfers /\ requests' = requests /\ od' = od
  BY DEF Discard, userVars
<1>2. \A h \in Conns : /\ AtServer(h)' = AtServer(h) /\ AtClient(h)' = AtClient(h)
                       /\ Requested(h)' = Requested(h)
  BY <1>1 DEF AtServer, AtClient, Requested
<1>3. Streams'
  <2>1. CASE req' = req
    BY <1>1, <1>2, <2>1, QuietStep DEF Streams
  <2>2. CASE server[k] \notin running /\ req[k] # <<>> /\ req' = [req EXCEPT ![k] = Tail(@)]
    <3>1. AtServer(k) = {}
      <4>1. server[k] \in Nodes \ running
        BY <2>2, SDOAssumption
      <4>2. \A i \in Lines : transfers[server[k]][i].state = RESET
        BY <4>1 DEF LineInvariant
      <4> QED BY <4>2 DEF AtServer, Downloads, DownloadLine
    <3>2. Heeds(AtServer(k), Head(req[k]), Requested(k))
      BY <3>1 DEF Heeds
    <3>3. Stream(AtServer(k), AtClient(k), req[k], Requested(k)) /\ IsSequence(req[k])
      BY DEF Streams
    <3>4. Stream(AtServer(k), AtClient(k), Tail(req[k]), Requested(k)) /\ IsSequence(Tail(req[k]))
      BY <2>2, <3>2, <3>3, StreamTail
    <3>5. DOMAIN req' = Conns /\ req'[k] = Tail(req[k]) /\ \A h \in Conns \ {k} : req'[h] = req[h]
      BY <2>2 DEF Streams
    <3>6. DOMAIN requests' = Conns /\ IsSequence(requests'[k])
      BY <1>1 DEF Streams
    <3> QED BY <1>1, <1>2, <3>4, <3>5, <3>6, StreamsStay
  <2> QED BY <2>1, <2>2 DEF Discard
<1> QED BY <1>1, <1>2, <1>3, WrittenStays

\* Only a lost frame counts.
LEMMA LossesStay ==
  ASSUME [Next]_vars, \A k \in Conns : ~Lose(k)
  PROVE  losses' = losses
<1>1. ASSUME NEW k, ServerHandles(k) PROVE losses' = losses
  <2>1. CASE ServerInitiateDownload(k)
    BY <2>1 DEF ServerInitiateDownload, ServerFails, ServerDoes, faultVars
  <2>2. CASE ServerDownloadSegment(k)
    BY <2>2 DEF ServerDownloadSegment, ServerFails, ServerDoes, faultVars
  <2>3. CASE ServerInitiateUpload(k)
    BY <2>3 DEF ServerInitiateUpload, ServerFails, ServerDoes, faultVars
  <2>4. CASE ServerUploadSegment(k)
    BY <2>4 DEF ServerUploadSegment, ServerFails, ServerDoes, faultVars
  <2>5. CASE ServerAbort(k)
    BY <2>5 DEF ServerAbort, ServerDoes, faultVars
  <2> QED BY <1>1, <2>1, <2>2, <2>3, <2>4, <2>5 DEF ServerHandles
<1>2. ASSUME NEW k, ClientHandles(k) PROVE losses' = losses
  <2>1. CASE ClientInitiateDownload(k)
    BY <2>1 DEF ClientInitiateDownload, NextSegment, ClientFails, ClientEnds, ClientGoesOn,
                ClientDoes, faultVars
  <2>2. CASE ClientDownloadSegment(k)
    BY <2>2 DEF ClientDownloadSegment, NextSegment, ClientFails, ClientEnds, ClientGoesOn,
                ClientDoes, faultVars
  <2>3. CASE ClientInitiateUpload(k)
    BY <2>3 DEF ClientInitiateUpload, ClientFails, ClientEnds, ClientGoesOn, ClientDoes, faultVars
  <2>4. CASE ClientUploadSegment(k)
    BY <2>4 DEF ClientUploadSegment, ClientFails, ClientEnds, ClientGoesOn, ClientDoes, faultVars
  <2>5. CASE ClientAbort(k)
    BY <2>5 DEF ClientAbort, ClientEnds, ClientDoes, faultVars
  <2> QED BY <1>2, <2>1, <2>2, <2>3, <2>4, <2>5 DEF ClientHandles
<1>3. ASSUME NEW n, NEW i, SDOTimeoutAlarm(n, i) PROVE losses' = losses
  BY <1>3 DEF SDOTimeoutAlarm, faultVars
<1>4. ASSUME NEW k, NEW index, NEW v, writeNetworkDict(k, index, v) \/ readNetworkDict(k, index)
      PROVE  losses' = losses
  BY <1>4 DEF writeNetworkDict, readNetworkDict, Starts, faultVars
<1>5. ASSUME NEW k, GetResult(k) \/ Discard(k) \/ Stop(k) \/ Start(k) PROVE losses' = losses
  BY <1>5 DEF GetResult, Discard, Stop, Start, faultVars
<1>6. CASE UNCHANGED vars
  BY <1>6 DEF vars
<1> QED BY <1>1, <1>2, <1>3, <1>4, <1>5, <1>6 DEF Next

-----------------------------------------------------------------------------
\* The strengthening OnlyWholeRequestedWrites rests on.
THEOREM DataIsInvariant == Spec => []DataInvariant
<1>1. Init => DataInvariant
  <2> SUFFICES ASSUME Init PROVE Streams /\ Written /\ losses = 0
    BY DEF DataInvariant
  <2>1. \A n \in Nodes, i \in Lines : transfers[n][i].state = RESET
    BY DEF Init, ResetLine
  <2>2. \A k \in Conns : AtServer(k) = {} /\ AtClient(k) = {}
    BY <2>1, SDOAssumption DEF AtServer, AtClient, Downloads, DownloadLine
  <2>3. /\ DOMAIN req = Conns /\ DOMAIN requests = Conns
        /\ \A k \in Conns : req[k] = <<>> /\ requests[k] = <<>>
    BY DEF Init
  <2>4. <<>> \in Seq({}) /\ Len(<<>>) = 0
    OBVIOUS
  <2>5. \A R : Stream({}, {}, <<>>, R)
    BY DEF Stream
  <2>6. Streams
    BY <2>2, <2>3, <2>4, <2>5 DEF Streams, IsSequence
  <2>7. Written
    BY DEF Init, Written
  <2> QED BY <2>6, <2>7 DEF Init
<1>2. LineInvariant /\ DataInvariant /\ [Next]_vars => DataInvariant'
  <2> SUFFICES ASSUME LineInvariant, DataInvariant, [Next]_vars
               PROVE  DataInvariant'
    OBVIOUS
  <2>1. losses \in Nat
    BY DEF DataInvariant
  <2>2. CASE \E k \in Conns : Lose(k)
    BY <2>1, <2>2 DEF Lose, DataInvariant
  <2>3. CASE \A k \in Conns : ~Lose(k)
    <3>1. losses' = losses
      BY <2>3, LossesStay
    <3>2. ASSUME losses = 0 PROVE Streams' /\ Written'
      <4>1. Streams /\ Written
        BY <3>2 DEF DataInvariant
      <4>2. ASSUME NEW k \in Conns, ServerHandles(k) PROVE Streams' /\ Written'
        BY <4>1, <4>2, ServerHandlesKeepsData
      <4>3. ASSUME NEW k \in Conns, ClientHandles(k) PROVE Streams' /\ Written'
        BY <4>1, <4>3, ClientHandlesKeepsData
      <4>4. ASSUME NEW n \in Nodes, NEW i \in Lines, SDOTimeoutAlarm(n, i)
            PROVE  Streams' /\ Written'
        BY <4>1, <4>4, TimeoutKeepsData
      <4>5. ASSUME NEW k \in Conns, NEW index \in Indexes, NEW v \in Values,
                   writeNetworkDict(k, index, v)
            PROVE  Streams' /\ Written'
        BY <4>1, <4>5, WriteKeepsData
      <4>6. ASSUME NEW k \in Conns, NEW index \in Indexes, readNetworkDict(k, index)
            PROVE  Streams' /\ Written'
        BY <4>1, <4>6, ReadKeepsData
      <4>7. ASSUME NEW k \in Conns, GetResult(k) PROVE Streams' /\ Written'
        BY <4>1, <4>7, GetResultKeepsData
      <4>8. ASSUME NEW k \in Conns, Discard(k) PROVE Streams' /\ Written'
        BY <4>1, <4>8, DiscardKeepsData
      <4>9. ASSUME NEW n \in Nodes, Stop(n) PROVE Streams' /\ Written'
        BY <4>1, <4>9, StopKeepsData
      <4>10. ASSUME transfers' = transfers, req' = req, requests' = requests, od' = od
             PROVE  Streams' /\ Written'
        <5>1. \A k \in Conns : /\ AtServer(k)' = AtServer(k) /\ AtClient(k)' = AtClient(k)
                               /\ Requested(k)' = Requested(k)
          BY <4>10 DEF AtServer, AtClient, Requested
        <5>2. Streams'
          BY <4>1, <4>10, <5>1, QuietStep DEF Streams
        <5> QED BY <4>1, <4>10, <5>1, <5>2, WrittenStays
      <4>11. ASSUME NEW n \in Nodes, Start(n) PROVE Streams' /\ Written'
        BY <4>10, <4>11 DEF Start, userVars
      <4>12. CASE UNCHANGED vars
        BY <4>10, <4>12 DEF vars
      <4> QED BY <2>3, <4>2, <4>3, <4>4, <4>5, <4>6, <4>7, <4>8, <4>9, <4>11, <4>12 DEF Next
    <3> QED BY <2>1, <3>1, <3>2 DEF DataInvariant
  <2> QED BY <2>2, <2>3
<1> QED BY <1>1, <1>2, LinesInvariant, PTL DEF Spec

\* OnlyWholeRequestedWrites: what _setODentry (sdo.c:347) gets from a line is
\* what some client asked to write, whatever is cut short, refused, retried or
\* comes late, as long as no frame is lost.
THEOREM WritesAreWhole == Spec => []OnlyWholeRequestedWrites
<1>1. DataInvariant => OnlyWholeRequestedWrites
  <2> SUFFICES ASSUME Written, NEW n \in Nodes, NEW index \in Indexes,
                      od[n][index] # InitialValue(index)
               PROVE  \E k \in Conns :
                        /\ server[k] = n
                        /\ \E r \in 1 .. Len(requests[k]) :
                             requests[k][r] = [op |-> DOWNLOAD, index |-> index,
                                               value |-> od[n][index]]
    BY DEF DataInvariant, OnlyWholeRequestedWrites
  <2>1. PICK k \in Conns : server[k] = n /\ <<index, od[n][index]>> \in Requested(k)
    BY DEF Written
  <2> HIDE DEF DOWNLOAD
  <2>2. \E r \in 1 .. Len(requests[k]) :
          requests[k][r] = [op |-> DOWNLOAD, index |-> index, value |-> od[n][index]]
    BY <2>1 DEF Requested
  <2> QED BY <2>1, <2>2
<1> QED BY <1>1, DataIsInvariant, PTL

-----------------------------------------------------------------------------
(***************************************************************************)
(* What is served.  When no answer outlives its transfer, client and       *)
(* server take turns: at any time one of them has spoken, and what it said *)
(* is about the transfer the other one is at, so far as it has come.       *)
(***************************************************************************)

HIDE DEF RESET, FINISHED, DOWNLOAD, UPLOAD, BLOCK_DOWNLOAD, BLOCK_UPLOAD, ABORTED_RCV,
         ABORTED_INTERNAL, SERVER, CLIENT, UNKNOWN, NO_TIMER, ARMED, STALE

\* What a line keeps of a transfer.
View(l) ==
  [state |-> l.state, index |-> l.index, count |-> l.count, offset |-> l.offset, data |-> l.data]

\* The lines on use for connection k in role w.
Views(t, k, w) == {View(t[i]) : i \in {j \in Lines : OnUse(t, k, w, j)}}

ClientViews(k) == Views(transfers[client[k]], k, CLIENT)
ServerViews(k) == Views(transfers[server[k]], k, SERVER)

Stored == Values \cup {Mixed}

Waits(c) == c.state \in {DOWNLOAD, UPLOAD}

\* Client line c is at request r, of which the server has done s, with n callbacks.
InTune(c, r, s, n) ==
  /\ Waits(c) => n = 0 /\ r.op = c.state /\ r.index = c.index /\ c.index \in Indexes
  /\ c.state = DOWNLOAD =>
       c.data \in Values /\ r.value = c.data /\ c.count = Size[c.data] /\ c.offset \in 0 .. c.count
  /\ c.state = FINISHED =>
       n = 1 /\ s = [op |-> r.op, index |-> r.index, value |-> Assembled(c)]

\* The server has done what client line c is about.
DoneFor(c, s, value) == s = [op |-> c.state, index |-> c.index, value |-> value]

\* Server line v has received what c has sent up to byte "offset".
Receives(v, c, offset) ==
  /\ v.state = DOWNLOAD /\ v.index = c.index /\ v.count = c.count /\ v.offset = offset
  /\ offset = 0 \/ v.data = c.data

\* Server line v has sent the bytes of "value" up to "offset".
Sends(v, value, offset) ==
  v.state = UPLOAD /\ v.data = value /\ v.count = Size[value] /\ v.offset = offset

\* Client line c has the bytes of what the server serves up to its offset.
Fetches(c, s) ==
  /\ c.state = UPLOAD /\ s.value \in Stored /\ DoneFor(c, s, s.value)
  /\ c.count = Size[s.value] /\ c.offset \in 0 .. c.count - 1
  /\ c.offset = 0 \/ c.data = s.value

\* Request m is what client line c asks next.
RequestFits(m, c, S, s) ==
  /\ m.cs = 1 =>
       /\ c.state = DOWNLOAD /\ m.index = c.index /\ m.n = c.count /\ m.from = 0
       /\ m.last => m.data = c.data /\ c.offset = c.count
       /\ ~m.last => c.offset = 0
  /\ m.cs = 0 =>
       /\ c.state = DOWNLOAD /\ m.data = c.data /\ m.from \in Nat /\ m.n \in Nat \ {0}
       /\ m.from + m.n = c.offset
       /\ m.last <=> c.offset = c.count
       /\ \A v \in S : Receives(v, c, m.from)
  /\ m.cs = 2 => c.state = UPLOAD /\ m.index = c.index /\ c.offset = 0
  /\ m.cs = 3 => Fetches(c, s) /\ \A v \in S : Sends(v, s.value, c.offset)

\* Response m is what client line c waits for.
ResponseFits(m, c, S, s) ==
  /\ m.cs \in {1, 3} =>
       /\ c.state = DOWNLOAD
       /\ c.offset = c.count => DoneFor(c, s, c.data)
       /\ c.offset # c.count => \A v \in S : Receives(v, c, c.offset)
  /\ m.cs = 2 =>
       /\ c.state = UPLOAD /\ s.value \in Stored /\ DoneFor(c, s, s.value)
       /\ c.offset = 0 /\ m.n = Size[s.value]
       /\ m.last => m.data = s.value /\ m.from = 0
       /\ ~m.last => \A v \in S : Sends(v, s.value, 0)
  /\ m.cs = 0 =>
       /\ Fetches(c, s) /\ m.data = s.value /\ m.from = c.offset /\ m.n \in Nat \ {0}
       /\ m.from + m.n <= c.count
       /\ m.last <=> m.from + m.n = c.count
       /\ ~m.last => \A v \in S : Sends(v, s.value, m.from + m.n)

\* Frames that close the server's line: an abort, and the end of a block upload.
Closing == {Abort, Block(5, END)}

Cleared(q) == q = <<>> \/ \E x \in Closing : q = <<x>>

\* The client has asked m; what closes the transfer before may be ahead of it.
Asking(m, C, S, q, p, s, runs) ==
  /\ m.cs \in 0 .. 3 /\ p = <<>>
  /\ q = <<m>> \/ (m.cs \in {1, 2} /\ \E x \in Closing : q = <<x, m>>)
  /\ runs => C # {}
  /\ \A c \in C : Waits(c) /\ RequestFits(m, c, S, s)

\* The server has answered m.
Answering(m, C, S, q, p, s) ==
  q = <<>> /\ p = <<m>> /\ \A c \in C : Waits(c) => ResponseFits(m, c, S, s)

\* Client lines C, server lines S, frames q and p between them, for request r,
\* of which the server has done s, with n callbacks; the client runs, or not.
Dialogue(C, S, q, p, r, s, n, runs) ==
  /\ \A c \in C : InTune(c, r, s, n)
  /\ \/ Cleared(q) /\ p = <<>>
     \/ \E m : Asking(m, C, S, q, p, s, runs)
     \/ \E m : Answering(m, C, S, q, p, s)

\* The connections of K do so.
Dialogues(K) ==
  \A k \in K :
    Dialogue(ClientViews(k), ServerViews(k), req[k], resp[k], Asked(k), served[k], calls[k],
             client[k] \in running)

Wires ==
  /\ DOMAIN req = Conns /\ DOMAIN resp = Conns /\ DOMAIN requests = Conns
  /\ DOMAIN served = Conns /\ DOMAIN calls = Conns
  /\ \A k \in Conns : IsSequence(requests[k])

\* What an object holds may be torn, but it is of some size.
ObjectsHold ==
  /\ DOMAIN od = Nodes /\ \A n \in Nodes : DOMAIN od[n] = Indexes
  /\ \A n \in Nodes, index \in Indexes : od[n][index] \in Stored

ServedInvariant(K) == Wires /\ Dialogues(K) /\ ObjectsHold

\* What the invariant needs to know of the states of a line.
LEMMA StatesDiffer ==
  /\ DOWNLOAD # UPLOAD
  /\ {DOWNLOAD, UPLOAD} \subseteq InProgress
  /\ \A state \in {RESET, FINISHED, ABORTED_RCV, ABORTED_INTERNAL} :
       state # DOWNLOAD /\ state # UPLOAD /\ state \notin InProgress
  /\ \A state \in {FINISHED, ABORTED_RCV} : state # RESET /\ state # ABORTED_INTERNAL
  /\ FINISHED # ABORTED_RCV /\ RESET # ABORTED_INTERNAL /\ FINISHED # RESET
  /\ CLIENT # SERVER
BY DEF RESET, FINISHED, DOWNLOAD, UPLOAD, BLOCK_DOWNLOAD, BLOCK_UPLOAD, ABORTED_RCV,
       ABORTED_INTERNAL, InProgress, CLIENT, SERVER

-----------------------------------------------------------------------------
(***************************************************************************)
(* Dialogues that lose a line or a frame.                                  *)
(***************************************************************************)
\* Lines that go away are not missed, unless the client that asks still runs.
LEMMA DialogueFewer ==
  ASSUME NEW C, NEW S, NEW q, NEW p, NEW r, NEW s, NEW n, NEW runs,
         Dialogue(C, S, q, p, r, s, n, runs),
         NEW C2, NEW S2, NEW runs2, C2 \subseteq C, S2 \subseteq S,
         runs2 => (runs /\ (C2 = C \/ \A c \in C : ~Waits(c))) \/ q = <<>>
  PROVE  Dialogue(C2, S2, q, p, r, s, n, runs2)
<1>1. ASSUME NEW m, Asking(m, C, S, q, p, s, runs)
      PROVE  Asking(m, C2, S2, q, p, s, runs2)
  <2>1. ASSUME NEW c \in C2 PROVE Waits(c) /\ RequestFits(m, c, S2, s)
    <3>1. Waits(c) /\ RequestFits(m, c, S, s)
      BY <1>1 DEF Asking
    <3> QED BY <3>1 DEF RequestFits
  <2>2. q # <<>>
    BY <1>1 DEF Asking
  <2>3. runs2 => C2 # {}
    BY <1>1, <2>2 DEF Asking
  <2> QED BY <1>1, <2>1, <2>3 DEF Asking
<1>2. ASSUME NEW m, Answering(m, C, S, q, p, s)
      PROVE  Answering(m, C2, S2, q, p, s)
  <2>1. ASSUME NEW c \in C2, Waits(c) PROVE ResponseFits(m, c, S2, s)
    <3>1. ResponseFits(m, c, S, s)
      BY <1>2, <2>1 DEF Answering
    <3> QED BY <3>1 DEF ResponseFits
  <2> QED BY <1>2, <2>1 DEF Answering
<1> QED BY <1>1, <1>2 DEF Dialogue

\* A request that is lost is not served, an abort leaves the request behind it.
LEMMA DialogueLosesRequest ==
  ASSUME NEW C, NEW S, NEW q, NEW p, NEW r, NEW s, NEW n, NEW runs,
         Dialogue(C, S, q, p, r, s, n, runs), q # <<>>, NEW S2
  PROVE  p = <<>> /\ Dialogue(C, S2, Tail(q), p, r, s, n, runs)
<1>1. CASE Cleared(q) /\ p = <<>>
  <2>1. PICK x : q = <<x>>
    BY <1>1 DEF Cleared
  <2>2. Tail(q) = <<>>
    BY <2>1
  <2> QED BY <1>1, <2>2 DEF Dialogue, Cleared
<1>2. CASE \E m : Asking(m, C, S, q, p, s, runs)
  <2>1. PICK m : Asking(m, C, S, q, p, s, runs)
    BY <1>2
  <2>2. CASE q = <<m>>
    <3>1. Tail(q) = <<>>
      BY <2>2
    <3> QED BY <2>1, <3>1 DEF Dialogue, Asking, Cleared
  <2>3. CASE m.cs \in {1, 2} /\ \E x \in Closing : q = <<x, m>>
    <3>1. Tail(q) = <<m>>
      <4>1. PICK x \in Closing : q = <<x, m>>
        BY <2>3
      <4> QED BY <4>1
    <3>2. \A c \in C : Waits(c) /\ RequestFits(m, c, S2, s)
      BY <2>1, <2>3 DEF Asking, RequestFits
    <3>3. Asking(m, C, S2, Tail(q), p, s, runs)
      BY <2>1, <3>1, <3>2 DEF Asking
    <3> QED BY <2>1, <3>3 DEF Dialogue, Asking
  <2> QED BY <2>1, <2>2, <2>3 DEF Asking
<1>3. CASE \E m : Answering(m, C, S, q, p, s)
  BY <1>3 DEF Answering
<1> QED BY <1>1, <1>2, <1>3 DEF Dialogue

\* An answer may get lost.
LEMMA DialogueLosesAnswer ==
  ASSUME NEW C, NEW S, NEW q, NEW p, NEW r, NEW s, NEW n, NEW runs,
         Dialogue(C, S, q, p, r, s, n, runs), p # <<>>
  PROVE  Dialogue(C, S, q, Tail(p), r, s, n, runs)
<1>1. PICK m : Answering(m, C, S, q, p, s)
  BY DEF Dialogue, Asking
<1>2. q = <<>> /\ Tail(p) = <<>>
  BY <1>1 DEF Answering
<1> QED BY <1>2 DEF Dialogue, Cleared

\* An answer that is there is the only frame.
LEMMA DialogueAnswer ==
  ASSUME NEW C, NEW S, NEW q, NEW p, NEW r, NEW s, NEW n, NEW runs,
         Dialogue(C, S, q, p, r, s, n, runs), p # <<>>
  PROVE  /\ q = <<>> /\ Tail(p) = <<>>
         /\ \A c \in C : InTune(c, r, s, n)
         /\ \A c \in C : Waits(c) => ResponseFits(Head(p), c, S, s)
<1>1. PICK m : Answering(m, C, S, q, p, s)
  BY DEF Dialogue, Asking
<1>2. Head(p) = m /\ Tail(p) = <<>>
  BY <1>1 DEF Answering
<1>3. \A c \in C : InTune(c, r, s, n)
  BY DEF Dialogue
<1> QED BY <1>1, <1>2, <1>3 DEF Answering, Dialogue

\* A request is the only frame when the server gets it.
LEMMA DialogueRequest ==
  ASSUME NEW C, NEW S, NEW q, NEW p, NEW r, NEW s, NEW n, NEW runs,
         Dialogue(C, S, q, p, r, s, n, runs), q # <<>>, Head(q).cs \notin {4, 5}
  PROVE  /\ Tail(q) = <<>> /\ p = <<>>
         /\ Head(q).cs \in 0 .. 3
         /\ \A c \in C : InTune(c, r, s, n) /\ Waits(c) /\ RequestFits(Head(q), c, S, s)
<1>1. \A x \in Closing : x.cs \in {4, 5}
  BY DEF Closing, Abort, Block, Frame
<1>2. PICK m : Asking(m, C, S, q, p, s, runs)
  <2>1. \A x \in Closing : q # <<x>>
    BY <1>1
  <2> QED BY <2>1 DEF Dialogue, Answering, Cleared
<1>3. q = <<m>>
  <2>1. \A x \in Closing : \A m2 : q # <<x, m2>>
    BY <1>1
  <2> QED BY <1>2, <2>1 DEF Asking
<1>4. Head(q) = m /\ Tail(q) = <<>>
  BY <1>3
<1> QED BY <1>2, <1>4 DEF Asking, Dialogue

\* Nobody has spoken, but for an abort.
LEMMA DialogueSilent ==
  ASSUME NEW C, NEW S, NEW q, q \in {<<>>, <<Abort>>}, NEW r, NEW s, NEW n, NEW runs,
         \A c \in C : InTune(c, r, s, n)
  PROVE  Dialogue(C, S, q, <<>>, r, s, n, runs)
BY DEF Dialogue, Cleared, Closing

\* The server answers.
LEMMA DialogueAnswered ==
  ASSUME NEW C, NEW S, NEW m, NEW r, NEW s, NEW s2, NEW n, NEW runs,
         \A c \in C : InTune(c, r, s, n) /\ Waits(c) /\ ResponseFits(m, c, S, s2)
  PROVE  Dialogue(C, S, <<>>, <<m>>, r, s2, n, runs)
<1>1. \A c \in C : InTune(c, r, s2, n)
  BY StatesDiffer DEF InTune, Waits
<1> QED BY <1>1 DEF Dialogue, Answering

\* The client asks.
LEMMA DialogueAsked ==
  ASSUME NEW c, NEW S, NEW m, NEW r, NEW s, NEW n, NEW runs, m.cs \in 0 .. 3,
         InTune(c, r, s, n), Waits(c), RequestFits(m, c, S, s)
  PROVE  Dialogue({c}, S, <<m>>, <<>>, r, s, n, runs)
BY DEF Dialogue, Asking

-----------------------------------------------------------------------------
(***************************************************************************)
(* What a line keeps of a transfer when the line changes.                  *)
(***************************************************************************)
\* A line whose transfer ends well.
LEMMA EndIsSeen ==
  ASSUME NEW l, DOMAIN l = Fields
  PROVE  LET d == Finished(l)
         IN  /\ DOMAIN d = Fields /\ d.CliServNbr = l.CliServNbr /\ d.whoami = l.whoami
             /\ d.state = FINISHED /\ d.index = l.index /\ d.count = l.count
             /\ d.data = l.data /\ d.offset = l.offset
BY DEF Finished, StopTimer, Fields

\* All that is in view.
LEMMA ViewIsSeen ==
  ASSUME NEW l
  PROVE  /\ View(l).state = l.state /\ View(l).index = l.index /\ View(l).count = l.count
         /\ View(l).offset = l.offset /\ View(l).data = l.data
         /\ Assembled(View(l)) = Assembled(l)
         /\ getSDOlineRestBytes(View(l)) = getSDOlineRestBytes(l)
         /\ \A toggle : Segment(View(l), toggle) = Segment(l, toggle)
<1>1. /\ View(l).state = l.state /\ View(l).index = l.index /\ View(l).count = l.count
      /\ View(l).offset = l.offset /\ View(l).data = l.data
  BY DEF View
<1>2. Assembled(View(l)) = Assembled(l)
  BY <1>1 DEF Assembled
<1>3. getSDOlineRestBytes(View(l)) = getSDOlineRestBytes(l)
  BY <1>1 DEF getSDOlineRestBytes
<1>4. ASSUME NEW toggle PROVE Segment(View(l), toggle) = Segment(l, toggle)
  BY <1>1, <1>3 DEF Segment
<1> QED BY <1>1, <1>2, <1>3, <1>4

-----------------------------------------------------------------------------
(***************************************************************************)
(* The lines on use when a line changes.                                   *)
(***************************************************************************)
OthersStay(t, u, k, w) ==
  \A h \in Conns, v \in {SERVER, CLIENT} :
    (h = k /\ v = w) \/ Views(u, h, v) = Views(t, h, v)

\* Line l is k's in role w, or nobody's.
Belongs(l, k, w) == l.state = RESET \/ (l.CliServNbr = k /\ l.whoami = w)

InUse(l) == l.state # RESET /\ l.state # ABORTED_INTERNAL

\* The lines change from t to u, and line m is what k then has in role w.
Becomes(t, u, k, w, m) ==
  /\ OthersStay(t, u, k, w)
  /\ InUse(m) => Views(u, k, w) = {View(m)}
  /\ ~InUse(m) => Views(u, k, w) = {}

\* A line of k's changes, which has no other on use in role w.
LEMMA OneViewChanges ==
  ASSUME NEW t, DOMAIN t = Lines, NEW k, NEW w, NEW i \in Lines, NEW m,
         \A j \in Lines \ {i} : ~OnUse(t, k, w, j),
         Belongs(t[i], k, w), Belongs(m, k, w)
  PROVE  Becomes(t, [t EXCEPT ![i] = m], k, w, m)
<1> DEFINE u == [t EXCEPT ![i] = m]
<1>1. \A j \in Lines : u[j] = IF j = i THEN m ELSE t[j]
  OBVIOUS
<1> HIDE DEF u
<1>2. ASSUME NEW h, NEW v, NEW j \in Lines, j # i
      PROVE  u[j] = t[j] /\ (OnUse(u, h, v, j) <=> OnUse(t, h, v, j))
  BY <1>1, <1>2 DEF OnUse, LineToClose
<1>3. ASSUME NEW h, NEW v, ~(h = k /\ v = w)
      PROVE  ~OnUse(t, h, v, i) /\ ~OnUse(u, h, v, i)
  BY <1>1, <1>3 DEF OnUse, LineToClose, Belongs
<1>4. ASSUME NEW h, NEW v, ~(h = k /\ v = w)
      PROVE  Views(u, h, v) = Views(t, h, v)
  BY <1>2, <1>3, <1>4 DEF Views
<1>5. \A j \in Lines : OnUse(u, k, w, j) => j = i
  BY <1>2
<1>6. OnUse(u, k, w, i) <=> InUse(m)
  BY <1>1 DEF OnUse, LineToClose, Belongs, InUse
<1>7. u[i] = m
  BY <1>1
<1>8. ASSUME InUse(m) PROVE Views(u, k, w) = {View(m)}
  BY <1>5, <1>6, <1>7, <1>8 DEF Views
<1>9. ASSUME ~InUse(m) PROVE Views(u, k, w) = {}
  BY <1>5, <1>6, <1>9 DEF Views
<1> QED BY <1>4, <1>8, <1>9 DEF OthersStay, Becomes, u

LEMMA NoView ==
  ASSUME NEW t, NEW k, NEW w, \A j \in Lines : ~OnUse(t, k, w, j)
  PROVE  Views(t, k, w) = {}
BY DEF Views

LEMMA SameViews ==
  ASSUME NEW t, NEW k, NEW w
  PROVE  OthersStay(t, t, k, w)
BY DEF OthersStay

\* The line on use is the only view.
LEMMA TheView ==
  ASSUME NEW t, LinesOK(t), NEW k \in Conns, NEW w \in {SERVER, CLIENT},
         getSDOlineOnUse(t, k, w) # NoLine
  PROVE  LET i == getSDOlineOnUse(t, k, w)
         IN  /\ i \in Lines /\ DOMAIN t = Lines /\ DOMAIN t[i] = Fields
             /\ t[i].CliServNbr = k /\ t[i].whoami = w /\ InUse(t[i])
             /\ \A j \in Lines \ {i} : ~OnUse(t, k, w, j)
             /\ Views(t, k, w) = {View(t[i])}
<1> DEFINE i == getSDOlineOnUse(t, k, w)
<1>1. i \in Lines /\ OnUse(t, k, w, i)
  BY LineOnUseIsOnUse
<1> HIDE DEF i
<1>2. \A j \in Lines \ {i} : ~OnUse(t, k, w, j)
  BY <1>1 DEF LinesOK, OnUse
<1>3. DOMAIN t = Lines /\ DOMAIN t[i] = Fields
  BY <1>1 DEF LinesOK
<1>4. t[i].CliServNbr = k /\ t[i].whoami = w /\ InUse(t[i])
  BY <1>1 DEF OnUse, LineToClose, InUse
<1>5. Views(t, k, w) = {View(t[i])}
  BY <1>1, <1>2 DEF Views
<1> QED BY <1>1, <1>2, <1>3, <1>4, <1>5 DEF i

\* The line on use changes, or goes away.
LEMMA TheViewChanges ==
  ASSUME NEW t, LinesOK(t), NEW k \in Conns, NEW w \in {SERVER, CLIENT},
         getSDOlineOnUse(t, k, w) # NoLine, NEW m, Belongs(m, k, w)
  PROVE  Becomes(t, [t EXCEPT ![getSDOlineOnUse(t, k, w)] = m], k, w, m)
<1> DEFINE i == getSDOlineOnUse(t, k, w)
<1>1. /\ i \in Lines /\ DOMAIN t = Lines /\ t[i].CliServNbr = k /\ t[i].whoami = w
      /\ \A j \in Lines \ {i} : ~OnUse(t, k, w, j)
  BY TheView
<1> HIDE DEF i
<1>2. Belongs(t[i], k, w)
  BY <1>1 DEF Belongs
<1>3. Becomes(t, [t EXCEPT ![i] = m], k, w, m)
  BY <1>1, <1>2, OneViewChanges
<1> QED BY <1>3 DEF i

\* A reset line is nobody's.
LEMMA ResetIsNotInUse ==
  ASSUME NEW k, NEW w
  PROVE  Belongs(ResetLine, k, w) /\ ~InUse(ResetLine)
BY DEF Belongs, InUse, ResetLine

LEMMA ResetViews ==
  ASSUME NEW t, LinesOK(t), NEW k \in Conns, NEW w \in {SERVER, CLIENT},
         getSDOlineOnUse(t, k, w) # NoLine
  PROVE  LET u == resetSDOline(t, getSDOlineOnUse(t, k, w))
         IN  OthersStay(t, u, k, w) /\ Views(u, k, w) = {}
<1>1. Belongs(ResetLine, k, w) /\ ~InUse(ResetLine)
  BY ResetIsNotInUse
<1>2. Becomes(t, [t EXCEPT ![getSDOlineOnUse(t, k, w)] = ResetLine], k, w, ResetLine)
  BY <1>1, TheViewChanges
<1> QED BY <1>1, <1>2 DEF resetSDOline, Becomes

\* failedSDO leaves k no line on use in role w.
LEMMA FailedViews ==
  ASSUME NEW t, LinesOK(t), NEW k \in Conns, NEW w \in {SERVER, CLIENT}
  PROVE  OthersStay(t, Failed(t, k, w), k, w) /\ Views(Failed(t, k, w), k, w) = {}
<1> DEFINE i == getSDOlineOnUse(t, k, w)
<1>1. CASE i = NoLine
  BY <1>1, LineOnUseIsOnUse, NoView, SameViews DEF Failed
<1>2. CASE i # NoLine
  <2>1. DOMAIN t[i] = Fields /\ t[i].CliServNbr = k /\ t[i].whoami = w
    BY <1>2, TheView
  <2>2. CASE w = SERVER
    <3>1. Failed(t, k, w) = resetSDOline(t, i)
      BY <1>2, <2>2 DEF Failed
    <3> QED BY <1>2, <3>1, ResetViews
  <2>3. CASE w # SERVER
    <3> DEFINE m == StopTimer([t[i] EXCEPT !.state = ABORTED_INTERNAL])
    <3>1. m.state = ABORTED_INTERNAL /\ m.CliServNbr = k /\ m.whoami = w
      <4> HIDE DEF i
      <4> QED BY <2>1 DEF StopTimer, Fields
    <3>2. Failed(t, k, w) = [t EXCEPT ![i] = m]
      BY <1>2, <2>3 DEF Failed
    <3> HIDE DEF m
    <3>3. Belongs(m, k, w) /\ ~InUse(m)
      BY <3>1 DEF Belongs, InUse
    <3>4. Becomes(t, [t EXCEPT ![i] = m], k, w, m)
      BY <1>2, <3>3, TheViewChanges
    <3> QED BY <3>2, <3>3, <3>4 DEF Becomes
  <2> QED BY <2>2, <2>3
<1> QED BY <1>1, <1>2

\* A free line is opened for k, which has none on use in role w.
LEMMA OpenedViews ==
  ASSUME NEW t, LinesOK(t), NEW k \in Conns, NEW w \in {SERVER, CLIENT},
         getSDOlineOnUse(t, k, w) = NoLine, getSDOfreeLine(t) # NoLine,
         NEW m, Belongs(m, k, w)
  PROVE  Becomes(t, [t EXCEPT ![getSDOfreeLine(t)] = m], k, w, m)
<1> DEFINE i == getSDOfreeLine(t)
<1>1. i \in Lines /\ t[i].state = RESET
  BY FreeLineIsFree
<1>2. DOMAIN t = Lines
  BY DEF LinesOK
<1>3. \A j \in Lines : ~OnUse(t, k, w, j)
  BY LineOnUseIsOnUse
<1> HIDE DEF i
<1>4. Belongs(t[i], k, w)
  BY <1>1 DEF Belongs
<1>5. Becomes(t, [t EXCEPT ![i] = m], k, w, m)
  BY <1>1, <1>2, <1>3, <1>4, OneViewChanges
<1> QED BY <1>5 DEF i

-----------------------------------------------------------------------------
(***************************************************************************)
(* A step of connection k leaves the dialogues of the others.              *)
(***************************************************************************)
LEMMA ViewsOfNode ==
  ASSUME DOMAIN transfers = Nodes, NEW k \in Conns, NEW w \in {SERVER, CLIENT},
         NEW n \in Nodes, n = (IF w = SERVER THEN server[k] ELSE client[k]),
         NEW u, transfers' = [transfers EXCEPT ![n] = u], OthersStay(transfers[n], u, k, w)
  PROVE  /\ \A h \in Conns : h # k \/ w = CLIENT => ServerViews(h)' = ServerViews(h)
         /\ \A h \in Conns : h # k \/ w = SERVER => ClientViews(h)' = ClientViews(h)
         /\ w = SERVER => ServerViews(k)' = Views(u, k, SERVER)
         /\ w = CLIENT => ClientViews(k)' = Views(u, k, CLIENT)
<1>1. \A m \in Nodes : transfers'[m] = IF m = n THEN u ELSE transfers[m]
  OBVIOUS
<1>2. \A h \in Conns : server[h] \in Nodes /\ client[h] \in Nodes
  BY SDOAssumption
<1>3. SERVER # CLIENT
  BY StatesDiffer
<1>4. ASSUME NEW h \in Conns, h # k \/ w = CLIENT PROVE ServerViews(h)' = ServerViews(h)
  <2>1. CASE server[h] = n
    BY <1>1, <1>2, <1>3, <1>4, <2>1 DEF ServerViews, OthersStay
  <2>2. CASE server[h] # n
    BY <1>1, <1>2, <2>2 DEF ServerViews
  <2> QED BY <2>1, <2>2
<1>5. ASSUME NEW h \in Conns, h # k \/ w = SERVER PROVE ClientViews(h)' = ClientViews(h)
  <2>1. CASE client[h] = n
    BY <1>1, <1>2, <1>3, <1>5, <2>1 DEF ClientViews, OthersStay
  <2>2. CASE client[h] # n
    BY <1>1, <1>2, <2>2 DEF ClientViews
  <2> QED BY <2>1, <2>2
<1> QED BY <1>1, <1>2, <1>3, <1>4, <1>5 DEF ServerViews, ClientViews

\* It is enough to follow the dialogue of k.
LEMMA DialoguesStay ==
  ASSUME NEW K \in SUBSET Conns, Dialogues(K), NEW k \in Conns, k \in K, running' = running,
         \A h \in K \ {k} :
           /\ ServerViews(h)' = ServerViews(h) /\ ClientViews(h)' = ClientViews(h)
           /\ req'[h] = req[h] /\ resp'[h] = resp[h] /\ requests'[h] = requests[h]
           /\ served'[h] = served[h] /\ calls'[h] = calls[h],
         Dialogue(ClientViews(k)', ServerViews(k)', req'[k], resp'[k], Asked(k)', served'[k],
                  calls'[k], client[k] \in running)
  PROVE  Dialogues(K)'
<1>1. ASSUME NEW h \in K, h # k
      PROVE  Dialogue(ClientViews(h)', ServerViews(h)', req'[h], resp'[h], Asked(h)', served'[h],
                      calls'[h], client[h] \in running)
  <2>1. Asked(h)' = Asked(h)
    BY <1>1 DEF Asked
  <2>2. Dialogue(ClientViews(h), ServerViews(h), req[h], resp[h], Asked(h), served[h],
                 calls[h], client[h] \in running)
    BY DEF Dialogues
  <2> QED BY <1>1, <2>1, <2>2
<1> QED BY <1>1 DEF Dialogues

\* Of functions f and g of connections, g differs from f in nothing but g[k] = v.
DiffersAt(f, g, k, v) == DOMAIN g = Conns /\ g[k] = v /\ \A h \in Conns \ {k} : g[h] = f[h]

LEMMA WhatDiffers ==
  ASSUME NEW f, DOMAIN f = Conns, NEW k \in Conns
  PROVE  DiffersAt(f, f, k, f[k]) /\ \A v : DiffersAt(f, [f EXCEPT ![k] = v], k, v)
BY DEF DiffersAt

\* What a server does with a frame.
LEMMA ServerTurn ==
  ASSUME NEW K \in SUBSET Conns, LineInvariant, Wires, Dialogues(K), NEW k \in Conns,
         k \in K, NEW u, NEW frames, ServerDoes(k, u, frames),
         OthersStay(transfers[server[k]], u, k, SERVER), NEW s,
         DiffersAt(served, served', k, s),
         Dialogue(ClientViews(k), Views(u, k, SERVER), Tail(req[k]), resp[k] \o frames,
                  Asked(k), s, calls[k], client[k] \in running)
  PROVE  Wires' /\ Dialogues(K)'
<1>1. DOMAIN transfers = Nodes /\ server[k] \in Nodes
  BY SDOAssumption DEF LineInvariant
<1>2. /\ transfers' = [transfers EXCEPT ![server[k]] = u] /\ req' = [req EXCEPT ![k] = Tail(@)]
      /\ resp' = [resp EXCEPT ![k] = @ \o frames]
      /\ requests' = requests /\ calls' = calls /\ running' = running
  BY DEF ServerDoes, userVars, faultVars
<1>3. /\ \A h \in Conns : h # k => ServerViews(h)' = ServerViews(h)
      /\ \A h \in Conns : ClientViews(h)' = ClientViews(h)
      /\ ServerViews(k)' = Views(u, k, SERVER)
  BY <1>1, <1>2, ViewsOfNode
<1>4. Wires'
  BY <1>2 DEF Wires, DiffersAt
<1>5. /\ req'[k] = Tail(req[k]) /\ resp'[k] = resp[k] \o frames /\ served'[k] = s
      /\ \A h \in Conns \ {k} :
           req'[h] = req[h] /\ resp'[h] = resp[h] /\ served'[h] = served[h]
  BY <1>2 DEF Wires, DiffersAt
<1>6. Asked(k)' = Asked(k)
  BY <1>2 DEF Asked
<1>7. Dialogues(K)'
  BY <1>2, <1>3, <1>5, <1>6, DialoguesStay
<1> QED BY <1>4, <1>7

\* What a client does with a frame.
LEMMA ClientTurn ==
  ASSUME NEW K \in SUBSET Conns, LineInvariant, Wires, Dialogues(K), NEW k \in Conns,
         k \in K, NEW u, NEW frames, ClientDoes(k, u, frames),
         OthersStay(transfers[client[k]], u, k, CLIENT), NEW n,
         DiffersAt(calls, calls', k, n),
         Dialogue(Views(u, k, CLIENT), ServerViews(k), req[k] \o frames, Tail(resp[k]),
                  Asked(k), served[k], n, client[k] \in running)
  PROVE  Wires' /\ Dialogues(K)'
<1>1. DOMAIN transfers = Nodes /\ client[k] \in Nodes
  BY SDOAssumption DEF LineInvariant
<1>2. /\ transfers' = [transfers EXCEPT ![client[k]] = u] /\ resp' = [resp EXCEPT ![k] = Tail(@)]
      /\ req' = [req EXCEPT ![k] = @ \o frames]
      /\ requests' = requests /\ served' = served /\ running' = running
  BY DEF ClientDoes, userVars, faultVars
<1>3. /\ \A h \in Conns : h # k => ClientViews(h)' = ClientViews(h)
      /\ \A h \in Conns : ServerViews(h)' = ServerViews(h)
      /\ ClientViews(k)' = Views(u, k, CLIENT)
  <2>1. CLIENT # SERVER
    BY StatesDiffer
  <2> QED BY <1>1, <1>2, <2>1, ViewsOfNode
<1>4. Wires'
  BY <1>2 DEF Wires, DiffersAt
<1>5. /\ resp'[k] = Tail(resp[k]) /\ req'[k] = req[k] \o frames /\ calls'[k] = n
      /\ \A h \in Conns \ {k} :
           req'[h] = req[h] /\ resp'[h] = resp[h] /\ calls'[h] = calls[h]
  BY <1>2 DEF Wires, DiffersAt
<1>6. Asked(k)' = Asked(k)
  BY <1>2 DEF Asked
<1>7. Dialogues(K)'
  BY <1>2, <1>3, <1>5, <1>6, DialoguesStay
<1> QED BY <1>4, <1>7

-----------------------------------------------------------------------------
(***************************************************************************)
(* The server's half of proceedSDO, when frames come in time and nothing   *)
(* is refused.                                                             *)
(***************************************************************************)
\* The request a server gets is what the client waits for.
LEMMA ServerHears ==
  ASSUME NEW K \in SUBSET Conns, LineInvariant, Dialogues(K), NEW k \in Conns, k \in K,
         NEW cs \in 0 .. 3, ServerGets(k, cs)
  PROVE  /\ LinesOK(transfers[server[k]])
         /\ req[k] # <<>> /\ Head(req[k]).cs = cs /\ Tail(req[k]) = <<>> /\ resp[k] = <<>>
         /\ \A c \in ClientViews(k) :
              /\ InTune(c, Asked(k), served[k], calls[k]) /\ Waits(c)
              /\ RequestFits(Head(req[k]), c, ServerViews(k), served[k])
<1>1. LinesOK(transfers[server[k]])
  BY SDOAssumption DEF LineInvariant
<1>2. req[k] # <<>> /\ Head(req[k]).cs = cs /\ cs # 4
  BY DEF ServerGets
<1>3. Dialogue(ClientViews(k), ServerViews(k), req[k], resp[k], Asked(k), served[k], calls[k],
               client[k] \in running)
  BY DEF Dialogues
<1>4. /\ Tail(req[k]) = <<>> /\ resp[k] = <<>>
      /\ \A c \in ClientViews(k) :
              /\ InTune(c, Asked(k), served[k], calls[k]) /\ Waits(c)
              /\ RequestFits(Head(req[k]), c, ServerViews(k), served[k])
  BY <1>2, <1>3, DialogueRequest
<1> QED BY <1>1, <1>2, <1>4

\* An answer that fits what the client waits for.
LEMMA ServerAnswers ==
  ASSUME NEW K \in SUBSET Conns, LineInvariant, Wires, Dialogues(K), NEW k \in Conns,
         k \in K, NEW cs \in 0 .. 3, ServerGets(k, cs), NEW u, NEW f,
         ServerDoes(k, u, <<f>>), OthersStay(transfers[server[k]], u, k, SERVER), NEW s,
         DiffersAt(served, served', k, s),
         \A c \in ClientViews(k) : ResponseFits(f, c, Views(u, k, SERVER), s)
  PROVE  Wires' /\ Dialogues(K)'
<1>1. /\ Tail(req[k]) = <<>> /\ resp[k] = <<>>
      /\ \A c \in ClientViews(k) : InTune(c, Asked(k), served[k], calls[k]) /\ Waits(c)
  BY ServerHears
<1>2. resp[k] \o <<f>> = <<f>>
  BY <1>1
<1>3. Dialogue(ClientViews(k), Views(u, k, SERVER), <<>>, <<f>>, Asked(k), s, calls[k],
               client[k] \in running)
  BY <1>1, DialogueAnswered
<1>4. Dialogue(ClientViews(k), Views(u, k, SERVER), Tail(req[k]), resp[k] \o <<f>>, Asked(k),
               s, calls[k], client[k] \in running)
  BY <1>1, <1>2, <1>3
<1> QED BY <1>4, ServerTurn

\* failedSDO of a server sends an abort, which fits whatever the client waits for.
LEMMA ServerFailsServes ==
  ASSUME NEW K \in SUBSET Conns, LineInvariant, ServedInvariant(K), NEW k \in Conns,
         k \in K, NEW cs \in 0 .. 3, ServerGets(k, cs), ServerFails(k, <<>>)
  PROVE  ServedInvariant(K)'
<1> DEFINE t == transfers[server[k]]
<1>1. LinesOK(t) /\ Wires /\ Dialogues(K)
  BY ServerHears DEF ServedInvariant
<1>2. <<>> \o <<Abort>> = <<Abort>>
  OBVIOUS
<1>3. ServerDoes(k, Failed(t, k, SERVER), <<Abort>>) /\ served' = served /\ od' = od
  BY <1>2 DEF ServerFails
<1>4. OthersStay(t, Failed(t, k, SERVER), k, SERVER)
  BY <1>1, FailedViews
<1>5. DiffersAt(served, served', k, served[k])
  BY <1>1, <1>3, WhatDiffers DEF Wires
<1>6. \A c, S : ResponseFits(Abort, c, S, served[k])
  BY DEF ResponseFits, Abort, Frame
<1>7. Wires' /\ Dialogues(K)'
  BY <1>1, <1>3, <1>4, <1>5, <1>6, ServerAnswers
<1> QED BY <1>3, <1>7 DEF ServedInvariant, ObjectsHold

\* setODentry stores what the buffer makes, which is a value or torn.
LEMMA StoresHold ==
  ASSUME ObjectsHold, NEW k \in Conns, NEW index, NEW v \in Stored, Stores(k, index, v)
  PROVE  ObjectsHold'
<1>1. od' = [od EXCEPT ![server[k]][index] = v]
  BY DEF Stores
<1>2. \A n \in Nodes, x \in Indexes :
        od'[n][x] = IF n = server[k] /\ x = index THEN v ELSE od[n][x]
  BY <1>1 DEF ObjectsHold
<1>3. DOMAIN od' = Nodes /\ \A n \in Nodes : DOMAIN od'[n] = Indexes
  BY <1>1 DEF ObjectsHold
<1> QED BY <1>2, <1>3 DEF ObjectsHold

LEMMA AssembledIsStored ==
  ASSUME NEW l
  PROVE  Assembled(l) \in Stored
BY DEF Assembled, Stored

\* Nothing is refused.
LEMMA NothingRefused ==
  ASSUME ~MayRefuse
  PROVE  ~(TRUE \in Refusals)
BY DEF Refusals

\* cs 1: the line that is opened, or the value stored, is what the client is about.
LEMMA ServerInitiateDownloadServes ==
  ASSUME NEW K \in SUBSET Conns, LineInvariant, ServedInvariant(K), ~MayRefuse,
         NEW k \in Conns, k \in K, ServerInitiateDownload(k)
  PROVE  ServedInvariant(K)'
<1> DEFINE t == transfers[server[k]]
           m == Head(req[k])
           i == getSDOfreeLine(t)
           response == [Frame(3) EXCEPT !.index = m.index]
<1>1. /\ LinesOK(t) /\ Wires /\ Dialogues(K) /\ ObjectsHold
      /\ ServerGets(k, 1) /\ m.cs = 1
      /\ \A c \in ClientViews(k) :
           /\ InTune(c, Asked(k), served[k], calls[k]) /\ Waits(c)
           /\ RequestFits(m, c, ServerViews(k), served[k])
  BY ServerHears DEF ServedInvariant, ServerInitiateDownload
<1>2. \/ ServerFails(k, <<>>)
      \/ /\ ~NoLineFor(t, k)
         /\ \E w \in Watchdogs :
              \/ /\ m.last /\ ServerDoes(k, t, <<response>>)
                 /\ Stores(k, m.index, Assembled(Filled(k, m, w)))
              \/ /\ ~m.last /\ ServerDoes(k, [t EXCEPT ![i] = Opened(k, m, w)], <<response>>)
                 /\ od' = od /\ served' = served
  BY NothingRefused DEF ServerInitiateDownload, Filled, Opened
<1>3. response.cs = 3
  BY DEF Frame
<1> HIDE DEF m, t, i, response
<1>4. \A c \in ClientViews(k) :
        /\ c.state = DOWNLOAD /\ m.index = c.index /\ m.n = c.count /\ m.from = 0
        /\ c.data \in Values /\ c.count = Size[c.data] /\ c.count \in Nat \ {0}
        /\ m.last => m.data = c.data /\ c.offset = c.count
        /\ ~m.last => c.offset = 0 /\ c.offset # c.count
  BY <1>1, LineAssumption DEF RequestFits, InTune
<1>5. CASE ServerFails(k, <<>>)
  BY <1>1, <1>5, ServerFailsServes
<1>6. ASSUME NEW w \in Watchdogs, m.last, ServerDoes(k, t, <<response>>),
             Stores(k, m.index, Assembled(Filled(k, m, w)))
      PROVE  ServedInvariant(K)'
  <2> DEFINE v == Assembled(Filled(k, m, w))
             s == [op |-> DOWNLOAD, index |-> m.index, value |-> v]
  <2>1. ObjectsHold'
    BY <1>1, <1>6, AssembledIsStored, StoresHold
  <2>2. DiffersAt(served, served', k, s)
    BY <1>1, <1>6, WhatDiffers DEF Stores, Wires
  <2>3. ASSUME NEW c \in ClientViews(k) PROVE v = c.data
    <3>1. /\ Filled(k, m, w).data = m.data
          /\ Filled(k, m, w).count = m.n /\ Filled(k, m, w).offset = m.n
      BY <1>4, FilledHolds
    <3> QED BY <1>4, <1>6, <3>1, WholeIsAssembled
  <2> HIDE DEF v
  <2>4. ASSUME NEW c \in ClientViews(k), NEW S PROVE ResponseFits(response, c, S, s)
    BY <1>3, <1>4, <1>6, <2>3 DEF ResponseFits, DoneFor
  <2> HIDE DEF s
  <2>5. Wires' /\ Dialogues(K)'
    BY <1>1, <1>6, <2>2, <2>4, SameViews, ServerAnswers DEF t
  <2> QED BY <2>1, <2>5 DEF ServedInvariant
<1>7. ASSUME NEW w \in Watchdogs, ~m.last, ~NoLineFor(t, k), od' = od, served' = served,
             ServerDoes(k, [t EXCEPT ![i] = Opened(k, m, w)], <<response>>)
      PROVE  ServedInvariant(K)'
  <2> DEFINE l == Opened(k, m, w)
             u == [t EXCEPT ![i] = l]
  <2>1. /\ l.state = DOWNLOAD /\ l.CliServNbr = k /\ l.whoami = SERVER
        /\ l.index = m.index /\ l.count = m.n /\ l.offset = 0
    BY DEF Opened, InitLine, ResetLine
  <2> HIDE DEF l
  <2>2. Belongs(l, k, SERVER) /\ InUse(l)
    BY <2>1, StatesDiffer DEF Belongs, InUse
  <2>3. getSDOlineOnUse(t, k, SERVER) = NoLine /\ getSDOfreeLine(t) # NoLine
    BY <1>7 DEF NoLineFor
  <2>4. Becomes(t, u, k, SERVER, l)
    BY <1>1, <2>2, <2>3, OpenedViews DEF i
  <2> HIDE DEF u
  <2>5. OthersStay(t, u, k, SERVER) /\ Views(u, k, SERVER) = {View(l)}
    BY <2>2, <2>4 DEF Becomes
  <2>6. ASSUME NEW c \in ClientViews(k)
        PROVE  ResponseFits(response, c, Views(u, k, SERVER), served[k])
    <3>1. Receives(View(l), c, c.offset)
      BY <1>4, <1>7, <2>1, ViewIsSeen DEF Receives
    <3> QED BY <1>3, <1>4, <1>7, <2>5, <3>1 DEF ResponseFits
  <2>7. DiffersAt(served, served', k, served[k])
    BY <1>1, <1>7, WhatDiffers DEF Wires
  <2>8. ServerDoes(k, u, <<response>>)
    BY <1>7 DEF u, l
  <2>9. Wires' /\ Dialogues(K)'
    BY <1>1, <2>5, <2>6, <2>7, <2>8, ServerAnswers DEF t
  <2> QED BY <1>1, <1>7, <2>9 DEF ServedInvariant, ObjectsHold
<1> QED BY <1>2, <1>5, <1>6, <1>7

\* The line on use for k takes the bytes of m, or sends its next n bytes.
Taken(l, m) == [SDOtoLine(RestartTimer(l), m) EXCEPT !.toggle = Inverted(@)]

\* The bytes of a line with the frame that follows it.
LEMMA ReceivedIsSeen ==
  ASSUME NEW l, DOMAIN l = Fields, NEW m
  PROVE  LET d == Taken(l, m)
         IN  /\ DOMAIN d = Fields /\ d.CliServNbr = l.CliServNbr /\ d.whoami = l.whoami
             /\ d.state = l.state /\ d.index = l.index /\ d.count = l.count
             /\ d.data = Joined(l, m) /\ d.offset = l.offset + m.n
<1> DEFINE r == RestartTimer(l)
           e == SDOtoLine(r, m)
<1>1. /\ DOMAIN r = Fields /\ r.CliServNbr = l.CliServNbr /\ r.whoami = l.whoami
      /\ r.state = l.state /\ r.index = l.index /\ r.count = l.count
      /\ r.data = l.data /\ r.offset = l.offset
  BY DEF RestartTimer, Fields
<1> HIDE DEF r
<1>2. /\ DOMAIN e = Fields /\ e.CliServNbr = r.CliServNbr /\ e.whoami = r.whoami
      /\ e.state = r.state /\ e.index = r.index /\ e.count = r.count
      /\ e.data = Joined(r, m) /\ e.offset = r.offset + m.n
  BY <1>1 DEF SDOtoLine, Fields
<1>3. Joined(r, m) = Joined(l, m)
  BY <1>1 DEF Joined
<1> HIDE DEF e
<1>4. Taken(l, m) = [e EXCEPT !.toggle = Inverted(@)]
  BY DEF Taken, e, r
<1> QED BY <1>1, <1>2, <1>3, <1>4 DEF Fields

\* Bytes that follow those of a line make the line that is next.
LEMMA JoinedFollows ==
  ASSUME NEW l, NEW m, NEW v, m.data = v, m.from = l.offset, l.offset = 0 \/ l.data = v
  PROVE  Joined(l, m) = v
BY DEF Joined

\* cs 0: the line has what the client has sent, and all of it in the end.
LEMMA ServerDownloadSegmentServes ==
  ASSUME NEW K \in SUBSET Conns, LineInvariant, ServedInvariant(K), ~MayRefuse,
         NEW k \in Conns, k \in K, ServerDownloadSegment(k)
  PROVE  ServedInvariant(K)'
<1> DEFINE t == transfers[server[k]]
           m == Head(req[k])
           i == getSDOlineOnUse(t, k, SERVER)
           l == Taken(t[i], m)
           response == [Frame(1) EXCEPT !.toggle = m.toggle]
<1>1. /\ LinesOK(t) /\ Wires /\ Dialogues(K) /\ ObjectsHold
      /\ ServerGets(k, 0) /\ m.cs = 0
      /\ \A c \in ClientViews(k) :
           /\ InTune(c, Asked(k), served[k], calls[k]) /\ Waits(c)
           /\ RequestFits(m, c, ServerViews(k), served[k])
  BY ServerHears DEF ServedInvariant, ServerDownloadSegment
<1>2. \/ ServerFails(k, <<>>)
      \/ /\ i # NoLine
         /\ \/ /\ ~m.last /\ ServerDoes(k, [t EXCEPT ![i] = l], <<response>>)
               /\ od' = od /\ served' = served
            \/ /\ m.last /\ ServerDoes(k, resetSDOline(t, i), <<response>>)
               /\ Stores(k, l.index, Assembled(l))
  BY NothingRefused DEF ServerDownloadSegment, SegmentFits, Started, Taken
<1>3. response.cs = 1
  BY DEF Frame
<1>4. CASE ServerFails(k, <<>>)
  BY <1>1, <1>4, ServerFailsServes
<1>5. CASE i # NoLine
  <2>1. /\ i \in Lines /\ DOMAIN t = Lines /\ DOMAIN t[i] = Fields
        /\ t[i].CliServNbr = k /\ t[i].whoami = SERVER /\ InUse(t[i])
        /\ ServerViews(k) = {View(t[i])}
    BY <1>1, <1>5, TheView DEF ServerViews
  <2> DEFINE line == t[i]
  <2>2. /\ DOMAIN l = Fields /\ l.CliServNbr = k /\ l.whoami = SERVER
        /\ l.state = line.state /\ l.index = line.index /\ l.count = line.count
        /\ l.data = Joined(line, m) /\ l.offset = line.offset + m.n
    BY <2>1, ReceivedIsSeen
  <2> HIDE DEF l, line, m, response
  <2>3. ASSUME NEW c \in ClientViews(k)
        PROVE  /\ c.state = DOWNLOAD /\ c.data \in Values /\ c.count = Size[c.data]
               /\ l.state = DOWNLOAD /\ l.index = c.index /\ l.count = c.count
               /\ l.data = c.data /\ l.offset = c.offset
               /\ m.last <=> c.offset = c.count
    <3>1. /\ InTune(c, Asked(k), served[k], calls[k])
          /\ RequestFits(m, c, ServerViews(k), served[k])
      BY <1>1 DEF m
    <3>2. /\ c.state = DOWNLOAD /\ m.data = c.data /\ m.from + m.n = c.offset
          /\ m.last <=> c.offset = c.count
          /\ Receives(View(line), c, m.from)
      BY <1>1, <2>1, <3>1 DEF RequestFits, line, m
    <3>3. /\ line.state = DOWNLOAD /\ line.index = c.index /\ line.count = c.count
          /\ line.offset = m.from /\ (m.from = 0 \/ line.data = c.data)
      BY <3>2, ViewIsSeen DEF Receives
    <3>4. Joined(line, m) = c.data
      BY <3>2, <3>3, JoinedFollows
    <3>5. c.data \in Values /\ c.count = Size[c.data]
      BY <3>1, <3>2 DEF InTune
    <3> QED BY <2>2, <3>2, <3>3, <3>4, <3>5
  <2>4. ASSUME ~m.last, ServerDoes(k, [t EXCEPT ![i] = l], <<response>>), od' = od, served' = served
        PROVE  ServedInvariant(K)'
    <3> DEFINE u == [t EXCEPT ![i] = l]
    <3>1. Belongs(l, k, SERVER) /\ InUse(l)
      BY <2>1, <2>2 DEF Belongs, InUse, line
    <3>2. Becomes(t, u, k, SERVER, l)
      BY <1>1, <1>5, <3>1, TheViewChanges
    <3>3. ServerDoes(k, u, <<response>>)
      BY <2>4
    <3> HIDE DEF u, i
    <3>4. OthersStay(t, u, k, SERVER) /\ Views(u, k, SERVER) = {View(l)}
      BY <3>1, <3>2 DEF Becomes
    <3>5. ASSUME NEW c \in ClientViews(k)
          PROVE  ResponseFits(response, c, Views(u, k, SERVER), served[k])
      <4>1. Receives(View(l), c, c.offset)
        BY <2>3, ViewIsSeen DEF Receives
      <4> QED BY <1>3, <2>3, <2>4, <3>4, <4>1 DEF ResponseFits, response
    <3>6. DiffersAt(served, served', k, served[k])
      BY <1>1, <2>4, WhatDiffers DEF Wires
    <3>7. Wires' /\ Dialogues(K)'
      BY <1>1, <3>3, <3>4, <3>5, <3>6, ServerAnswers
    <3> QED BY <1>1, <2>4, <3>7 DEF ServedInvariant, ObjectsHold
  <2>5. ASSUME m.last, ServerDoes(k, resetSDOline(t, i), <<response>>),
               Stores(k, l.index, Assembled(l))
        PROVE  ServedInvariant(K)'
    <3> DEFINE u == resetSDOline(t, i)
               v == Assembled(l)
               s == [op |-> DOWNLOAD, index |-> l.index, value |-> v]
    <3>1. ObjectsHold'
      BY <1>1, <2>5, AssembledIsStored, StoresHold
    <3>2. OthersStay(t, u, k, SERVER)
      BY <1>1, <1>5, ResetViews
    <3>3. ServerDoes(k, u, <<response>>)
      BY <2>5
    <3>4. DiffersAt(served, served', k, s)
      BY <1>1, <2>5, WhatDiffers DEF Stores, Wires
    <3> HIDE DEF u, i
    <3>5. ASSUME NEW c \in ClientViews(k) PROVE v = c.data
      BY <2>3, <2>5, WholeIsAssembled
    <3> HIDE DEF v
    <3>6. ASSUME NEW c \in ClientViews(k), NEW S PROVE ResponseFits(response, c, S, s)
      BY <1>3, <2>3, <2>5, <3>5 DEF ResponseFits, DoneFor, response
    <3> HIDE DEF s
    <3>7. Wires' /\ Dialogues(K)'
      BY <1>1, <3>2, <3>3, <3>4, <3>6, ServerAnswers
    <3> QED BY <3>1, <3>7 DEF ServedInvariant
  <2> QED BY <1>2, <1>4, <2>4, <2>5 DEF l, m, response
<1> QED BY <1>2, <1>4, <1>5

\* A segment has the next bytes of a line, the last one those up to its end.
LEMMA SegmentCarries ==
  ASSUME NEW l, DOMAIN l = Fields, NEW toggle, l.count \in Nat \ {0},
         l.offset \in 0 .. l.count, l.offset # l.count
  PROVE  LET f == Segment(RestartTimer(l), toggle)
         IN  /\ f.cs = 0 /\ f.data = l.data /\ f.from = l.offset /\ f.n \in Nat \ {0}
             /\ l.offset + f.n \in 0 .. l.count
             /\ f.last <=> l.offset + f.n = l.count
<1> DEFINE r == RestartTimer(l)
           x == l.count
           y == l.offset
           f == Segment(r, toggle)
<1>1. r.count = x /\ r.offset = y /\ r.data = l.data
  BY DEF RestartTimer, Fields
<1> HIDE DEF r, x, y
<1>2. x \in Nat \ {0} /\ y \in 0 .. x /\ y # x
  BY DEF x, y
<1>3. getSDOlineRestBytes(r) = x - y
  BY <1>1, <1>2 DEF getSDOlineRestBytes
<1>4. f.cs = 0 /\ f.data = l.data /\ f.from = y
  BY <1>1 DEF Segment, Frame
<1>5. f.n = (IF x - y > 7 THEN 7 ELSE x - y) /\ (f.last <=> x - y <= 7)
  BY <1>3 DEF Segment, Frame, SEGMENT
<1> HIDE DEF f
<1>6. f.n \in Nat \ {0} /\ y + f.n \in 0 .. x /\ (f.last <=> y + f.n = x)
  BY <1>2, <1>5
<1> QED BY <1>4, <1>6 DEF f, r, x, y

\* A line whose next n bytes are sent.
Sent(l, n, toggle) == [lineToSDO(RestartTimer(l), n) EXCEPT !.toggle = toggle]

LEMMA SentIsSeen ==
  ASSUME NEW l, DOMAIN l = Fields, NEW n, NEW toggle
  PROVE  LET d == Sent(l, n, toggle)
         IN  /\ DOMAIN d = Fields /\ d.CliServNbr = l.CliServNbr /\ d.whoami = l.whoami
             /\ d.state = l.state /\ d.index = l.index /\ d.count = l.count
             /\ d.data = l.data /\ d.offset = l.offset + n
<1> DEFINE r == RestartTimer(l)
<1>1. /\ DOMAIN r = Fields /\ r.CliServNbr = l.CliServNbr /\ r.whoami = l.whoami
      /\ r.state = l.state /\ r.index = l.index /\ r.count = l.count
      /\ r.data = l.data /\ r.offset = l.offset
  BY DEF RestartTimer, Fields
<1> HIDE DEF r
<1>2. Sent(l, n, toggle) = [lineToSDO(r, n) EXCEPT !.toggle = toggle]
  BY DEF Sent, r
<1> QED BY <1>1, <1>2 DEF lineToSDO, Fields

\* cs 2: the answer has the value served, or its line will.
LEMMA ServerInitiateUploadServes ==
  ASSUME NEW K \in SUBSET Conns, LineInvariant, ServedInvariant(K), ~MayRefuse,
         NEW k \in Conns, k \in K, ServerInitiateUpload(k)
  PROVE  ServedInvariant(K)'
<1> DEFINE t == transfers[server[k]]
           m == Head(req[k])
           i == getSDOfreeLine(t)
           v == od[server[k]][m.index]
           expedited == Size[v] <= EXPEDITED
           response == [Frame(2) EXCEPT !.index = m.index, !.last = expedited, !.n = Size[v],
                                        !.data = IF expedited THEN v ELSE Nothing]
           s == [op |-> UPLOAD, index |-> m.index, value |-> v]
           l(w) == [InitLine(SERVER, k, m.index, UPLOAD, w) EXCEPT !.count = Size[v], !.data = v]
<1>0. ServerGets(k, 2)
  BY DEF ServerInitiateUpload
<1>1. /\ LinesOK(t) /\ Wires /\ Dialogues(K) /\ ObjectsHold /\ m.cs = 2
      /\ \A c \in ClientViews(k) :
           /\ InTune(c, Asked(k), served[k], calls[k]) /\ Waits(c)
           /\ RequestFits(m, c, ServerViews(k), served[k])
  BY <1>0, ServerHears DEF ServedInvariant
<1>2. \/ ServerFails(k, <<>>)
      \/ /\ ~NoLineFor(t, k)
         /\ \/ expedited /\ ServerDoes(k, t, <<response>>)
            \/ /\ ~expedited
               /\ \E w \in Watchdogs : ServerDoes(k, [t EXCEPT ![i] = l(w)], <<response>>)
         /\ served' = [served EXCEPT ![k] = s] /\ od' = od
  BY NothingRefused DEF ServerInitiateUpload
<1>3. CASE ServerFails(k, <<>>)
  BY <1>0, <1>3, ServerFailsServes
<1>4. ASSUME ~NoLineFor(t, k), served' = [served EXCEPT ![k] = s], od' = od,
             NEW u, ServerDoes(k, u, <<response>>),
             \/ expedited /\ u = t
             \/ ~expedited /\ \E w \in Watchdogs : u = [t EXCEPT ![i] = l(w)]
      PROVE  ServedInvariant(K)'
  <2>1. /\ response.cs = 2 /\ (response.last <=> expedited) /\ response.n = Size[v]
        /\ response.from = 0 /\ (expedited => response.data = v)
    BY DEF Frame
  <2>2. s.op = UPLOAD /\ s.index = m.index /\ s.value = v
    OBVIOUS
  <2>3. DiffersAt(served, served', k, s)
    BY <1>1, <1>4, WhatDiffers DEF Wires
  <2>4. ASSUME ~expedited
        PROVE  OthersStay(t, u, k, SERVER) /\ \A x \in Views(u, k, SERVER) : Sends(x, v, 0)
    <3>1. PICK w \in Watchdogs : u = [t EXCEPT ![i] = l(w)]
      BY <1>4, <2>4
    <3> DEFINE line == l(w)
    <3>2. /\ line.state = UPLOAD /\ line.CliServNbr = k /\ line.whoami = SERVER
          /\ line.count = Size[v] /\ line.offset = 0 /\ line.data = v
      BY DEF InitLine, ResetLine
    <3>3. u = [t EXCEPT ![i] = line]
      BY <3>1
    <3> HIDE DEF line, v, expedited, l, response, s
    <3>4. Belongs(line, k, SERVER) /\ InUse(line)
      BY <3>2, StatesDiffer DEF Belongs, InUse
    <3>5. getSDOlineOnUse(t, k, SERVER) = NoLine /\ i # NoLine
      BY <1>4 DEF NoLineFor
    <3>6. Becomes(t, [t EXCEPT ![i] = line], k, SERVER, line)
      BY <1>1, <3>4, <3>5, OpenedViews
    <3>7. OthersStay(t, u, k, SERVER) /\ Views(u, k, SERVER) = {View(line)}
      BY <3>3, <3>4, <3>6 DEF Becomes
    <3>8. Sends(View(line), v, 0)
      BY <3>2, ViewIsSeen DEF Sends
    <3> QED BY <3>7, <3>8
  <2>5. OthersStay(t, u, k, SERVER)
    <3>1. CASE expedited
      BY <1>4, <3>1, SameViews
    <3> QED BY <2>4, <3>1
  <2>6. ASSUME NEW c \in ClientViews(k)
        PROVE  c.state = UPLOAD /\ c.index = m.index /\ c.offset = 0 /\ v \in Stored
    <3>1. c.state = UPLOAD /\ c.index = m.index /\ c.offset = 0
      BY <1>1 DEF RequestFits
    <3>2. c.index \in Indexes
      BY <1>1 DEF InTune
    <3>3. v \in Stored
      BY <1>1, <3>1, <3>2, SDOAssumption DEF ObjectsHold
    <3> QED BY <3>1, <3>3
  <2>7. s = [op |-> UPLOAD, index |-> m.index, value |-> v]
    OBVIOUS
  <2> HIDE DEF v, s, expedited, response
  <2>8. ASSUME NEW c \in ClientViews(k) PROVE ResponseFits(response, c, Views(u, k, SERVER), s)
    <3>1. DoneFor(c, s, s.value)
      BY <2>2, <2>6, <2>7 DEF DoneFor
    <3>2. response.last \/ \A x \in Views(u, k, SERVER) : Sends(x, s.value, 0)
      BY <2>1, <2>2, <2>4
    <3> QED BY <2>1, <2>2, <2>6, <3>1, <3>2 DEF ResponseFits
  <2>9. ServerDoes(k, u, <<response>>) /\ Wires /\ Dialogues(K)
    BY <1>1, <1>4
  <2>10. Wires' /\ Dialogues(K)'
    BY <1>0, <2>3, <2>5, <2>8, <2>9, ServerAnswers
  <2> QED BY <1>1, <1>4, <2>10 DEF ServedInvariant, ObjectsHold
<1> QED BY <1>2, <1>3, <1>4

\* cs 3: the answer has the bytes the client has not got yet.
LEMMA ServerUploadSegmentServes ==
  ASSUME NEW K \in SUBSET Conns, LineInvariant, ServedInvariant(K), NEW k \in Conns,
         k \in K, ServerUploadSegment(k)
  PROVE  ServedInvariant(K)'
<1> DEFINE t == transfers[server[k]]
           m == Head(req[k])
           i == getSDOlineOnUse(t, k, SERVER)
           f == Segment(RestartTimer(t[i]), RestartTimer(t[i]).toggle)
           x == Inverted(lineToSDO(RestartTimer(t[i]), f.n).toggle)
           l == Sent(t[i], f.n, x)
<1>1. /\ LinesOK(t) /\ Wires /\ Dialogues(K) /\ ObjectsHold
      /\ ServerGets(k, 3) /\ m.cs = 3
      /\ \A c \in ClientViews(k) :
           /\ InTune(c, Asked(k), served[k], calls[k]) /\ Waits(c)
           /\ RequestFits(m, c, ServerViews(k), served[k])
  BY ServerHears DEF ServedInvariant, ServerUploadSegment
<1>2. \/ ServerFails(k, <<>>)
      \/ /\ i # NoLine /\ od' = od /\ served' = served
         /\ \/ f.last /\ ServerDoes(k, resetSDOline(t, i), <<f>>)
            \/ ~f.last /\ ServerDoes(k, [t EXCEPT ![i] = l], <<f>>)
  BY DEF ServerUploadSegment, SegmentFits, Started, Sent
<1>3. CASE ServerFails(k, <<>>)
  BY <1>1, <1>3, ServerFailsServes
<1>4. ASSUME i # NoLine, od' = od, served' = served, NEW u, ServerDoes(k, u, <<f>>),
             \/ f.last /\ u = resetSDOline(t, i)
             \/ ~f.last /\ u = [t EXCEPT ![i] = l]
      PROVE  ServedInvariant(K)'
  <2>1. /\ i \in Lines /\ DOMAIN t = Lines /\ DOMAIN t[i] = Fields
        /\ t[i].CliServNbr = k /\ t[i].whoami = SERVER /\ InUse(t[i])
        /\ ServerViews(k) = {View(t[i])}
    BY <1>1, <1>4, TheView DEF ServerViews
  <2> DEFINE line == t[i]
  <2>2. /\ DOMAIN l = Fields /\ l.CliServNbr = k /\ l.whoami = SERVER
        /\ l.state = line.state /\ l.index = line.index /\ l.count = line.count
        /\ l.data = line.data /\ l.offset = line.offset + f.n
    <3> HIDE DEF f, x, i, t
    <3> QED BY <2>1, SentIsSeen
  <2>3. line.count \in Nat \ {0} /\ line.offset \in 0 .. line.count /\ line.offset # line.count =>
          /\ f.cs = 0 /\ f.data = line.data /\ f.from = line.offset /\ f.n \in Nat \ {0}
          /\ line.offset + f.n \in 0 .. line.count
          /\ f.last <=> line.offset + f.n = line.count
    BY <2>1, SegmentCarries
  <2>4. Belongs(l, k, SERVER) /\ InUse(l)
    <3> HIDE DEF l, line
    <3> QED BY <2>1, <2>2 DEF Belongs, InUse, line
  <2> HIDE DEF l, f
  <2>5. OthersStay(t, u, k, SERVER) /\ (f.last \/ Views(u, k, SERVER) = {View(l)})
    <3>1. CASE f.last /\ u = resetSDOline(t, i)
      BY <1>1, <1>4, <3>1, ResetViews
    <3>2. CASE u = [t EXCEPT ![i] = l]
      <4>1. Becomes(t, [t EXCEPT ![i] = l], k, SERVER, l)
        BY <1>1, <1>4, <2>4, TheViewChanges
      <4> QED BY <2>4, <3>2, <4>1 DEF Becomes
    <3> QED BY <1>4, <3>1, <3>2
  <2> HIDE DEF line, i, m
  <2>6. ASSUME NEW c \in ClientViews(k) PROVE ResponseFits(f, c, Views(u, k, SERVER), served[k])
    <3> DEFINE s == served[k]
    <3>1. Fetches(c, s) /\ Sends(View(line), s.value, c.offset)
      BY <1>1, <2>1 DEF RequestFits, line
    <3> HIDE DEF s
    <3>2. /\ line.state = UPLOAD /\ line.data = s.value /\ line.count = Size[s.value]
          /\ line.offset = c.offset
      BY <3>1, ViewIsSeen DEF Sends
    <3>3. /\ s.value \in Stored /\ c.count = Size[s.value] /\ c.offset \in 0 .. c.count - 1
      BY <3>1 DEF Fetches
    <3>4. Size[s.value] \in Nat \ {0}
      BY <3>3, LineAssumption DEF Stored
    <3>5. /\ line.count \in Nat \ {0} /\ line.offset \in 0 .. line.count
          /\ line.offset # line.count
      BY <3>2, <3>3, <3>4
    <3>6. /\ f.cs = 0 /\ f.data = s.value /\ f.from = c.offset /\ f.n \in Nat \ {0}
          /\ f.from + f.n <= c.count /\ (f.last <=> f.from + f.n = c.count)
      BY <2>3, <3>2, <3>3, <3>5
    <3>7. f.last \/ \A v \in Views(u, k, SERVER) : Sends(v, s.value, f.from + f.n)
      BY <2>2, <2>5, <3>2, <3>6, ViewIsSeen DEF Sends
    <3>8. ResponseFits(f, c, Views(u, k, SERVER), s)
      BY <3>1, <3>6, <3>7 DEF ResponseFits
    <3> QED BY <3>8 DEF s
  <2>7. DiffersAt(served, served', k, served[k])
    BY <1>1, <1>4, WhatDiffers DEF Wires
  <2>8. Wires' /\ Dialogues(K)'
    BY <1>1, <1>4, <2>5, <2>6, <2>7, ServerAnswers
  <2> QED BY <1>1, <1>4, <2>8 DEF ServedInvariant, ObjectsHold
<1> QED BY <1>2, <1>3, <1>4

\* cs 4: what was before is over for the server, and nothing is said of it.
LEMMA ServerAbortServes ==
  ASSUME NEW K \in SUBSET Conns, LineInvariant, ServedInvariant(K), NEW k \in Conns,
         k \in K, ServerAbort(k)
  PROVE  ServedInvariant(K)'
<1> DEFINE t == transfers[server[k]]
           i == getSDOlineOnUse(t, k, SERVER)
           u == IF i = NoLine THEN t ELSE resetSDOline(t, i)
<1>1. LinesOK(t) /\ Wires /\ Dialogues(K) /\ ObjectsHold
  BY SDOAssumption DEF ServedInvariant, LineInvariant
<1>2. req[k] # <<>> /\ ServerDoes(k, u, <<>>) /\ od' = od /\ served' = served
  BY DEF ServerAbort, ServerGets
<1>3. OthersStay(t, u, k, SERVER)
  BY <1>1, SameViews, ResetViews
<1> HIDE DEF u
<1>4. Dialogue(ClientViews(k), ServerViews(k), req[k], resp[k], Asked(k), served[k], calls[k],
               client[k] \in running)
  BY <1>1 DEF Dialogues
<1>5. /\ resp[k] = <<>>
      /\ Dialogue(ClientViews(k), Views(u, k, SERVER), Tail(req[k]), resp[k], Asked(k), served[k],
                  calls[k], client[k] \in running)
  BY <1>2, <1>4, DialogueLosesRequest
<1>6. resp[k] \o <<>> = resp[k]
  BY <1>5
<1>7. DiffersAt(served, served', k, served[k])
  BY <1>1, <1>2, WhatDiffers DEF Wires
<1>8. Wires' /\ Dialogues(K)'
  BY <1>1, <1>2, <1>3, <1>5, <1>6, <1>7, ServerTurn
<1> QED BY <1>1, <1>2, <1>8 DEF ServedInvariant, ObjectsHold

LEMMA ServerHandlesServes ==
  ASSUME NEW K \in SUBSET Conns, LineInvariant, ServedInvariant(K), ~MayRefuse,
         NEW k \in Conns, k \in K, ServerHandles(k)
  PROVE  ServedInvariant(K)'
BY ServerInitiateDownloadServes, ServerDownloadSegmentServes, ServerInitiateUploadServes,
   ServerUploadSegmentServes, ServerAbortServes DEF ServerHandles

-----------------------------------------------------------------------------
(***************************************************************************)
(* The client's half of proceedSDO.                                        *)
(***************************************************************************)
\* The response a client gets is the only frame, and about what it waits for.
LEMMA ClientHears ==
  ASSUME NEW K \in SUBSET Conns, LineInvariant, Dialogues(K), NEW k \in Conns, k \in K,
         NEW cs, ClientGets(k, cs)
  PROVE  /\ LinesOK(transfers[client[k]]) /\ Head(resp[k]).cs = cs
         /\ req[k] = <<>> /\ Tail(resp[k]) = <<>>
         /\ \A c \in ClientViews(k) :
              /\ InTune(c, Asked(k), served[k], calls[k])
              /\ Waits(c) => ResponseFits(Head(resp[k]), c, ServerViews(k), served[k])
<1>1. LinesOK(transfers[client[k]])
  BY SDOAssumption DEF LineInvariant
<1>2. resp[k] # <<>> /\ Head(resp[k]).cs = cs
  BY DEF ClientGets
<1>3. Dialogue(ClientViews(k), ServerViews(k), req[k], resp[k], Asked(k), served[k], calls[k],
               client[k] \in running)
  BY DEF Dialogues
<1>4. /\ req[k] = <<>> /\ Tail(resp[k]) = <<>>
      /\ \A c \in ClientViews(k) :
           /\ InTune(c, Asked(k), served[k], calls[k])
           /\ Waits(c) => ResponseFits(Head(resp[k]), c, ServerViews(k), served[k])
  BY <1>2, <1>3, DialogueAnswer
<1> QED BY <1>1, <1>2, <1>4

\* A client that asks no more.
LEMMA ClientIsSilent ==
  ASSUME NEW K \in SUBSET Conns, LineInvariant, ServedInvariant(K), NEW k \in Conns,
         k \in K, NEW cs, ClientGets(k, cs), NEW u, NEW frames \in {<<>>, <<Abort>>},
         ClientDoes(k, u, frames), OthersStay(transfers[client[k]], u, k, CLIENT), NEW n,
         DiffersAt(calls, calls', k, n),
         \A c \in Views(u, k, CLIENT) : InTune(c, Asked(k), served[k], n)
  PROVE  ServedInvariant(K)'
<1>1. Wires /\ Dialogues(K)
  BY DEF ServedInvariant
<1>2. req[k] = <<>> /\ Tail(resp[k]) = <<>>
  BY <1>1, ClientHears
<1>3. req[k] \o frames = frames
  BY <1>2
<1>4. Dialogue(Views(u, k, CLIENT), ServerViews(k), req[k] \o frames, Tail(resp[k]), Asked(k),
               served[k], n, client[k] \in running)
  BY <1>2, <1>3, DialogueSilent
<1>5. Wires' /\ Dialogues(K)'
  BY <1>1, <1>4, ClientTurn
<1> QED BY <1>5 DEF ServedInvariant, ObjectsHold, ClientDoes

\* A client that asks f next.
LEMMA ClientAsks ==
  ASSUME NEW K \in SUBSET Conns, LineInvariant, ServedInvariant(K), NEW k \in Conns,
         k \in K, NEW cs, ClientGets(k, cs), NEW u, NEW f, f.cs \in 0 .. 3,
         ClientDoes(k, u, <<f>>), calls' = calls,
         OthersStay(transfers[client[k]], u, k, CLIENT), NEW c, Views(u, k, CLIENT) = {c},
         InTune(c, Asked(k), served[k], calls[k]), Waits(c),
         RequestFits(f, c, ServerViews(k), served[k])
  PROVE  ServedInvariant(K)'
<1>1. Wires /\ Dialogues(K)
  BY DEF ServedInvariant
<1>2. req[k] = <<>> /\ Tail(resp[k]) = <<>>
  BY <1>1, ClientHears
<1>3. req[k] \o <<f>> = <<f>>
  BY <1>2
<1>4. Dialogue({c}, ServerViews(k), <<f>>, <<>>, Asked(k), served[k], calls[k],
               client[k] \in running)
  BY DialogueAsked
<1>5. DiffersAt(calls, calls', k, calls[k])
  BY <1>1, WhatDiffers DEF Wires
<1>6. Dialogue(Views(u, k, CLIENT), ServerViews(k), req[k] \o <<f>>, Tail(resp[k]), Asked(k),
               served[k], calls[k], client[k] \in running)
  BY <1>2, <1>3, <1>4
<1>7. Wires' /\ Dialogues(K)'
  BY <1>1, <1>5, <1>6, ClientTurn
<1> QED BY <1>7 DEF ServedInvariant, ObjectsHold, ClientDoes

\* failedSDO of a client gives its line up.
LEMMA ClientFailsServes ==
  ASSUME NEW K \in SUBSET Conns, LineInvariant, ServedInvariant(K), NEW k \in Conns,
         k \in K, NEW cs, ClientGets(k, cs), ClientFails(k)
  PROVE  ServedInvariant(K)'
<1> DEFINE t == transfers[client[k]]
           u == Failed(t, k, CLIENT)
<1>1. LinesOK(t) /\ Wires
  BY ClientHears DEF ServedInvariant
<1>2. OthersStay(t, u, k, CLIENT) /\ Views(u, k, CLIENT) = {}
  BY <1>1, FailedViews
<1>3. ClientDoes(k, u, <<Abort>>) /\ calls' = calls
  BY DEF ClientFails
<1>4. DiffersAt(calls, calls', k, calls[k])
  BY <1>1, <1>3, WhatDiffers DEF Wires
<1> HIDE DEF u
<1> QED BY <1>2, <1>3, <1>4, ClientIsSilent

\* A transfer that goes on: the line on use is still in tune, and asks f next.
LEMMA ClientGoesOnServes ==
  ASSUME NEW K \in SUBSET Conns, LineInvariant, ServedInvariant(K), NEW k \in Conns,
         k \in K, NEW cs, ClientGets(k, cs),
         getSDOlineOnUse(transfers[client[k]], k, CLIENT) # NoLine, NEW l, l.CliServNbr = k,
         l.whoami = CLIENT, NEW f, f.cs \in 0 .. 3,
         ClientGoesOn(k, [transfers[client[k]] EXCEPT ![getSDOlineOnUse(transfers[client[k]], k, CLIENT)] = l], f),
         Waits(l), InTune(View(l), Asked(k), served[k], calls[k]),
         RequestFits(f, View(l), ServerViews(k), served[k])
  PROVE  ServedInvariant(K)'
<1> DEFINE t == transfers[client[k]]
           i == getSDOlineOnUse(t, k, CLIENT)
           u == [t EXCEPT ![i] = l]
<1>1. LinesOK(t)
  BY ClientHears DEF ServedInvariant
<1>2. Belongs(l, k, CLIENT) /\ InUse(l) /\ Waits(View(l))
  BY StatesDiffer, ViewIsSeen DEF Belongs, InUse, Waits
<1>3. Becomes(t, u, k, CLIENT, l)
  BY <1>1, <1>2, TheViewChanges
<1>4. ClientDoes(k, u, <<f>>) /\ calls' = calls
  BY DEF ClientGoesOn
<1> HIDE DEF u
<1>5. OthersStay(t, u, k, CLIENT) /\ Views(u, k, CLIENT) = {View(l)}
  BY <1>2, <1>3 DEF Becomes
<1> HIDE DEF i
<1> QED BY <1>2, <1>4, <1>5, ClientAsks

\* A transfer that ends: the user is called, and finds what was served.
LEMMA ClientEndsServes ==
  ASSUME NEW K \in SUBSET Conns, LineInvariant, ServedInvariant(K), NEW k \in Conns, k \in K, NEW cs, ClientGets(k, cs),
         getSDOlineOnUse(transfers[client[k]], k, CLIENT) # NoLine,
         NEW l, l.CliServNbr = k, l.whoami = CLIENT,
         ClientEnds(k, [transfers[client[k]] EXCEPT
                          ![getSDOlineOnUse(transfers[client[k]], k, CLIENT)] = l]),
         ~Waits(l),
         l.state = FINISHED =>
           /\ calls[k] = 0
           /\ served[k] = [op |-> Asked(k).op, index |-> Asked(k).index, value |-> Assembled(l)]
  PROVE  ServedInvariant(K)'
<1> DEFINE t == transfers[client[k]]
           i == getSDOlineOnUse(t, k, CLIENT)
           u == [t EXCEPT ![i] = l]
<1>1. LinesOK(t) /\ Wires
  BY ClientHears DEF ServedInvariant
<1>2. Belongs(l, k, CLIENT)
  BY DEF Belongs
<1>3. Becomes(t, u, k, CLIENT, l)
  BY <1>1, <1>2, TheViewChanges
<1>4. ClientDoes(k, u, <<>>) /\ calls' = [calls EXCEPT ![k] = @ + 1]
  BY DEF ClientEnds, CallBack
<1>5. DiffersAt(calls, calls', k, calls[k] + 1)
  BY <1>1, <1>4, WhatDiffers DEF Wires
<1> HIDE DEF u
<1>6. OthersStay(t, u, k, CLIENT) /\ \A c \in Views(u, k, CLIENT) : c = View(l)
  BY <1>3 DEF Becomes
<1>7. InTune(View(l), Asked(k), served[k], calls[k] + 1)
  BY StatesDiffer, ViewIsSeen DEF InTune, Waits
<1> HIDE DEF i
<1> QED BY <1>4, <1>5, <1>6, <1>7, ClientIsSilent

\* The rest of a line is what is between its offset and its count.
LEMMA RestIsZero ==
  ASSUME NEW l, DOMAIN l = Fields, l.count \in Nat \ {0}, l.offset \in 0 .. l.count
  PROVE  getSDOlineRestBytes(RestartTimer(l)) = 0 <=> l.offset = l.count
<1> DEFINE r == RestartTimer(l)
           x == l.count
           y == l.offset
<1>1. r.count = x /\ r.offset = y
  BY DEF RestartTimer, Fields
<1> HIDE DEF r, x, y
<1>2. x \in Nat \ {0} /\ y \in 0 .. x
  BY DEF x, y
<1>3. getSDOlineRestBytes(r) = x - y
  BY <1>1, <1>2 DEF getSDOlineRestBytes
<1> QED BY <1>2, <1>3 DEF r, x, y

\* The end of a line whose transfer went well, seen from the line before.
LEMMA FinishedIsSeen ==
  ASSUME NEW l, DOMAIN l = Fields
  PROVE  LET d == Finished(RestartTimer(l))
         IN  /\ d.CliServNbr = l.CliServNbr /\ d.whoami = l.whoami /\ d.state = FINISHED
             /\ d.count = l.count /\ d.data = l.data /\ d.offset = l.offset
<1> DEFINE r == RestartTimer(l)
<1>1. /\ DOMAIN r = Fields /\ r.CliServNbr = l.CliServNbr /\ r.whoami = l.whoami
      /\ r.count = l.count /\ r.data = l.data /\ r.offset = l.offset
  BY DEF RestartTimer, Fields
<1> HIDE DEF r
<1>2. LET d == Finished(r)
      IN  /\ d.CliServNbr = r.CliServNbr /\ d.whoami = r.whoami /\ d.state = FINISHED
          /\ d.count = r.count /\ d.data = r.data /\ d.offset = r.offset
  BY <1>1, EndIsSeen
<1> QED BY <1>1, <1>2 DEF r

\* cs 1 and 3: the next segment has the next bytes, or the server has stored all.
LEMMA NextSegmentServes ==
  ASSUME NEW K \in SUBSET Conns, LineInvariant, ServedInvariant(K), NEW k \in Conns,
         k \in K, NEW cs \in {1, 3}, ClientGets(k, cs),
         Started(transfers[client[k]], k, CLIENT, DOWNLOAD), NEW toggle,
         NextSegment(k, transfers[client[k]], getSDOlineOnUse(transfers[client[k]], k, CLIENT), toggle)
  PROVE  ServedInvariant(K)'
<1> DEFINE t == transfers[client[k]]
           i == getSDOlineOnUse(t, k, CLIENT)
           m == Head(resp[k])
           r == RestartTimer(t[i])
           f == Segment(r, toggle)
           goes == Sent(t[i], f.n, toggle)
           ends == Finished(r)
           c == View(t[i])
           s == served[k]
<1>1. /\ LinesOK(t) /\ m.cs = cs
      /\ \A x \in ClientViews(k) :
           /\ InTune(x, Asked(k), s, calls[k])
           /\ Waits(x) => ResponseFits(m, x, ServerViews(k), s)
  BY ClientHears DEF ServedInvariant
<1>2. i # NoLine /\ t[i].state = DOWNLOAD
  BY DEF Started
<1>3. /\ i \in Lines /\ DOMAIN t[i] = Fields /\ t[i].CliServNbr = k /\ t[i].whoami = CLIENT
      /\ ClientViews(k) = {c}
  BY <1>1, <1>2, TheView DEF ClientViews
<1>4. \/ getSDOlineRestBytes(r) = 0 /\ ClientEnds(k, [t EXCEPT ![i] = ends])
      \/ getSDOlineRestBytes(r) # 0 /\ ClientGoesOn(k, [t EXCEPT ![i] = goes], f)
  BY DEF NextSegment, Sent
<1> DEFINE line == t[i]
<1>5. /\ goes.CliServNbr = k /\ goes.whoami = CLIENT
      /\ goes.state = DOWNLOAD /\ goes.index = line.index /\ goes.count = line.count
      /\ goes.data = line.data /\ goes.offset = line.offset + f.n
  <2> HIDE DEF f, i, t
  <2> QED BY <1>2, <1>3, SentIsSeen
<1>6. /\ ends.CliServNbr = k /\ ends.whoami = CLIENT /\ ends.state = FINISHED
      /\ ends.count = line.count /\ ends.data = line.data /\ ends.offset = line.offset
  <2> HIDE DEF i, t
  <2> QED BY <1>3, FinishedIsSeen
<1>7. line.count \in Nat \ {0} /\ line.offset \in 0 .. line.count =>
        (getSDOlineRestBytes(r) = 0 <=> line.offset = line.count)
  <2> HIDE DEF i, t
  <2> QED BY <1>3, RestIsZero
<1>8. line.count \in Nat \ {0} /\ line.offset \in 0 .. line.count /\ line.offset # line.count =>
        /\ f.cs = 0 /\ f.data = line.data /\ f.from = line.offset /\ f.n \in Nat \ {0}
        /\ line.offset + f.n \in 0 .. line.count
        /\ f.last <=> line.offset + f.n = line.count
  <2> HIDE DEF i, t
  <2> QED BY <1>3, SegmentCarries
<1>9. c.state = DOWNLOAD /\ c.index = line.index /\ c.count = line.count
      /\ c.offset = line.offset /\ c.data = line.data
  BY <1>2, ViewIsSeen
<1> HIDE DEF c
<1>10. Waits(c) /\ InTune(c, Asked(k), s, calls[k]) /\ ResponseFits(m, c, ServerViews(k), s)
  BY <1>1, <1>3, <1>9 DEF Waits
<1> HIDE DEF goes, ends, line, r, f, m, s
<1>11. /\ calls[k] = 0 /\ Asked(k).op = DOWNLOAD /\ Asked(k).index = line.index
       /\ line.index \in Indexes /\ line.data \in Values /\ Asked(k).value = line.data
       /\ line.count = Size[line.data] /\ line.offset \in 0 .. line.count
  BY <1>9, <1>10 DEF InTune
<1>12. line.count \in Nat \ {0}
  BY <1>11, LineAssumption
<1>13. /\ line.offset = line.count => DoneFor(c, s, line.data)
       /\ line.offset # line.count => \A v \in ServerViews(k) : Receives(v, c, line.offset)
  BY <1>1, <1>9, <1>10 DEF ResponseFits
<1>14. CASE getSDOlineRestBytes(r) = 0
  <2>1. line.offset = line.count
    BY <1>7, <1>11, <1>12, <1>14
  <2>2. Assembled(ends) = line.data
    BY <1>6, <1>11, <2>1, WholeIsAssembled
  <2>3. s = [op |-> Asked(k).op, index |-> Asked(k).index, value |-> Assembled(ends)]
    BY <1>9, <1>11, <1>13, <2>1, <2>2 DEF DoneFor
  <2>4. ~Waits(ends)
    BY <1>6, StatesDiffer DEF Waits
  <2>5. ClientEnds(k, [t EXCEPT ![i] = ends])
    BY <1>4, <1>14
  <2> QED BY <1>2, <1>6, <1>11, <2>3, <2>4, <2>5, ClientEndsServes DEF s
<1>15. CASE getSDOlineRestBytes(r) # 0
  <2>1. line.offset # line.count
    BY <1>7, <1>11, <1>12, <1>15
  <2>2. /\ f.cs = 0 /\ f.data = line.data /\ f.from = line.offset /\ f.n \in Nat \ {0}
        /\ line.offset + f.n \in 0 .. line.count
        /\ f.last <=> line.offset + f.n = line.count
    BY <1>8, <1>11, <1>12, <2>1
  <2> DEFINE d == View(goes)
  <2>3. /\ d.state = DOWNLOAD /\ d.index = line.index /\ d.count = line.count
        /\ d.data = line.data /\ d.offset = line.offset + f.n
    BY <1>5, ViewIsSeen
  <2> HIDE DEF d
  <2>4. InTune(d, Asked(k), s, calls[k])
    BY <1>11, <2>2, <2>3, StatesDiffer DEF InTune, Waits
  <2>5. \A v \in ServerViews(k) : Receives(v, d, line.offset)
    BY <1>9, <1>13, <2>1, <2>3 DEF Receives
  <2>6. f.from \in Nat
    BY <1>11, <1>12, <2>2
  <2>7. RequestFits(f, d, ServerViews(k), s)
    BY <2>2, <2>3, <2>5, <2>6 DEF RequestFits
  <2>8. Waits(goes)
    BY <1>5 DEF Waits
  <2>9. ClientGoesOn(k, [t EXCEPT ![i] = goes], f)
    BY <1>4, <1>15
  <2> QED BY <1>2, <1>5, <2>2, <2>4, <2>7, <2>8, <2>9, ClientGoesOnServes DEF s, d
<1> QED BY <1>14, <1>15

LEMMA ClientDownloadServes ==
  ASSUME NEW K \in SUBSET Conns, LineInvariant, ServedInvariant(K), NEW k \in Conns,
         k \in K, ClientInitiateDownload(k) \/ ClientDownloadSegment(k)
  PROVE  ServedInvariant(K)'
<1> DEFINE t == transfers[client[k]]
           i == getSDOlineOnUse(t, k, CLIENT)
<1>1. \E cs \in {1, 3} :
        /\ ClientGets(k, cs)
        /\ \/ ClientFails(k)
           \/ Started(t, k, CLIENT, DOWNLOAD) /\ \E toggle : NextSegment(k, t, i, toggle)
  BY DEF ClientInitiateDownload, ClientDownloadSegment, SegmentFits
<1> HIDE DEF i, t
<1>2. PICK cs \in {1, 3} :
        /\ ClientGets(k, cs)
        /\ \/ ClientFails(k)
           \/ Started(t, k, CLIENT, DOWNLOAD) /\ \E toggle : NextSegment(k, t, i, toggle)
  BY <1>1
<1>3. CASE ClientFails(k)
  BY <1>2, <1>3, ClientFailsServes
<1>4. CASE Started(t, k, CLIENT, DOWNLOAD) /\ \E toggle : NextSegment(k, t, i, toggle)
  BY <1>2, <1>4, NextSegmentServes DEF t, i
<1> QED BY <1>2, <1>3, <1>4

\* What all bytes of a stored value make is that value.
LEMMA AssembledIsServed ==
  ASSUME NEW l, NEW v \in Stored, l.data = v, l.count = Size[v], l.offset = Size[v]
  PROVE  Assembled(l) = v
<1>1. Size[v] \in Nat \ {0}
  BY LineAssumption DEF Stored
<1> QED BY <1>1, LineAssumption DEF Assembled, Stored

\* cs 2: the value served has come, or its bytes are what is asked for next.
LEMMA ClientInitiateUploadServes ==
  ASSUME NEW K \in SUBSET Conns, LineInvariant, ServedInvariant(K), NEW k \in Conns,
         k \in K, ClientInitiateUpload(k)
  PROVE  ServedInvariant(K)'
<1> DEFINE t == transfers[client[k]]
           i == getSDOlineOnUse(t, k, CLIENT)
           m == Head(resp[k])
           line == t[i]
           ends == [Finished(SDOtoLine(line, m)) EXCEPT !.count = m.n]
           goes == [RestartTimer(line) EXCEPT !.count = m.n]
           c == View(line)
           s == served[k]
<1>0. ClientGets(k, 2)
  BY DEF ClientInitiateUpload
<1>1. /\ LinesOK(t) /\ m.cs = 2
      /\ \A x \in ClientViews(k) :
           /\ InTune(x, Asked(k), s, calls[k])
           /\ Waits(x) => ResponseFits(m, x, ServerViews(k), s)
  BY <1>0, ClientHears DEF ServedInvariant
<1>2. \/ ClientFails(k)
      \/ /\ Started(t, k, CLIENT, UPLOAD)
         /\ \/ m.last /\ ClientEnds(k, [t EXCEPT ![i] = ends])
            \/ ~m.last /\ ClientGoesOn(k, [t EXCEPT ![i] = goes], Frame(3))
  BY DEF ClientInitiateUpload
<1>3. CASE ClientFails(k)
  BY <1>0, <1>3, ClientFailsServes
<1>4. CASE Started(t, k, CLIENT, UPLOAD)
  <2>1. i # NoLine /\ line.state = UPLOAD
    BY <1>4 DEF Started
  <2>2. /\ i \in Lines /\ DOMAIN line = Fields /\ line.CliServNbr = k /\ line.whoami = CLIENT
        /\ ClientViews(k) = {c}
    BY <1>1, <2>1, TheView DEF ClientViews
  <2> HIDE DEF t, i
  <2>3. /\ goes.CliServNbr = k /\ goes.whoami = CLIENT
        /\ goes.state = UPLOAD /\ goes.index = line.index /\ goes.count = m.n
        /\ goes.data = line.data /\ goes.offset = line.offset
    <3> HIDE DEF line, m
    <3> QED BY <2>1, <2>2 DEF RestartTimer, Fields
  <2>4. /\ ends.CliServNbr = k /\ ends.whoami = CLIENT /\ ends.state = FINISHED
        /\ ends.count = m.n /\ ends.data = Joined(line, m) /\ ends.offset = line.offset + m.n
    <3> HIDE DEF line, m
    <3> QED BY <2>1, <2>2 DEF Finished, StopTimer, SDOtoLine, Fields
  <2>5. /\ c.state = UPLOAD /\ c.index = line.index /\ c.count = line.count
        /\ c.offset = line.offset /\ c.data = line.data
    BY <2>1, ViewIsSeen
  <2> HIDE DEF c
  <2>6. Waits(c) /\ InTune(c, Asked(k), s, calls[k]) /\ ResponseFits(m, c, ServerViews(k), s)
    BY <1>1, <2>2, <2>5 DEF Waits
  <2> HIDE DEF line, m, s, goes, ends
  <2>7. /\ calls[k] = 0 /\ Asked(k).op = UPLOAD /\ Asked(k).index = line.index
        /\ line.index \in Indexes
    BY <2>5, <2>6 DEF InTune
  <2>8. /\ s.value \in Stored /\ DoneFor(c, s, s.value) /\ line.offset = 0 /\ m.n = Size[s.value]
        /\ m.last => m.data = s.value /\ m.from = 0
        /\ ~m.last => \A v \in ServerViews(k) : Sends(v, s.value, 0)
    BY <1>1, <2>5, <2>6 DEF ResponseFits
  <2>9. Size[s.value] \in Nat \ {0}
    BY <2>8, LineAssumption DEF Stored
  <2>10. ASSUME m.last, ClientEnds(k, [t EXCEPT ![i] = ends])
         PROVE  ServedInvariant(K)'
    <3>1. Joined(line, m) = s.value
      BY <2>8, <2>10, JoinedFollows
    <3>2. Assembled(ends) = s.value
      BY <2>4, <2>8, <2>9, <3>1, AssembledIsServed
    <3>3. s = [op |-> Asked(k).op, index |-> Asked(k).index, value |-> Assembled(ends)]
      BY <2>5, <2>7, <2>8, <3>2 DEF DoneFor
    <3>4. ~Waits(ends)
      BY <2>4, StatesDiffer DEF Waits
    <3> QED BY <1>0, <2>1, <2>4, <2>7, <2>10, <3>3, <3>4, ClientEndsServes DEF s, t, i
  <2>11. ASSUME ~m.last, ClientGoesOn(k, [t EXCEPT ![i] = goes], Frame(3))
         PROVE  ServedInvariant(K)'
    <3> DEFINE d == View(goes)
               f == Frame(3)
    <3>1. /\ d.state = UPLOAD /\ d.index = line.index /\ d.count = Size[s.value]
          /\ d.data = line.data /\ d.offset = 0
      BY <2>3, <2>8, ViewIsSeen
    <3>2. f.cs = 3
      BY DEF Frame
    <3> HIDE DEF d, f
    <3>3. InTune(d, Asked(k), s, calls[k])
      BY <2>7, <3>1, StatesDiffer DEF InTune, Waits
    <3>4. Fetches(d, s)
      BY <2>5, <2>8, <2>9, <3>1 DEF Fetches, DoneFor
    <3>5. RequestFits(f, d, ServerViews(k), s)
      BY <2>8, <2>11, <3>1, <3>2, <3>4 DEF RequestFits
    <3>6. Waits(goes)
      BY <2>3 DEF Waits
    <3>7. ClientGoesOn(k, [t EXCEPT ![i] = goes], f) /\ f.cs \in 0 .. 3
      BY <2>11, <3>2 DEF f
    <3> QED BY <1>0, <2>1, <2>3, <3>3, <3>5, <3>6, <3>7, ClientGoesOnServes DEF s, d, t, i
  <2> QED BY <1>2, <1>3, <2>10, <2>11 DEF m, t, i, ends, goes, line
<1> QED BY <1>2, <1>3, <1>4

\* cs 0: the bytes are the next ones of the value served, and all of it in the end.
LEMMA ClientUploadSegmentServes ==
  ASSUME NEW K \in SUBSET Conns, LineInvariant, ServedInvariant(K), NEW k \in Conns,
         k \in K, ClientUploadSegment(k)
  PROVE  ServedInvariant(K)'
<1> DEFINE t == transfers[client[k]]
           i == getSDOlineOnUse(t, k, CLIENT)
           m == Head(resp[k])
           line == t[i]
           l == Taken(line, m)
           f == [Frame(3) EXCEPT !.toggle = l.toggle]
           c == View(line)
           s == served[k]
<1>0. ClientGets(k, 0)
  BY DEF ClientUploadSegment
<1>1. /\ LinesOK(t) /\ m.cs = 0
      /\ \A x \in ClientViews(k) :
           /\ InTune(x, Asked(k), s, calls[k])
           /\ Waits(x) => ResponseFits(m, x, ServerViews(k), s)
  BY <1>0, ClientHears DEF ServedInvariant
<1>2. \/ ClientFails(k)
      \/ /\ Started(t, k, CLIENT, UPLOAD)
         /\ \/ m.last /\ ClientEnds(k, [t EXCEPT ![i] = Finished(l)])
            \/ ~m.last /\ ClientGoesOn(k, [t EXCEPT ![i] = l], f)
  BY DEF ClientUploadSegment, SegmentFits, Taken
<1>3. CASE ClientFails(k)
  BY <1>0, <1>3, ClientFailsServes
<1>4. CASE Started(t, k, CLIENT, UPLOAD)
  <2>1. i # NoLine /\ line.state = UPLOAD
    BY <1>4 DEF Started
  <2>2. /\ i \in Lines /\ DOMAIN line = Fields /\ line.CliServNbr = k /\ line.whoami = CLIENT
        /\ ClientViews(k) = {c}
    BY <1>1, <2>1, TheView DEF ClientViews
  <2> HIDE DEF t, i
  <2>3. /\ DOMAIN l = Fields /\ l.CliServNbr = k /\ l.whoami = CLIENT
        /\ l.state = UPLOAD /\ l.index = line.index /\ l.count = line.count
        /\ l.data = Joined(line, m) /\ l.offset = line.offset + m.n
    <3> HIDE DEF line, m
    <3> QED BY <2>1, <2>2, ReceivedIsSeen
  <2>4. /\ c.state = UPLOAD /\ c.index = line.index /\ c.count = line.count
        /\ c.offset = line.offset /\ c.data = line.data
    BY <2>1, ViewIsSeen
  <2>5. f.cs = 3
    BY DEF Frame
  <2> HIDE DEF c
  <2>6. Waits(c) /\ InTune(c, Asked(k), s, calls[k]) /\ ResponseFits(m, c, ServerViews(k), s)
    BY <1>1, <2>2, <2>4 DEF Waits
  <2> HIDE DEF line, m, s, l, f
  <2>7. /\ calls[k] = 0 /\ Asked(k).op = UPLOAD /\ Asked(k).index = line.index
        /\ line.index \in Indexes
    BY <2>4, <2>6 DEF InTune
  <2>8. /\ Fetches(c, s) /\ m.data = s.value /\ m.from = line.offset /\ m.n \in Nat \ {0}
        /\ m.from + m.n <= line.count
        /\ m.last <=> m.from + m.n = line.count
        /\ ~m.last => \A v \in ServerViews(k) : Sends(v, s.value, m.from + m.n)
    BY <1>1, <2>4, <2>6 DEF ResponseFits
  <2>9. /\ s.value \in Stored /\ DoneFor(c, s, s.value) /\ line.count = Size[s.value]
        /\ line.offset \in 0 .. line.count - 1 /\ (line.offset = 0 \/ line.data = s.value)
    BY <2>4, <2>8 DEF Fetches
  <2>10. line.count \in Nat \ {0}
    BY <2>9, LineAssumption DEF Stored
  <2>11. l.data = s.value
    BY <2>3, <2>8, <2>9, JoinedFollows
  <2>12. ASSUME m.last, ClientEnds(k, [t EXCEPT ![i] = Finished(l)])
         PROVE  ServedInvariant(K)'
    <3> DEFINE ends == Finished(l)
    <3>1. /\ ends.CliServNbr = k /\ ends.whoami = CLIENT /\ ends.state = FINISHED
          /\ ends.count = l.count /\ ends.data = l.data /\ ends.offset = l.offset
      BY <2>3, EndIsSeen
    <3>2. ClientEnds(k, [t EXCEPT ![i] = ends])
      BY <2>12
    <3> HIDE DEF ends
    <3>3. Assembled(ends) = s.value
      BY <2>3, <2>8, <2>9, <2>11, <2>12, <3>1, AssembledIsServed
    <3>4. s = [op |-> Asked(k).op, index |-> Asked(k).index, value |-> Assembled(ends)]
      BY <2>4, <2>7, <2>9, <3>3 DEF DoneFor
    <3>5. ~Waits(ends)
      BY <3>1, StatesDiffer DEF Waits
    <3> QED BY <1>0, <2>1, <2>7, <3>1, <3>2, <3>4, <3>5, ClientEndsServes DEF s, t, i
  <2>13. ASSUME ~m.last, ClientGoesOn(k, [t EXCEPT ![i] = l], f)
         PROVE  ServedInvariant(K)'
    <3> DEFINE d == View(l)
               from == m.from + m.n
    <3>1. /\ d.state = UPLOAD /\ d.index = line.index /\ d.count = line.count
          /\ d.data = s.value /\ d.offset = from
      BY <2>3, <2>8, <2>11, ViewIsSeen
    <3>2. from \in 0 .. line.count - 1
      BY <2>8, <2>9, <2>10, <2>13
    <3>3. \A v \in ServerViews(k) : Sends(v, s.value, from)
      BY <2>8, <2>13
    <3> HIDE DEF d, from
    <3>4. InTune(d, Asked(k), s, calls[k])
      BY <2>7, <3>1, StatesDiffer DEF InTune, Waits
    <3>5. Fetches(d, s)
      BY <2>4, <2>9, <3>1, <3>2 DEF Fetches, DoneFor
    <3>6. RequestFits(f, d, ServerViews(k), s)
      BY <2>5, <3>1, <3>3, <3>5 DEF RequestFits
    <3>7. Waits(l)
      BY <2>3 DEF Waits
    <3> QED BY <1>0, <2>1, <2>3, <2>5, <2>13, <3>4, <3>6, <3>7, ClientGoesOnServes DEF s, d, t, i
  <2> QED BY <1>2, <1>3, <2>12, <2>13 DEF m, t, i, l, f, line
<1> QED BY <1>2, <1>3, <1>4

\* cs 4: the user is called for the line that is aborted.
LEMMA ClientAbortServes ==
  ASSUME NEW K \in SUBSET Conns, LineInvariant, ServedInvariant(K), NEW k \in Conns,
         k \in K, ClientAbort(k)
  PROVE  ServedInvariant(K)'
<1> DEFINE t == transfers[client[k]]
           i == getSDOlineOnUse(t, k, CLIENT)
           l == StopTimer([t[i] EXCEPT !.state = ABORTED_RCV])
<1>1. ClientGets(k, 4) /\ LinesOK(t) /\ Wires
  BY ClientHears DEF ServedInvariant, ClientAbort
<1>2. CASE i = NoLine
  <2>1. ClientDoes(k, t, <<>>) /\ calls' = calls
    BY <1>2 DEF ClientAbort
  <2>2. DiffersAt(calls, calls', k, calls[k])
    BY <1>1, <2>1, WhatDiffers DEF Wires
  <2>3. Views(t, k, CLIENT) = {}
    BY <1>2, LineOnUseIsOnUse, NoView
  <2> HIDE DEF i
  <2> QED BY <1>1, <2>1, <2>2, <2>3, SameViews, ClientIsSilent
<1>3. CASE i # NoLine
  <2>1. ClientEnds(k, [t EXCEPT ![i] = l])
    BY <1>3 DEF ClientAbort
  <2>2. DOMAIN t[i] = Fields /\ t[i].CliServNbr = k /\ t[i].whoami = CLIENT
    BY <1>1, <1>3, TheView
  <2>3. l.state = ABORTED_RCV /\ l.CliServNbr = k /\ l.whoami = CLIENT
    <3> HIDE DEF t, i
    <3> QED BY <2>2 DEF StopTimer, Fields
  <2> HIDE DEF l
  <2>4. ~Waits(l) /\ l.state # FINISHED
    BY <2>3, StatesDiffer DEF Waits
  <2> QED BY <1>1, <1>3, <2>1, <2>3, <2>4, ClientEndsServes
<1> QED BY <1>2, <1>3

LEMMA ClientHandlesServes ==
  ASSUME NEW K \in SUBSET Conns, LineInvariant, ServedInvariant(K), NEW k \in Conns,
         k \in K, ClientHandles(k)
  PROVE  ServedInvariant(K)'
BY ClientDownloadServes, ClientInitiateUploadServes, ClientUploadSegmentServes, ClientAbortServes
DEF ClientHandles

-----------------------------------------------------------------------------
(***************************************************************************)
(* The watchdog, the user and the faults.                                  *)
(***************************************************************************)
\* Lines i of t and u are of the same transfer.
SameLines(t, u) ==
  \A i \in Lines : /\ u[i].CliServNbr = t[i].CliServNbr /\ u[i].whoami = t[i].whoami
                   /\ u[i].state = t[i].state /\ View(u[i]) = View(t[i])

LEMMA SameLinesViews ==
  ASSUME NEW t, NEW u, SameLines(t, u), NEW k, NEW w
  PROVE  Views(u, k, w) = Views(t, k, w)
<1>1. \A i \in Lines : (OnUse(u, k, w, i) <=> OnUse(t, k, w, i)) /\ View(u[i]) = View(t[i])
  BY DEF SameLines, OnUse, LineToClose
<1> QED BY <1>1 DEF Views

\* A step that changes nothing in view.
LEMMA NothingSeen ==
  ASSUME NEW K \in SUBSET Conns, ServedInvariant(K), running' = running,
         \A h \in Conns : ServerViews(h)' = ServerViews(h) /\ ClientViews(h)' = ClientViews(h),
         UNCHANGED <<req, resp, requests, served, calls, od>>
  PROVE  ServedInvariant(K)'
<1>1. ASSUME NEW h \in K
      PROVE  Dialogue(ClientViews(h)', ServerViews(h)', req'[h], resp'[h], Asked(h)', served'[h],
                      calls'[h], client[h] \in running)
  <2>1. Asked(h)' = Asked(h)
    BY DEF Asked
  <2>2. Dialogue(ClientViews(h), ServerViews(h), req[h], resp[h], Asked(h), served[h], calls[h],
                 client[h] \in running)
    BY DEF ServedInvariant, Dialogues
  <2> QED BY <2>1, <2>2
<1>2. Dialogues(K)'
  BY <1>1 DEF Dialogues
<1>3. Wires' /\ ObjectsHold'
  BY DEF ServedInvariant, Wires, ObjectsHold
<1> QED BY <1>2, <1>3 DEF ServedInvariant

\* The watchdog of a client's line calls the user and aborts; nobody waits any more.
LEMMA ClientTimeoutServes ==
  ASSUME NEW K \in SUBSET Conns, LineInvariant, ServedInvariant(K), NEW k \in Conns,
         k \in K, NEW u, req[k] = <<>>, resp[k] = <<>>,
         transfers' = [transfers EXCEPT ![client[k]] = u],
         OthersStay(transfers[client[k]], u, k, CLIENT), Views(u, k, CLIENT) = {},
         req' = [req EXCEPT ![k] = Append(@, Abort)], CallBack(k),
         UNCHANGED <<resp, requests, served, od, running>>
  PROVE  ServedInvariant(K)'
<1>1. DOMAIN transfers = Nodes /\ client[k] \in Nodes /\ Wires /\ Dialogues(K) /\ ObjectsHold
  BY SDOAssumption DEF LineInvariant, ServedInvariant
<1>2. CLIENT # SERVER
  BY StatesDiffer
<1>3. /\ \A h \in Conns : h # k => ClientViews(h)' = ClientViews(h)
      /\ \A h \in Conns : ServerViews(h)' = ServerViews(h)
      /\ ClientViews(k)' = {}
  BY <1>1, <1>2, ViewsOfNode
<1>4. req'[k] = <<Abort>> /\ \A h \in Conns \ {k} : req'[h] = req[h] /\ calls'[h] = calls[h]
  <2>1. Append(<<>>, Abort) = <<Abort>>
    OBVIOUS
  <2> QED BY <1>1, <2>1 DEF Wires, CallBack
<1>5. Dialogue({}, ServerViews(k), <<Abort>>, <<>>, Asked(k)', served[k], calls'[k],
               client[k] \in running)
  BY DialogueSilent
<1>6. Dialogues(K)'
  BY <1>1, <1>3, <1>4, <1>5, DialoguesStay
<1>7. Wires' /\ ObjectsHold'
  BY <1>1 DEF Wires, CallBack, ObjectsHold
<1> QED BY <1>6, <1>7 DEF ServedInvariant

\* The watchdog of a server's line aborts, which fits whatever the client waits for.
LEMMA ServerTimeoutServes ==
  ASSUME NEW K \in SUBSET Conns, LineInvariant, ServedInvariant(K), NEW k \in Conns,
         k \in K, NEW u, req[k] = <<>>, resp[k] = <<>>,
         transfers' = [transfers EXCEPT ![server[k]] = u],
         OthersStay(transfers[server[k]], u, k, SERVER), Views(u, k, SERVER) = {},
         resp' = [resp EXCEPT ![k] = Append(@, Abort)],
         UNCHANGED <<req, requests, served, calls, od, running>>
  PROVE  ServedInvariant(K)'
<1>1. DOMAIN transfers = Nodes /\ server[k] \in Nodes /\ Wires /\ Dialogues(K) /\ ObjectsHold
  BY SDOAssumption DEF LineInvariant, ServedInvariant
<1>2. /\ \A h \in Conns : h # k => ServerViews(h)' = ServerViews(h)
      /\ \A h \in Conns : ClientViews(h)' = ClientViews(h)
      /\ ServerViews(k)' = {}
  BY <1>1, ViewsOfNode
<1>3. resp'[k] = <<Abort>> /\ \A h \in Conns \ {k} : resp'[h] = resp[h]
  <2>1. Append(<<>>, Abort) = <<Abort>>
    OBVIOUS
  <2> QED BY <1>1, <2>1 DEF Wires
<1>4. \A c \in ClientViews(k) : InTune(c, Asked(k), served[k], calls[k])
  BY <1>1 DEF Dialogues, Dialogue
<1>5. \A c : ResponseFits(Abort, c, {}, served[k])
  BY DEF ResponseFits, Abort, Frame
<1>6. Dialogue(ClientViews(k), {}, <<>>, <<Abort>>, Asked(k), served[k], calls[k],
               client[k] \in running)
  BY <1>4, <1>5 DEF Dialogue, Answering
<1>7. Asked(k)' = Asked(k)
  BY DEF Asked
<1>8. Dialogues(K)'
  BY <1>1, <1>2, <1>3, <1>6, <1>7, DialoguesStay
<1>9. Wires' /\ ObjectsHold'
  BY <1>1 DEF Wires, ObjectsHold
<1> QED BY <1>8, <1>9 DEF ServedInvariant

LEMMA TimeoutServes ==
  ASSUME NEW K \in SUBSET Conns, LineInvariant, ServedInvariant(K), ~LateAnswers,
         NEW n \in Nodes, NEW i \in Lines, transfers[n][i].CliServNbr \in K,
         SDOTimeoutAlarm(n, i)
  PROVE  ServedInvariant(K)'
<1> DEFINE t == transfers[n]
           l == t[i]
           k == l.CliServNbr
           u == [t EXCEPT ![i] = ResetLine]
<1>1. LinesOK(t) /\ DOMAIN transfers = Nodes /\ Placed(n, l)
  BY DEF LineInvariant
<1>2. DOMAIN t = Lines /\ DOMAIN l = Fields
  BY <1>1 DEF LinesOK
<1>3. l.timer = ARMED /\ req[k] = <<>> /\ resp[k] = <<>>
  BY DEF SDOTimeoutAlarm, AlarmDue, NothingLate
<1>4. UNCHANGED <<requests, served, od, running>>
  BY DEF SDOTimeoutAlarm, userVars, faultVars
<1>5. CASE n \notin HasClientEntry
  <2> DEFINE late == [t EXCEPT ![i] = [l EXCEPT !.timer = STALE]]
  <2>1. transfers' = [transfers EXCEPT ![n] = late] /\ UNCHANGED <<req, resp, calls>>
    BY <1>5 DEF SDOTimeoutAlarm
  <2>2. SameLines(t, late)
    <3> HIDE DEF t
    <3> QED BY <1>2 DEF SameLines, View, Fields
  <2> HIDE DEF late
  <2>3. \A m \in Nodes : transfers'[m] = IF m = n THEN late ELSE transfers[m]
    BY <1>1, <2>1
  <2>4. ASSUME NEW h \in Conns, NEW w
        PROVE  /\ Views(transfers'[server[h]], h, w) = Views(transfers[server[h]], h, w)
               /\ Views(transfers'[client[h]], h, w) = Views(transfers[client[h]], h, w)
    <3>1. server[h] \in Nodes /\ client[h] \in Nodes
      BY SDOAssumption
    <3>2. Views(late, h, w) = Views(t, h, w)
      BY <2>2, SameLinesViews
    <3> QED BY <2>3, <3>1, <3>2
  <2>5. \A h \in Conns : ServerViews(h)' = ServerViews(h) /\ ClientViews(h)' = ClientViews(h)
    BY <2>4 DEF ServerViews, ClientViews
  <2> QED BY <1>4, <2>1, <2>5, NothingSeen
<1>6. CASE n \in HasClientEntry
  <2>1. /\ k \in Conns /\ l.state # RESET
        /\ (l.whoami = CLIENT /\ client[k] = n) \/ (l.whoami = SERVER /\ server[k] = n)
    BY <1>1, <1>3 DEF Placed
  <2> DEFINE w == l.whoami
  <2>2. transfers' = [transfers EXCEPT ![n] = u]
    BY <1>6 DEF SDOTimeoutAlarm
  <2>3. \A j \in Lines \ {i} : ~OnUse(t, k, w, j)
    <3>1. w \in {SERVER, CLIENT} /\ LineToClose(t, k, w, i)
      BY <2>1 DEF LineToClose
    <3> HIDE DEF t, k, w
    <3> QED BY <1>1, <2>1, <3>1 DEF LinesOK, OnUse
  <2>4. Belongs(l, k, w) /\ Belongs(ResetLine, k, w) /\ ~InUse(ResetLine)
    BY ResetIsNotInUse DEF Belongs
  <2>5. Becomes(t, u, k, w, ResetLine)
    <3> HIDE DEF t, k, w
    <3> QED BY <1>2, <2>3, <2>4, OneViewChanges
  <2> HIDE DEF u
  <2>6. OthersStay(t, u, k, w) /\ Views(u, k, w) = {}
    BY <2>4, <2>5 DEF Becomes
  <2>7. CASE w = CLIENT /\ client[k] = n
    <3>1. /\ req' = [req EXCEPT ![k] = Append(@, Abort)] /\ resp' = resp
          /\ CallBack(k)
      BY <1>6, <2>7, StatesDiffer DEF SDOTimeoutAlarm
    <3>2. k \in K
      OBVIOUS
    <3> HIDE DEF k, w
    <3> QED BY <1>3, <1>4, <2>1, <2>2, <2>6, <2>7, <3>1, <3>2, ClientTimeoutServes
  <2>8. CASE w = SERVER /\ server[k] = n
    <3>1. /\ resp' = [resp EXCEPT ![k] = Append(@, Abort)] /\ req' = req
          /\ calls' = calls
      BY <1>6, <2>8, StatesDiffer DEF SDOTimeoutAlarm
    <3>2. k \in K
      OBVIOUS
    <3> HIDE DEF k, w
    <3> QED BY <1>3, <1>4, <2>1, <2>2, <2>6, <2>8, <3>1, <3>2, ServerTimeoutServes
  <2> QED BY <2>1, <2>7, <2>8
<1> QED BY <1>5, <1>6

LEMMA AppendToOne ==
  ASSUME NEW a, NEW f
  PROVE  Append(<<a>>, f) = <<a, f>>
<1> DEFINE s == <<a>>
           pair == <<a, f>>
           X == {a, f}
<1>1. s \in Seq(X) /\ f \in X
  OBVIOUS
<1>2. Len(s) = 1 /\ s[1] = a
  OBVIOUS
<1>3. pair \in Seq(X) /\ Len(pair) = 2 /\ pair[1] = a /\ pair[2] = f
  OBVIOUS
<1> HIDE DEF s, pair, X
<1> DEFINE z == Append(s, f)
<1>4. z \in Seq(X) /\ Len(z) = Len(s) + 1
  BY <1>1
<1>5. z[Len(s) + 1] = f
  BY <1>1
<1>6. z[1] = a
  <2>1. 1 \in 1 .. Len(s)
    BY <1>2
  <2>2. z[1] = s[1]
    BY <1>1, <2>1
  <2> QED BY <1>2, <2>2
<1> HIDE DEF z
<1>7. z = pair
  <2>1. \A p \in 1 .. 2 : z[p] = pair[p]
    BY <1>2, <1>3, <1>5, <1>6
  <2>2. Len(z) = 2
    BY <1>2, <1>4
  <2>3. z = [p \in 1 .. 2 |-> z[p]]
    <3>1. z \in Seq(X)
      BY <1>4
    <3>2. z = [p \in 1 .. Len(z) |-> z[p]]
      BY <3>1
    <3> QED BY <2>2, <3>2
  <2>4. pair = [p \in 1 .. 2 |-> pair[p]]
    BY <1>3
  <2> QED BY <2>1, <2>3, <2>4
<1> QED BY <1>7 DEF s, pair, z

LEMMA BehindTheEnd ==
  ASSUME NEW q, Cleared(q), NEW f
  PROVE  Append(q, f) = <<f>> \/ \E x \in Closing : Append(q, f) = <<x, f>>
<1>1. Append(<<>>, f) = <<f>>
  OBVIOUS
<1> QED BY <1>1, AppendToOne DEF Cleared

\* A new transfer, when no answer of an earlier one is in flight: it is asked
\* for behind at most one abort, and the line it opens waits for the answer.
LEMMA StartsServes ==
  ASSUME NEW K \in SUBSET Conns, LineInvariant, ServedInvariant(K), ~LateAnswers,
         NEW k \in Conns, k \in K, NEW r, NEW l, NEW f, Starts(k, r, l, f),
         l.CliServNbr = k, l.whoami = CLIENT, Waits(l), f.cs \in {1, 2},
         InTune(View(l), r, NoRequest, 0), \A S : RequestFits(f, View(l), S, NoRequest)
  PROVE  ServedInvariant(K)'
<1> DEFINE t == transfers[client[k]]
           i == getSDOfreeLine(t)
           u == [t EXCEPT ![i] = l]
           q == req[k]
<1>1. /\ LinesOK(t) /\ DOMAIN transfers = Nodes /\ client[k] \in Nodes
      /\ Wires /\ Dialogues(K) /\ ObjectsHold
  BY SDOAssumption DEF LineInvariant, ServedInvariant
<1>2. /\ getSDOlineOnUse(t, k, CLIENT) = NoLine /\ i # NoLine /\ resp[k] = <<>>
      /\ client[k] \in running
      /\ transfers' = [transfers EXCEPT ![client[k]] = u]
      /\ req' = [req EXCEPT ![k] = Append(@, f)]
      /\ requests' = [requests EXCEPT ![k] = Append(@, r)]
      /\ calls' = [calls EXCEPT ![k] = 0] /\ served' = [served EXCEPT ![k] = NoRequest]
      /\ resp' = resp /\ od' = od /\ running' = running
  BY DEF Starts, faultVars
<1>3. Belongs(l, k, CLIENT) /\ InUse(l) /\ Waits(View(l))
  BY StatesDiffer, ViewIsSeen DEF Belongs, InUse, Waits
<1>4. Becomes(t, u, k, CLIENT, l)
  BY <1>1, <1>2, <1>3, OpenedViews
<1>5. ClientViews(k) = {}
  BY <1>2, LineOnUseIsOnUse, NoView DEF ClientViews
<1>6. Cleared(q)
  <2>1. Dialogue(ClientViews(k), ServerViews(k), q, resp[k], Asked(k), served[k], calls[k],
                 client[k] \in running)
    BY <1>1 DEF Dialogues
  <2> QED BY <1>2, <1>5, <2>1 DEF Dialogue, Asking, Answering
<1> HIDE DEF u, i
<1>7. OthersStay(t, u, k, CLIENT) /\ Views(u, k, CLIENT) = {View(l)}
  BY <1>3, <1>4 DEF Becomes
<1>8. /\ \A h \in Conns : h # k => ClientViews(h)' = ClientViews(h)
      /\ \A h \in Conns : ServerViews(h)' = ServerViews(h)
      /\ ClientViews(k)' = {View(l)}
  <2>1. CLIENT # SERVER
    BY StatesDiffer
  <2> QED BY <1>1, <1>2, <1>7, <2>1, ViewsOfNode
<1> HIDE DEF q
<1>9. Append(q, f) = <<f>> \/ \E x \in Closing : Append(q, f) = <<x, f>>
  BY <1>6, BehindTheEnd
<1>10. /\ req'[k] = Append(q, f) /\ resp'[k] = <<>> /\ served'[k] = NoRequest /\ calls'[k] = 0
       /\ \A h \in Conns \ {k} :
            /\ req'[h] = req[h] /\ resp'[h] = resp[h] /\ served'[h] = served[h]
            /\ calls'[h] = calls[h] /\ requests'[h] = requests[h]
  BY <1>1, <1>2 DEF Wires, q
<1>11. Asked(k)' = r /\ IsSequence(requests'[k])
  <2>1. PICK X : requests[k] \in Seq(X)
    BY <1>1 DEF Wires, IsSequence
  <2>2. requests'[k] = Append(requests[k], r)
    BY <1>1, <1>2 DEF Wires
  <2>3. requests[k] \in Seq(X \cup {r})
    BY <2>1
  <2>4. /\ requests'[k] \in Seq(X \cup {r}) /\ requests'[k] # <<>>
        /\ requests'[k][Len(requests'[k])] = r
    BY <2>2, <2>3
  <2> QED BY <2>4 DEF Asked, IsSequence
<1>12. Dialogue({View(l)}, ServerViews(k), req'[k], <<>>, r, NoRequest, 0, client[k] \in running)
  <2>1. f.cs \in 0 .. 3
    OBVIOUS
  <2>2. Asking(f, {View(l)}, ServerViews(k), Append(q, f), <<>>, NoRequest, client[k] \in running)
    BY <1>3, <1>9, <2>1 DEF Asking
  <2> QED BY <1>10, <2>2 DEF Dialogue
<1>13. Dialogues(K)'
  BY <1>1, <1>2, <1>8, <1>10, <1>11, <1>12, DialoguesStay
<1>14. Wires'
  BY <1>1, <1>2, <1>10, <1>11 DEF Wires
<1>15. ObjectsHold'
  BY <1>1, <1>2 DEF ObjectsHold
<1> QED BY <1>13, <1>14, <1>15 DEF ServedInvariant

LEMMA WriteServes ==
  ASSUME NEW K \in SUBSET Conns, LineInvariant, ServedInvariant(K), ~LateAnswers,
         NEW k \in Conns, k \in K, NEW index \in Indexes, NEW v \in Values,
         writeNetworkDict(k, index, v)
  PROVE  ServedInvariant(K)'
<1> DEFINE expedited == Size[v] <= EXPEDITED
           r == [op |-> DOWNLOAD, index |-> index, value |-> v]
           l(w) == [InitLine(CLIENT, k, index, DOWNLOAD, w)
                    EXCEPT !.count = Size[v], !.data = v,
                           !.offset = IF expedited THEN Size[v] ELSE 0]
           f == [Frame(1) EXCEPT !.index = index, !.last = expedited, !.n = Size[v],
                                 !.data = IF expedited THEN v ELSE Nothing]
<1>1. PICK w \in Watchdogs : Starts(k, r, l(w), f)
  BY DEF writeNetworkDict
<1> DEFINE line == l(w)
           c == View(line)
<1>2. /\ line.CliServNbr = k /\ line.whoami = CLIENT /\ line.state = DOWNLOAD
      /\ line.index = index /\ line.count = Size[v] /\ line.data = v
      /\ line.offset = IF expedited THEN Size[v] ELSE 0
  BY DEF InitLine, ResetLine
<1>3. /\ f.cs = 1 /\ f.index = index /\ (f.last <=> expedited) /\ f.n = Size[v] /\ f.from = 0
      /\ expedited => f.data = v
  BY DEF Frame
<1>4. Size[v] \in Nat \ {0}
  BY LineAssumption
<1>5. r.op = DOWNLOAD /\ r.index = index /\ r.value = v
  OBVIOUS
<1>6. Starts(k, r, line, f)
  BY <1>1
<1> HIDE DEF line, f, r
<1>7. /\ c.state = DOWNLOAD /\ c.index = index /\ c.count = Size[v] /\ c.data = v
      /\ c.offset = IF expedited THEN Size[v] ELSE 0
  BY <1>2, ViewIsSeen
<1> HIDE DEF c, expedited
<1>8. InTune(c, r, NoRequest, 0)
  BY <1>4, <1>5, <1>7, StatesDiffer DEF InTune, Waits
<1>9. ASSUME NEW S PROVE RequestFits(f, c, S, NoRequest)
  BY <1>3, <1>7 DEF RequestFits
<1>10. Waits(line)
  BY <1>2 DEF Waits
<1> QED BY <1>2, <1>3, <1>6, <1>8, <1>9, <1>10, StartsServes DEF c

LEMMA ReadServes ==
  ASSUME NEW K \in SUBSET Conns, LineInvariant, ServedInvariant(K), ~LateAnswers,
         NEW k \in Conns, k \in K, NEW index \in Indexes, readNetworkDict(k, index)
  PROVE  ServedInvariant(K)'
<1> DEFINE r == [op |-> UPLOAD, index |-> index, value |-> Nothing]
           f == [Frame(2) EXCEPT !.index = index]
<1>1. PICK w \in Watchdogs : Starts(k, r, InitLine(CLIENT, k, index, UPLOAD, w), f)
  BY DEF readNetworkDict
<1> DEFINE line == InitLine(CLIENT, k, index, UPLOAD, w)
           c == View(line)
<1>2. /\ line.CliServNbr = k /\ line.whoami = CLIENT /\ line.state = UPLOAD
      /\ line.index = index /\ line.offset = 0
  BY DEF InitLine, ResetLine
<1>3. f.cs = 2 /\ f.index = index
  BY DEF Frame
<1>4. r.op = UPLOAD /\ r.index = index
  OBVIOUS
<1>5. Starts(k, r, line, f)
  BY <1>1
<1> HIDE DEF line, f, r
<1>6. c.state = UPLOAD /\ c.index = index /\ c.offset = 0
  BY <1>2, ViewIsSeen
<1> HIDE DEF c
<1>7. InTune(c, r, NoRequest, 0)
  BY <1>4, <1>6, StatesDiffer DEF InTune, Waits
<1>8. ASSUME NEW S PROVE RequestFits(f, c, S, NoRequest)
  BY <1>3, <1>6 DEF RequestFits
<1>9. Waits(line)
  BY <1>2 DEF Waits
<1> QED BY <1>2, <1>3, <1>5, <1>7, <1>8, <1>9, StartsServes DEF c

\* Resetting one of k's lines leaves those of the others.
LEMMA ClosedViews ==
  ASSUME NEW t, LinesOK(t), NEW k \in Conns, NEW w \in {SERVER, CLIENT}, NEW i \in Lines,
         LineToClose(t, k, w, i)
  PROVE  OthersStay(t, resetSDOline(t, i), k, w)
<1>1. \A j \in Lines \ {i} : ~OnUse(t, k, w, j)
  BY DEF LinesOK, OnUse
<1>2. Belongs(t[i], k, w) /\ DOMAIN t = Lines
  BY DEF LineToClose, Belongs, LinesOK
<1>3. Becomes(t, [t EXCEPT ![i] = ResetLine], k, w, ResetLine)
  BY <1>1, <1>2, ResetIsNotInUse, OneViewChanges
<1> QED BY <1>3 DEF Becomes, resetSDOline

\* The user has seen that the transfer is over, and is at nothing.
LEMMA GetResultServes ==
  ASSUME NEW K \in SUBSET Conns, LineInvariant, LineInvariant', ServedInvariant(K),
         NEW k \in Conns, k \in K, GetResult(k)
  PROVE  ServedInvariant(K)'
<1> DEFINE t == transfers[client[k]]
           i == getSDOlineOnUse(t, k, CLIENT)
           a == AfterResult(t, k)
           u == closeSDOtransfer(a, k)
<1>1. /\ LinesOK(t) /\ DOMAIN transfers = Nodes /\ client[k] \in Nodes
      /\ Wires /\ Dialogues(K) /\ ObjectsHold
  BY SDOAssumption DEF LineInvariant, ServedInvariant
<1>2. /\ i = NoLine \/ t[i].state \notin InProgress
      /\ transfers' = [transfers EXCEPT ![client[k]] = u]
      /\ open' = [open EXCEPT ![k] = FALSE]
      /\ UNCHANGED <<req, resp, od, requests, calls, served, running>>
  BY DEF GetResult, faultVars
<1>3. OthersStay(t, a, k, CLIENT) /\ LinesOK(a)
  <2>1. CASE a = t
    BY <1>1, <2>1, SameViews
  <2>2. CASE i # NoLine /\ a = resetSDOline(t, i)
    <3>1. i \in Lines
      BY <2>2, LineOnUseIsOnUse
    <3>2. OthersStay(t, resetSDOline(t, i), k, CLIENT)
      BY <1>1, <2>2, ResetViews
    <3> HIDE DEF i
    <3>3. LinesOK(resetSDOline(t, i))
      BY <1>1, <3>1, ResetNarrows, NarrowsKeeps
    <3> QED BY <2>2, <3>2, <3>3
  <2> QED BY <2>1, <2>2 DEF AfterResult, Started
<1> HIDE DEF a
<1>4. OthersStay(a, u, k, CLIENT)
  <2> DEFINE j == getSDOlineToClose(a, k, CLIENT)
  <2>1. CASE j = NoLine
    BY <2>1, SameViews DEF closeSDOtransfer
  <2>2. CASE j # NoLine
    <3>1. j \in Lines /\ LineToClose(a, k, CLIENT, j)
      BY <2>2, LineToCloseIsToClose
    <3>2. u = resetSDOline(a, j)
      BY <2>2 DEF closeSDOtransfer
    <3> HIDE DEF j
    <3> QED BY <1>3, <3>1, <3>2, ClosedViews
  <2> QED BY <2>1, <2>2
<1> HIDE DEF u
<1>5. OthersStay(t, u, k, CLIENT)
  BY <1>3, <1>4 DEF OthersStay
<1>6. Views(u, k, CLIENT) = {}
  <2>1. ~open'[k] /\ transfers'[client[k]] = u
    BY <1>1, <1>2 DEF LineInvariant
  <2>2. \A j \in Lines : ~LineToClose(u, k, CLIENT, j)
    BY <2>1 DEF LineInvariant
  <2> QED BY <2>2, NoView DEF OnUse
<1>7. \A c \in ClientViews(k) : ~Waits(c)
  <2>1. CASE i = NoLine
    BY <2>1, LineOnUseIsOnUse, NoView DEF ClientViews
  <2>2. CASE i # NoLine
    <3>1. ClientViews(k) = {View(t[i])}
      BY <1>1, <2>2, TheView DEF ClientViews
    <3> QED BY <1>2, <2>2, <3>1, StatesDiffer, ViewIsSeen DEF Waits
  <2> QED BY <2>1, <2>2
<1>8. /\ \A h \in Conns : h # k => ClientViews(h)' = ClientViews(h)
      /\ \A h \in Conns : ServerViews(h)' = ServerViews(h)
      /\ ClientViews(k)' = {}
  <2>1. CLIENT # SERVER
    BY StatesDiffer
  <2> QED BY <1>1, <1>2, <1>5, <1>6, <2>1, ViewsOfNode
<1>9. Dialogue(ClientViews(k), ServerViews(k), req[k], resp[k], Asked(k), served[k], calls[k],
               client[k] \in running)
  BY <1>1 DEF Dialogues
<1>10. Dialogue({}, ServerViews(k), req[k], resp[k], Asked(k), served[k], calls[k],
                client[k] \in running)
  BY <1>7, <1>9, DialogueFewer
<1>11. Asked(k)' = Asked(k)
  BY <1>2 DEF Asked
<1>12. Dialogues(K)'
  BY <1>1, <1>2, <1>8, <1>10, <1>11, DialoguesStay
<1>13. Wires' /\ ObjectsHold'
  BY <1>1, <1>2 DEF Wires, ObjectsHold
<1> QED BY <1>12, <1>13 DEF ServedInvariant

-----------------------------------------------------------------------------
(***************************************************************************)
(* Faults.                                                                 *)
(***************************************************************************)
\* A frame that is lost or discarded takes no line with it.
LEMMA LostFrameServes ==
  ASSUME NEW K \in SUBSET Conns, ServedInvariant(K), NEW k \in Conns, k \in K, running' = running,
         UNCHANGED <<transfers, requests, served, calls, od>>,
         \/ req[k] # <<>> /\ req' = [req EXCEPT ![k] = Tail(@)] /\ resp' = resp
         \/ resp[k] # <<>> /\ resp' = [resp EXCEPT ![k] = Tail(@)] /\ req' = req
  PROVE  ServedInvariant(K)'
<1>1. Wires /\ Dialogues(K) /\ ObjectsHold
  BY DEF ServedInvariant
<1>2. \A h \in Conns : ServerViews(h)' = ServerViews(h) /\ ClientViews(h)' = ClientViews(h)
  BY DEF ServerViews, ClientViews, Views, OnUse
<1>3. Asked(k)' = Asked(k)
  BY DEF Asked
<1>4. Dialogue(ClientViews(k), ServerViews(k), req[k], resp[k], Asked(k), served[k], calls[k],
               client[k] \in running)
  BY <1>1 DEF Dialogues
<1>5. Dialogue(ClientViews(k), ServerViews(k), req'[k], resp'[k], Asked(k), served[k], calls[k],
               client[k] \in running)
  <2>1. CASE req[k] # <<>> /\ req' = [req EXCEPT ![k] = Tail(@)] /\ resp' = resp
    <3>1. req'[k] = Tail(req[k])
      BY <1>1, <2>1 DEF Wires
    <3> QED BY <1>4, <2>1, <3>1, DialogueLosesRequest
  <2>2. CASE resp[k] # <<>> /\ resp' = [resp EXCEPT ![k] = Tail(@)] /\ req' = req
    <3>1. resp'[k] = Tail(resp[k])
      BY <1>1, <2>2 DEF Wires
    <3> QED BY <1>4, <2>2, <3>1, DialogueLosesAnswer
  <2> QED BY <2>1, <2>2
<1>6. \A h \in Conns \ {k} : req'[h] = req[h] /\ resp'[h] = resp[h]
  BY <1>1 DEF Wires
<1>7. Dialogues(K)'
  BY <1>1, <1>2, <1>3, <1>5, <1>6, DialoguesStay
<1>8. Wires' /\ ObjectsHold'
  BY <1>1 DEF Wires, ObjectsHold
<1> QED BY <1>7, <1>8 DEF ServedInvariant

\* A node that leaves takes its lines with it.
LEMMA StopServes ==
  ASSUME LineInvariant, ServedInvariant(Conns), NEW n \in Nodes, Stop(n)
  PROVE  ServedInvariant(Conns)'
<1>1. Wires /\ Dialogues(Conns) /\ ObjectsHold /\ DOMAIN transfers = Nodes
  BY DEF ServedInvariant, LineInvariant
<1>2. /\ running' = running \ {n}
      /\ transfers' = [transfers EXCEPT ![n] = resetSDO(n)]
      /\ UNCHANGED <<req, resp, requests, served, calls, od>>
  BY DEF Stop, userVars
<1>3. \A m \in Nodes : transfers'[m] = IF m = n THEN resetSDO(n) ELSE transfers[m]
  BY <1>1, <1>2
<1>4. ASSUME NEW k \in Conns, NEW w
      PROVE  Views(resetSDO(n), k, w) = {}
  <2>1. \A j \in Lines : resetSDO(n)[j] = ResetLine
    BY DEF resetSDO
  <2>2. \A j \in Lines : ~OnUse(resetSDO(n), k, w, j)
    BY <2>1 DEF OnUse, LineToClose, ResetLine
  <2> QED BY <2>2, NoView
<1>5. ASSUME NEW k \in Conns
      PROVE  Dialogue(ClientViews(k)', ServerViews(k)', req'[k], resp'[k], Asked(k)', served'[k],
                      calls'[k], client[k] \in running')
  <2>1. client[k] \in Nodes /\ server[k] \in Nodes
    BY SDOAssumption
  <2>2. ClientViews(k)' = IF client[k] = n THEN {} ELSE ClientViews(k)
    BY <1>3, <1>4, <2>1 DEF ClientViews
  <2>3. ServerViews(k)' = IF server[k] = n THEN {} ELSE ServerViews(k)
    BY <1>3, <1>4, <2>1 DEF ServerViews
  <2>4. Asked(k)' = Asked(k)
    BY <1>2 DEF Asked
  <2>5. Dialogue(ClientViews(k), ServerViews(k), req[k], resp[k], Asked(k), served[k], calls[k],
                 client[k] \in running)
    BY <1>1 DEF Dialogues
  <2>6. client[k] \in running' => client[k] \in running /\ ClientViews(k)' = ClientViews(k)
    BY <1>2, <2>2
  <2>7. ClientViews(k)' \subseteq ClientViews(k) /\ ServerViews(k)' \subseteq ServerViews(k)
    BY <2>2, <2>3
  <2>8. Dialogue(ClientViews(k)', ServerViews(k)', req[k], resp[k], Asked(k), served[k], calls[k],
                 client[k] \in running')
    BY <2>5, <2>6, <2>7, DialogueFewer
  <2> QED BY <1>2, <2>4, <2>8
<1>6. Dialogues(Conns)'
  BY <1>5 DEF Dialogues
<1>7. Wires' /\ ObjectsHold'
  BY <1>1, <1>2 DEF Wires, ObjectsHold
<1> QED BY <1>6, <1>7 DEF ServedInvariant

\* A node comes back when nothing is in flight on its connections.
LEMMA StartServes ==
  ASSUME ServedInvariant(Conns), ~LateAnswers, NEW n \in Nodes, Start(n)
  PROVE  ServedInvariant(Conns)'
<1>1. Wires /\ Dialogues(Conns) /\ ObjectsHold
  BY DEF ServedInvariant
<1>2. /\ running' = running \cup {n}
      /\ \A k \in Conns : n \in {client[k], server[k]} => req[k] = <<>>
      /\ UNCHANGED <<transfers, req, resp, requests, served, calls, od>>
  BY DEF Start, userVars, NothingLate
<1>3. \A k \in Conns : ServerViews(k)' = ServerViews(k) /\ ClientViews(k)' = ClientViews(k)
  BY <1>2 DEF ServerViews, ClientViews, Views, OnUse
<1>4. ASSUME NEW k \in Conns
      PROVE  Dialogue(ClientViews(k)', ServerViews(k)', req'[k], resp'[k], Asked(k)', served'[k],
                      calls'[k], client[k] \in running')
  <2>1. Asked(k)' = Asked(k)
    BY <1>2 DEF Asked
  <2>2. Dialogue(ClientViews(k), ServerViews(k), req[k], resp[k], Asked(k), served[k], calls[k],
                 client[k] \in running)
    BY <1>1 DEF Dialogues
  <2>3. client[k] \in running' => client[k] \in running \/ req[k] = <<>>
    BY <1>2
  <2>4. Dialogue(ClientViews(k), ServerViews(k), req[k], resp[k], Asked(k), served[k], calls[k],
                 client[k] \in running')
    BY <2>2, <2>3, DialogueFewer
  <2> QED BY <1>2, <1>3, <2>1, <2>4
<1>5. Dialogues(Conns)'
  BY <1>4 DEF Dialogues
<1>6. Wires' /\ ObjectsHold'
  BY <1>1, <1>2 DEF Wires, ObjectsHold
<1> QED BY <1>5, <1>6 DEF ServedInvariant

-----------------------------------------------------------------------------
LEMMA NothingIsServed == Init => ServedInvariant(Conns)
<1> SUFFICES ASSUME Init PROVE ServedInvariant(Conns)
  OBVIOUS
<1>1. Wires
  <2>1. \A k \in Conns : requests[k] = <<>>
    BY DEF Init
  <2>2. <<>> \in Seq(Nat)
    OBVIOUS
  <2> QED BY <2>1, <2>2 DEF Init, Wires, IsSequence
<1>2. ASSUME NEW k \in Conns
      PROVE  Dialogue(ClientViews(k), ServerViews(k), req[k], resp[k], Asked(k), served[k],
                      calls[k], client[k] \in running)
  <2>1. client[k] \in Nodes
    BY SDOAssumption
  <2>2. \A j \in Lines : transfers[client[k]][j] = ResetLine
    BY <2>1 DEF Init
  <2>3. \A j \in Lines : ~OnUse(transfers[client[k]], k, CLIENT, j)
    BY <2>2 DEF OnUse, LineToClose, ResetLine
  <2>4. ClientViews(k) = {}
    BY <2>3, NoView DEF ClientViews
  <2>5. req[k] = <<>> /\ resp[k] = <<>>
    BY DEF Init
  <2> QED BY <2>4, <2>5, DialogueSilent
<1>3. ObjectsHold
  <2>1. ASSUME NEW index \in Indexes PROVE InitialValue(index) \in Values
    <3>1. Objects[index] \in (SUBSET Values) \ {{}}
      BY SDOAssumption
    <3>2. InitialValue(index) \in Objects[index]
      BY <3>1 DEF InitialValue
    <3> QED BY <3>1, <3>2
  <2> QED BY <2>1 DEF Init, ObjectsHold, Stored
<1> QED BY <1>1, <1>2, <1>3 DEF ServedInvariant, Dialogues

(***************************************************************************)
(* When no frame outlives its transfer and no dictionary refuses an        *)
(* access, client and server take turns: ServedInvariant.  Frames may be   *)
(* lost, alarms may ring, nodes may leave and come back.                   *)
(***************************************************************************)
THEOREM ServedIsInvariant ==
  ASSUME ~LateAnswers, ~MayRefuse PROVE Spec => []ServedInvariant(Conns)
<1>1. ASSUME LineInvariant, LineInvariant', ServedInvariant(Conns), [Next]_vars
      PROVE  ServedInvariant(Conns)'
  <2>1. ASSUME NEW k \in Conns, ServerHandles(k)
        PROVE  ServedInvariant(Conns)'
    BY <1>1, <2>1, ServerHandlesServes
  <2>2. ASSUME NEW k \in Conns, ClientHandles(k)
        PROVE  ServedInvariant(Conns)'
    BY <1>1, <2>2, ClientHandlesServes
  <2>3. ASSUME NEW n \in Nodes, NEW i \in Lines, SDOTimeoutAlarm(n, i)
        PROVE  ServedInvariant(Conns)'
    <3>1. transfers[n][i].CliServNbr \in Conns
      BY <1>1, <2>3 DEF LineInvariant, Placed, SDOTimeoutAlarm, AlarmDue
    <3> QED BY <1>1, <2>3, <3>1, TimeoutServes
  <2>4. ASSUME NEW k \in Conns, NEW index \in Indexes, NEW v \in Values,
               writeNetworkDict(k, index, v)
        PROVE  ServedInvariant(Conns)'
    BY <1>1, <2>4, WriteServes
  <2>5. ASSUME NEW k \in Conns, NEW index \in Indexes, readNetworkDict(k, index)
        PROVE  ServedInvariant(Conns)'
    BY <1>1, <2>5, ReadServes
  <2>6. ASSUME NEW k \in Conns, GetResult(k)
        PROVE  ServedInvariant(Conns)'
    BY <1>1, <2>6, GetResultServes
  <2>7. ASSUME NEW k \in Conns, Lose(k)
        PROVE  ServedInvariant(Conns)'
    <3>1. /\ running' = running /\ UNCHANGED <<transfers, requests, served, calls, od>>
          /\ \/ req[k] # <<>> /\ req' = [req EXCEPT ![k] = Tail(@)] /\ resp' = resp
             \/ resp[k] # <<>> /\ resp' = [resp EXCEPT ![k] = Tail(@)] /\ req' = req
      BY <2>7 DEF Lose, userVars
    <3> QED BY <1>1, <3>1, LostFrameServes
  <2>8. ASSUME NEW k \in Conns, Discard(k)
        PROVE  ServedInvariant(Conns)'
    <3>1. /\ running' = running /\ UNCHANGED <<transfers, requests, served, calls, od>>
          /\ \/ req[k] # <<>> /\ req' = [req EXCEPT ![k] = Tail(@)] /\ resp' = resp
             \/ resp[k] # <<>> /\ resp' = [resp EXCEPT ![k] = Tail(@)] /\ req' = req
      BY <2>8 DEF Discard, userVars, faultVars
    <3> QED BY <1>1, <3>1, LostFrameServes
  <2>9. ASSUME NEW n \in Nodes, Stop(n)
        PROVE  ServedInvariant(Conns)'
    BY <1>1, <2>9, StopServes
  <2>10. ASSUME NEW n \in Nodes, Start(n)
         PROVE  ServedInvariant(Conns)'
    BY <1>1, <2>10, StartServes
  <2>11. CASE UNCHANGED vars
    <3>1. \A h \in Conns : ServerViews(h)' = ServerViews(h) /\ ClientViews(h)' = ClientViews(h)
      BY <2>11 DEF vars, ServerViews, ClientViews, Views, OnUse
    <3> QED BY <1>1, <2>11, <3>1, NothingSeen DEF vars
  <2> QED BY <1>1, <2>1, <2>2, <2>3, <2>4, <2>5, <2>6, <2>7, <2>8, <2>9, <2>10, <2>11 DEF Next
<1> QED BY <1>1, NothingIsServed, LinesInvariant, PTL DEF Spec

(***************************************************************************)
(* SDO_FINISHED means what it says, under the same conditions: the server  *)
(* stored the value of this very transfer, or sent the bytes the client    *)
(* has, and the callback was called once.                                  *)
(***************************************************************************)
THEOREM FinishedTransfersAreServed ==
  ASSUME ~LateAnswers, ~MayRefuse PROVE Spec => []FinishedMeansServed
<1>1. ASSUME LineInvariant, ServedInvariant(Conns) PROVE FinishedMeansServed
  <2>1. ASSUME NEW k \in Conns, Started(transfers[client[k]], k, CLIENT, FINISHED)
        PROVE  LET t == transfers[client[k]]
               IN  /\ served[k] = [op |-> Asked(k).op, index |-> Asked(k).index,
                                   value |-> Assembled(t[getSDOlineOnUse(t, k, CLIENT)])]
                   /\ calls[k] = 1
    <3> DEFINE t == transfers[client[k]]
               i == getSDOlineOnUse(t, k, CLIENT)
    <3>1. i # NoLine /\ t[i].state = FINISHED
      BY <2>1 DEF Started
    <3>2. LinesOK(t)
      BY <1>1, SDOAssumption DEF LineInvariant
    <3>3. ClientViews(k) = {View(t[i])}
      BY <3>1, <3>2, TheView DEF ClientViews
    <3>4. InTune(View(t[i]), Asked(k), served[k], calls[k])
      BY <1>1, <3>3 DEF ServedInvariant, Dialogues, Dialogue
    <3>5. View(t[i]).state = FINISHED /\ Assembled(View(t[i])) = Assembled(t[i])
      BY <3>1, ViewIsSeen
    <3>6. /\ served[k] = [op |-> Asked(k).op, index |-> Asked(k).index, value |-> Assembled(t[i])]
          /\ calls[k] = 1
      BY <3>4, <3>5 DEF InTune
    <3> QED BY <3>6
  <2> QED BY <2>1 DEF FinishedMeansServed
<1> QED BY <1>1, LinesInvariant, ServedIsInvariant, PTL

=============================================================================
