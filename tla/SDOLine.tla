------------------------------ MODULE SDOLine ------------------------------
(***************************************************************************)
(* The SDO lines of a node: the array transfers[] of src/src/sdo.c, whose  *)
(* entries hold one transfer each, as server or as client.  An operator    *)
(* takes the array t of a node and gives its next value.                   *)
(*                                                                         *)
(* CliServNbr is a connection: a client entry of one node's dictionary and *)
(* the server entry of another's that go together.  The bytes of a buffer  *)
(* are abstracted to the value they are a prefix of.                       *)
(***************************************************************************)
EXTENDS Integers, Sequences

CONSTANTS
  SDO_MAX_SIMULTANEOUS_TRANSFERS, \* lines of a node
  SDO_MAX_LENGTH_TRANSFER,        \* bytes of a line's buffer
  Conns,                          \* client-server connections
  NoConn,                         \* the 0 of a reset line
  Indexes,                        \* objects transferred
  NoIndex,
  Values,                         \* what objects may hold
  Mixed,                          \* bytes that are not a prefix of a value
  Nothing,                        \* an empty buffer
  Size                            \* bytes of each value, a torn one included

ASSUME LineAssumption ==
  /\ SDO_MAX_SIMULTANEOUS_TRANSFERS \in Nat \ {0}
  /\ SDO_MAX_LENGTH_TRANSFER \in Nat
  /\ NoConn \notin Conns /\ NoIndex \notin Indexes
  /\ Mixed \notin Values /\ Nothing \notin Values /\ Mixed # Nothing
  /\ Size \in [Values \cup {Mixed} -> Nat \ {0}]

Lines == 0 .. SDO_MAX_SIMULTANEOUS_TRANSFERS - 1
NoLine == -1

RESET == "reset"
FINISHED == "finished"
DOWNLOAD == "download in progress"
UPLOAD == "upload in progress"
BLOCK_DOWNLOAD == "block download in progress"
BLOCK_UPLOAD == "block upload in progress"
ABORTED_RCV == "aborted by peer"
ABORTED_INTERNAL == "aborted"
InProgress == {DOWNLOAD, UPLOAD, BLOCK_DOWNLOAD, BLOCK_UPLOAD}

SERVER == "server"
CLIENT == "client"
UNKNOWN == "unknown"

(***************************************************************************)
(* A line's watchdog: NO_TIMER, an alarm of its own, or the number of a    *)
(* row whose alarm has run, which may be anybody's by now.                 *)
(***************************************************************************)
NO_TIMER == "none"
ARMED == "armed"
STALE == "stale"

ResetLine ==
  [state |-> RESET, whoami |-> UNKNOWN, CliServNbr |-> NoConn, index |-> NoIndex,
   timer |-> NO_TIMER, toggle |-> 0, count |-> 0, offset |-> 0, data |-> Nothing]

\* getSDOfreeLine and initSDOline: watchdog is what SetAlarm returned.
InitLine(w, k, index, state, watchdog) ==
  [ResetLine EXCEPT !.whoami = w, !.CliServNbr = k, !.index = index,
                    !.state = state, !.timer = watchdog]

Lowest(S) == IF S = {} THEN NoLine ELSE CHOOSE i \in S : \A j \in S : i <= j

getSDOfreeLine(t) == Lowest({i \in Lines : t[i].state = RESET})

LineToClose(t, k, w, i) ==
  t[i].state # RESET /\ t[i].CliServNbr = k /\ t[i].whoami = w

getSDOlineToClose(t, k, w) == Lowest({i \in Lines : LineToClose(t, k, w, i)})

OnUse(t, k, w, i) == LineToClose(t, k, w, i) /\ t[i].state # ABORTED_INTERNAL

getSDOlineOnUse(t, k, w) == Lowest({i \in Lines : OnUse(t, k, w, i)})

\* A frame that wants a transfer in the given state finds its line.
Started(t, k, w, state) ==
  LET i == getSDOlineOnUse(t, k, w) IN i # NoLine /\ t[i].state = state

resetSDOline(t, i) == [t EXCEPT ![i] = ResetLine]

StopTimer(l) == [l EXCEPT !.timer = NO_TIMER]

\* RestartSDO_TIMER: the row just deleted is free for the new alarm.
RestartTimer(l) == [l EXCEPT !.timer = IF @ = NO_TIMER THEN NO_TIMER ELSE ARMED]

Inverted(toggle) == 1 - toggle

\* failedSDO, but for the abort it sends.
FailedKeepsTimer(t, k, w) ==
  LET i == getSDOlineOnUse(t, k, w)
  IN  IF i = NoLine THEN t
      ELSE IF w = SERVER THEN resetSDOline(t, i)
      ELSE [t EXCEPT ![i].state = ABORTED_INTERNAL]

Failed(t, k, w) ==
  LET i == getSDOlineOnUse(t, k, w)
  IN  IF i = NoLine THEN t
      ELSE IF w = SERVER THEN resetSDOline(t, i)
      ELSE [t EXCEPT ![i] = StopTimer([@ EXCEPT !.state = ABORTED_INTERNAL])]

\* The client's line at the end of a transfer that went well.
Finished(l) == StopTimer([l EXCEPT !.state = FINISHED])

getSDOlineRestBytes(l) == IF l.count = 0 THEN 0 ELSE l.count - l.offset

(***************************************************************************)
(* The buffer.  A frame carries the bytes from .. from + n - 1 of a value. *)
(***************************************************************************)
Fits(l, n) == l.offset + n <= SDO_MAX_LENGTH_TRANSFER

Joined(l, m) ==
  IF (IF l.offset = 0 THEN m.from = 0 ELSE m.data = l.data /\ m.from = l.offset)
  THEN m.data ELSE Mixed

SDOtoLine(l, m) == [l EXCEPT !.data = Joined(l, m), !.offset = @ + m.n]

lineToSDO(l, n) == [l EXCEPT !.offset = @ + n]

\* SDOlineToObjdict: the value count bytes of the buffer make.
Assembled(l) ==
  LET count == IF l.count = 0 THEN l.offset ELSE l.count
  IN  IF l.data \in Values /\ l.offset = Size[l.data] /\ count = l.offset
      THEN l.data ELSE Mixed

=============================================================================
