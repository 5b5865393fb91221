-------------------------- MODULE ProcessData_proofs --------------------------
(***************************************************************************)
(* Proofs about the producer of ProcessData: the alarms of PDO and SYNC    *)
(* keep their owners, and no order of events, requests, writes and         *)
(* expirations silences a PDO or cuts its inhibit time short.              *)
(*                                                                         *)
(* x is a state of the producer before an operation, y the one after it.   *)
(***************************************************************************)
EXTENDS ProcessData, FiniteSetTheorems, WellFoundedInduction, TLAPS

-----------------------------------------------------------------------------
(***************************************************************************)
(* The alarm table: what SetAlarm, DelAlarm, a call and a tick do to a     *)
(* table t and to the handles h that its users N keep of their alarms.     *)
(***************************************************************************)
AlarmRows(N) == [alarm : N \cup {NoAlarm}, left : Nat, interval : Nat]
Tables(N) == [Rows -> AlarmRows(N)]

\* Every handle is of a row that calls its owner, and every used row is held.
Matched(t, h, N) ==
  /\ \A a \in N : h[a] # TIMER_NONE => t[h[a]].alarm = a
  /\ \A r \in UsedRows(t) : h[t[r].alarm] = r

Kept(t, h, N) ==
  /\ t \in Tables(N)
  /\ h \in [N -> Handles]
  /\ Matched(t, h, N)

\* Nothing happens to the alarm of b.
SameAlarm(t, h, new, k, b) == k[b] = h[b] /\ (h[b] # TIMER_NONE => new[h[b]] = t[h[b]])

-----------------------------------------------------------------------------
\* TIMER_NONE is no row.
LEMMA NoneIsNoRow == TIMER_NONE \notin Rows /\ Rows \subseteq Nat
BY AlarmsAssumption DEF TIMER_NONE, Rows

\* SetAlarm finds the first free row.
LEMMA AllocatedIsFree ==
  ASSUME NEW t, UsedRows(t) # Rows
  PROVE  Allocated(t) \in Rows \ UsedRows(t)
<1> DEFINE S == Rows \ UsedRows(t)
<1>1. S \subseteq Nat /\ S # {}
  BY NoneIsNoRow DEF UsedRows
<1>2. IsWellFoundedOn(OpToRel(<, Nat), Nat)
  BY NatLessThanWellFounded, Zenon
<1>3. PICK r \in S : \A q \in S : ~(<<q, r>> \in OpToRel(<, Nat))
  <2> HIDE DEF S
  <2> QED BY <1>1, <1>2, WFMin, Zenon
<1>4. \A q \in S : ~(q < r)
  BY <1>1, <1>3, Zenon DEF OpToRel
<1>5. ASSUME NEW q \in S PROVE r <= q
  <2>1. r \in Nat /\ q \in Nat
    BY <1>1
  <2> QED BY <1>4, <2>1
<1> QED BY <1>5, Zenon DEF Allocated

\* A full table gives no row.
LEMMA NothingAllocated ==
  ASSUME NEW t, UsedRows(t) = Rows
  PROVE  Allocated(t) = TIMER_NONE
BY DEF Allocated

\* A row of a table.
LEMMA RowOfTable ==
  ASSUME NEW N, NoAlarm \notin N, NEW t \in Tables(N), NEW r \in Rows
  PROVE  /\ t[r] \in AlarmRows(N)
         /\ t[r].alarm \in N \cup {NoAlarm} /\ t[r].left \in Nat /\ t[r].interval \in Nat
         /\ r \in UsedRows(t) <=> t[r].alarm \in N
         /\ r \in UsedRows(t) <=> t[r].alarm # NoAlarm
BY DEF Tables, AlarmRows, UsedRows

\* Owners have rows of their own.
LEMMA OwnRows ==
  ASSUME NEW N, NoAlarm \notin N, NEW t, NEW h, Kept(t, h, N), NEW a \in N, h[a] # TIMER_NONE
  PROVE  /\ h[a] \in UsedRows(t) /\ h[a] \in Rows /\ t[h[a]].alarm = a
         /\ \A b \in N : b # a => h[b] # h[a]
<1>1. h[a] \in Rows /\ t[h[a]].alarm = a
  BY DEF Kept, Matched, Handles
<1>2. ASSUME NEW b \in N, b # a PROVE h[b] # h[a]
  BY <1>1, <1>2 DEF Kept, Matched
<1> QED BY <1>1, <1>2 DEF UsedRows

\* Owners whose rows are left alone.
LEMMA OthersKeepRows ==
  ASSUME NEW N, NoAlarm \notin N, NEW t, NEW h, Kept(t, h, N), NEW a \in N,
         NEW new, NEW f, \A r \in UsedRows(t) : r # h[a] => new[r] = t[r],
         NEW b \in N, b # a
  PROVE  SameAlarm(t, h, new, [h EXCEPT ![a] = f], b)
<1>1. [h EXCEPT ![a] = f][b] = h[b]
  BY DEF Kept
<1>2. ASSUME h[b] # TIMER_NONE PROVE new[h[b]] = t[h[b]]
  BY <1>2, OwnRows
<1> QED BY <1>1, <1>2 DEF SameAlarm

\* A new row.
LEMMA NewRowIsARow ==
  ASSUME NEW N, NEW a \in N, NEW value \in Nat, NEW period \in Nat
  PROVE  [alarm |-> a, left |-> value, interval |-> period] \in AlarmRows(N)
BY DEF AlarmRows

\* The free row.
LEMMA FreeRowIsARow ==
  ASSUME NEW N
  PROVE  FreeRow \in AlarmRows(N) /\ FreeRow.alarm = NoAlarm
BY DEF AlarmRows, FreeRow

-----------------------------------------------------------------------------
(***************************************************************************)
(* Operations of the table.                                                *)
(***************************************************************************)
\* SetAlarm, for an owner without an alarm: whether there is a row or not, the
\* handle it returns is right, and no other owner's row changes.
LEMMA SetAlarmKeeps ==
  ASSUME NEW N, NoAlarm \notin N, NEW t, NEW h, Kept(t, h, N),
         NEW a \in N, h[a] = TIMER_NONE, NEW value \in Nat, NEW period \in Nat
  PROVE  /\ Kept(SetAlarm(t, a, value, period), [h EXCEPT ![a] = Allocated(t)], N)
         /\ \A b \in N \ {a} : SameAlarm(t, h, SetAlarm(t, a, value, period),
                                         [h EXCEPT ![a] = Allocated(t)], b)
<1> DEFINE row == [alarm |-> a, left |-> value, interval |-> period]
           new == SetAlarm(t, a, value, period)
           k == [h EXCEPT ![a] = Allocated(t)]
<1>1. t \in Tables(N) /\ h \in [N -> Handles] /\ Matched(t, h, N)
  BY DEF Kept
<1>2. row \in AlarmRows(N) /\ row.alarm = a
  BY NewRowIsARow
<1>3. CASE UsedRows(t) = Rows
  <2>1. Allocated(t) = TIMER_NONE
    BY <1>3, NothingAllocated
  <2>2. new = t
    BY <2>1 DEF SetAlarm
  <2>3. k = h
    <3> HIDE DEF k
    <3> QED BY <1>1, <2>1 DEF k
  <2> QED BY <2>2, <2>3 DEF SameAlarm
<1>4. CASE UsedRows(t) # Rows
  <2> DEFINE f == Allocated(t)
  <2>1. f \in Rows /\ f \notin UsedRows(t)
    BY <1>4, AllocatedIsFree
  <2>2. f # TIMER_NONE
    BY <2>1, NoneIsNoRow
  <2>3. new = [t EXCEPT ![f] = row]
    BY <2>2 DEF SetAlarm
  <2> HIDE DEF row, new, f
  <2>4. new \in Tables(N)
    BY <1>1, <1>2, <2>1, <2>3 DEF Tables
  <2>5. new[f] = row /\ \A r \in Rows : r # f => new[r] = t[r]
    BY <1>1, <2>1, <2>3 DEF Tables
  <2>6. k \in [N -> Handles] /\ k[a] = f /\ \A b \in N : b # a => k[b] = h[b]
    BY <1>1, <2>1 DEF f, Handles
  <2> HIDE DEF k
  <2>7. ASSUME NEW b \in N, k[b] # TIMER_NONE PROVE new[k[b]].alarm = b
    <3>1. CASE b = a
      BY <1>2, <2>5, <2>6, <3>1
    <3>2. CASE b # a
      <4>1. k[b] = h[b] /\ h[b] \in Rows
        BY <1>1, <2>6, <2>7, <3>2 DEF Handles
      <4>2. t[h[b]].alarm = b
        BY <1>1, <2>7, <4>1 DEF Matched
      <4>3. h[b] # f
        BY <2>1, <4>1, <4>2 DEF UsedRows
      <4> QED BY <2>5, <4>1, <4>2, <4>3
    <3> QED BY <3>1, <3>2
  <2>8. ASSUME NEW r \in UsedRows(new) PROVE k[new[r].alarm] = r
    <3>1. r \in Rows /\ new[r].alarm # NoAlarm
      BY DEF UsedRows
    <3>2. CASE r = f
      BY <1>2, <2>5, <2>6, <3>2
    <3>3. CASE r # f
      <4>1. new[r] = t[r]
        BY <2>5, <3>1, <3>3
      <4>2. r \in UsedRows(t)
        BY <3>1, <4>1 DEF UsedRows
      <4>3. h[t[r].alarm] = r /\ t[r].alarm \in N
        BY <1>1, <4>2, <3>1, RowOfTable DEF Matched
      <4>4. t[r].alarm # a
        BY <4>3, <3>1, NoneIsNoRow
      <4> QED BY <2>6, <4>1, <4>3, <4>4
    <3> QED BY <3>2, <3>3
  <2>9. Matched(new, k, N)
    BY <2>7, <2>8 DEF Matched
  <2>10. \A r \in UsedRows(t) : r # h[a] => new[r] = t[r]
    BY <2>1, <2>5 DEF UsedRows
  <2>11. \A b \in N \ {a} : SameAlarm(t, h, new, k, b)
    BY <2>10, OthersKeepRows DEF k
  <2> QED BY <2>4, <2>6, <2>9, <2>11 DEF Kept, new, k
<1> QED BY <1>3, <1>4

\* The row of a new alarm, if there is one.
LEMMA SetAlarmSets ==
  ASSUME NEW N, NEW t \in Tables(N), UsedRows(t) # Rows,
         NEW a \in N, NEW value \in Nat, NEW period \in Nat
  PROVE  /\ Allocated(t) \in Rows /\ Allocated(t) # TIMER_NONE
         /\ SetAlarm(t, a, value, period)[Allocated(t)] =
              [alarm |-> a, left |-> value, interval |-> period]
<1> DEFINE row == [alarm |-> a, left |-> value, interval |-> period]
           f == Allocated(t)
<1>1. f \in Rows /\ f # TIMER_NONE
  BY AllocatedIsFree, NoneIsNoRow
<1>2. SetAlarm(t, a, value, period) = [t EXCEPT ![f] = row]
  BY <1>1 DEF SetAlarm
<1> HIDE DEF row, f
<1>3. [t EXCEPT ![f] = row][f] = row
  BY <1>1 DEF Tables
<1> QED BY <1>1, <1>2, <1>3 DEF row, f

\* DelAlarm by the owner.
LEMMA DelAlarmKeeps ==
  ASSUME NEW N, NoAlarm \notin N, NEW t, NEW h, Kept(t, h, N), NEW a \in N
  PROVE  /\ Kept(DelAlarm(t, h[a]), [h EXCEPT ![a] = TIMER_NONE], N)
         /\ \A b \in N \ {a} : SameAlarm(t, h, DelAlarm(t, h[a]),
                                         [h EXCEPT ![a] = TIMER_NONE], b)
<1> DEFINE new == DelAlarm(t, h[a])
           k == [h EXCEPT ![a] = TIMER_NONE]
           f == h[a]
<1>1. t \in Tables(N) /\ h \in [N -> Handles] /\ Matched(t, h, N)
  BY DEF Kept
<1>2. CASE f = TIMER_NONE
  <2>1. new = t
    BY <1>2 DEF DelAlarm
  <2>2. k = h
    <3> HIDE DEF k
    <3> QED BY <1>1, <1>2 DEF k
  <2> QED BY <2>1, <2>2 DEF SameAlarm
<1>3. CASE f # TIMER_NONE
  <2>1. f \in Rows /\ t[f].alarm = a
    BY <1>1, <1>3 DEF Handles, Matched
  <2>2. new = [t EXCEPT ![f] = FreeRow]
    BY <1>3 DEF DelAlarm
  <2>3. k \in [N -> Handles] /\ k[a] = TIMER_NONE /\ \A b \in N : b # a => k[b] = h[b]
    BY <1>1 DEF Handles
  <2>4. h[a] = f
    OBVIOUS
  <2> HIDE DEF new, k, f
  <2>5. FreeRow \in AlarmRows(N) /\ FreeRow.alarm = NoAlarm
    BY FreeRowIsARow
  <2>6. new \in Tables(N) /\ new[f] = FreeRow /\ \A r \in Rows : r # f => new[r] = t[r]
    BY <1>1, <2>1, <2>2, <2>5 DEF Tables
  <2>7. ASSUME NEW b \in N, k[b] # TIMER_NONE PROVE new[k[b]].alarm = b
    <3>1. b # a /\ k[b] = h[b] /\ h[b] \in Rows
      BY <1>1, <2>3, <2>7 DEF Handles
    <3>2. t[h[b]].alarm = b
      BY <1>1, <2>7, <3>1 DEF Matched
    <3> QED BY <2>1, <2>6, <3>1, <3>2
  <2>8. ASSUME NEW r \in UsedRows(new) PROVE k[new[r].alarm] = r
    <3>1. r \in Rows /\ new[r].alarm # NoAlarm
      BY DEF UsedRows
    <3>2. r # f /\ new[r] = t[r]
      BY <2>5, <2>6, <3>1
    <3>3. r \in UsedRows(t) /\ t[r].alarm \in N
      BY <1>1, <3>1, <3>2, RowOfTable
    <3>4. h[t[r].alarm] = r
      BY <1>1, <3>3 DEF Matched
    <3> QED BY <2>3, <2>4, <3>2, <3>3, <3>4
  <2>9. \A r \in UsedRows(t) : r # h[a] => new[r] = t[r]
    BY <2>4, <2>6 DEF UsedRows
  <2>10. \A b \in N \ {a} : SameAlarm(t, h, new, k, b)
    BY <2>9, OthersKeepRows DEF k
  <2> QED BY <2>3, <2>6, <2>7, <2>8, <2>10, <2>4 DEF Matched, Kept, new, k, f
<1> QED BY <1>2, <1>3

\* A due one-shot alarm is called: its owner drops the handle.
LEMMA CalledOnceKeeps ==
  ASSUME NEW N, NoAlarm \notin N, NEW t, NEW h, Kept(t, h, N),
         NEW r \in UsedRows(t), t[r].interval = 0
  PROVE  /\ t[r].alarm \in N /\ h[t[r].alarm] = r
         /\ Kept(Called(t, r), [h EXCEPT ![t[r].alarm] = TIMER_NONE], N)
         /\ \A b \in N \ {t[r].alarm} :
              SameAlarm(t, h, Called(t, r), [h EXCEPT ![t[r].alarm] = TIMER_NONE], b)
<1>1. t \in Tables(N) /\ r \in Rows
  BY DEF Kept, UsedRows
<1>2. t[r].alarm \in N
  BY <1>1, RowOfTable
<1>3. h[t[r].alarm] = r
  BY DEF Kept, Matched
<1>4. Called(t, r) = DelAlarm(t, h[t[r].alarm])
  BY <1>1, <1>3, NoneIsNoRow DEF Called, DelAlarm
<1>5. /\ Kept(DelAlarm(t, h[t[r].alarm]), [h EXCEPT ![t[r].alarm] = TIMER_NONE], N)
      /\ \A b \in N \ {t[r].alarm} :
           SameAlarm(t, h, DelAlarm(t, h[t[r].alarm]), [h EXCEPT ![t[r].alarm] = TIMER_NONE], b)
  BY <1>2, DelAlarmKeeps
<1> QED BY <1>2, <1>3, <1>4, <1>5, Zenon

\* A due periodic alarm is called and armed again.
LEMMA CalledAgainKeeps ==
  ASSUME NEW N, NoAlarm \notin N, NEW t, NEW h, Kept(t, h, N),
         NEW r \in UsedRows(t), t[r].interval # 0
  PROVE  /\ t[r].alarm \in N /\ h[t[r].alarm] = r
         /\ Kept(Called(t, r), h, N)
         /\ \A b \in N \ {t[r].alarm} : SameAlarm(t, h, Called(t, r), h, b)
         /\ \A q \in Rows : /\ Called(t, r)[q].alarm = t[q].alarm
                            /\ Called(t, r)[q].interval = t[q].interval
<1> DEFINE new == Called(t, r)
           row == [t[r] EXCEPT !.left = t[r].interval]
<1>1. t \in Tables(N) /\ h \in [N -> Handles] /\ Matched(t, h, N) /\ r \in Rows
  BY DEF Kept, UsedRows
<1>2. t[r] \in AlarmRows(N)
  BY <1>1, RowOfTable
<1>3. row \in AlarmRows(N) /\ row.alarm = t[r].alarm /\ row.interval = t[r].interval
  BY <1>2 DEF AlarmRows
<1>4. new = [t EXCEPT ![r] = row]
  BY <1>1 DEF Called
<1> HIDE DEF new, row
<1>5. new \in Tables(N) /\ new[r] = row /\ \A q \in Rows : q # r => new[q] = t[q]
  BY <1>1, <1>3, <1>4 DEF Tables
<1>6. \A q \in Rows : new[q].alarm = t[q].alarm /\ new[q].interval = t[q].interval
  BY <1>3, <1>5
<1>7. UsedRows(new) = UsedRows(t)
  BY <1>6 DEF UsedRows
<1>8. Matched(new, h, N)
  BY <1>1, <1>6, <1>7, NoneIsNoRow DEF Matched, Handles, UsedRows
<1>9. t[r].alarm \in N /\ h[t[r].alarm] = r
  BY <1>1, RowOfTable DEF Matched
<1>10. ASSUME NEW b \in N \ {t[r].alarm} PROVE SameAlarm(t, h, new, h, b)
  <2>1. \A q \in UsedRows(t) : q # h[t[r].alarm] => new[q] = t[q]
    BY <1>5, <1>9 DEF UsedRows
  <2>2. [h EXCEPT ![t[r].alarm] = h[t[r].alarm]] = h
    BY <1>1
  <2> QED BY <1>9, <2>1, <2>2, OthersKeepRows
<1> QED BY <1>1, <1>5, <1>6, <1>8, <1>9, <1>10 DEF Kept, new

\* A tick changes only the time left, and takes one tick of it.
LEMMA TickKeeps ==
  ASSUME NEW N, NoAlarm \notin N, NEW t, NEW h, Kept(t, h, N)
  PROVE  /\ Kept(OneTickLater(t), h, N)
         /\ \A r \in Rows : /\ OneTickLater(t)[r].alarm = t[r].alarm
                            /\ OneTickLater(t)[r].interval = t[r].interval
                            /\ OneTickLater(t)[r].left =
                                 IF t[r].left > 0 THEN t[r].left - 1 ELSE t[r].left
<1> DEFINE new == OneTickLater(t)
<1>1. t \in Tables(N) /\ h \in [N -> Handles] /\ Matched(t, h, N)
  BY DEF Kept
<1>2. ASSUME NEW r \in Rows
      PROVE  /\ new[r] \in AlarmRows(N)
             /\ new[r].alarm = t[r].alarm /\ new[r].interval = t[r].interval
             /\ new[r].left = IF t[r].left > 0 THEN t[r].left - 1 ELSE t[r].left
  <2>1. t[r] \in AlarmRows(N)
    BY <1>1, RowOfTable
  <2>2. new[r] = IF t[r].left > 0 THEN [t[r] EXCEPT !.left = t[r].left - 1] ELSE t[r]
    BY DEF OneTickLater
  <2> HIDE DEF new
  <2>3. CASE t[r].left > 0
    <3>1. new[r] = [t[r] EXCEPT !.left = t[r].left - 1] /\ t[r].left - 1 \in Nat
      BY <2>1, <2>2, <2>3 DEF AlarmRows
    <3> QED BY <2>1, <2>3, <3>1 DEF AlarmRows
  <2>4. CASE ~(t[r].left > 0)
    BY <2>1, <2>2, <2>4
  <2> QED BY <2>3, <2>4
<1>3. new = [r \in Rows |-> new[r]]
  BY DEF OneTickLater
<1> HIDE DEF new
<1>4. new \in Tables(N)
  BY <1>2, <1>3 DEF Tables
<1>5. UsedRows(new) = UsedRows(t)
  BY <1>2 DEF UsedRows
<1>6. Matched(new, h, N)
  BY <1>1, <1>2, <1>5, NoneIsNoRow DEF Matched, Handles, UsedRows
<1> QED BY <1>1, <1>2, <1>4, <1>6 DEF Kept, new

-----------------------------------------------------------------------------
\* An owner without an alarm finds a row, if there is a row for each.
LEMMA RowLeft ==
  ASSUME NEW N, NoAlarm \notin N, IsFiniteSet(N), Cardinality(N) <= MAX_NB_TIMER,
         NEW t, NEW h, Kept(t, h, N), NEW a \in N, h[a] = TIMER_NONE
  PROVE  UsedRows(t) # Rows
<1> SUFFICES ASSUME UsedRows(t) = Rows PROVE FALSE
  OBVIOUS
<1> DEFINE T == N \ {a}
           owner == [r \in Rows |-> t[r].alarm]
<1>1. IsFiniteSet(T) /\ Cardinality(T) = Cardinality(N) - 1 /\ Cardinality(N) \in Nat
  BY FS_RemoveElement, FS_CardinalityType
<1>2. IsFiniteSet(Rows) /\ Cardinality(Rows) = MAX_NB_TIMER
  <2>1. 0 \in Int /\ MAX_NB_TIMER - 1 \in Int /\ ~(0 > MAX_NB_TIMER - 1)
    BY AlarmsAssumption
  <2>2. IsFiniteSet(0 .. MAX_NB_TIMER - 1)
        /\ Cardinality(0 .. MAX_NB_TIMER - 1) = MAX_NB_TIMER - 1 - 0 + 1
    BY <2>1, FS_Interval
  <2> QED BY <2>2, AlarmsAssumption DEF Rows
<1>3. ASSUME NEW r \in Rows PROVE t[r].alarm \in T /\ h[t[r].alarm] = r
  <2>1. t[r].alarm \in N
    BY RowOfTable DEF Kept
  <2>2. h[t[r].alarm] = r
    BY DEF Kept, Matched
  <2> QED BY <2>1, <2>2, NoneIsNoRow
<1>4. owner \in [Rows -> T]
  BY <1>3
<1>5. Cardinality(T) < Cardinality(Rows)
  BY <1>1, <1>2, AlarmsAssumption
<1>6. PICK x \in Rows, y \in Rows : x # y /\ owner[x] = owner[y]
  <2> HIDE DEF T, owner
  <2> QED BY <1>1, <1>2, <1>4, <1>5, FS_PigeonHole
<1> QED BY <1>3, <1>6

-----------------------------------------------------------------------------
(***************************************************************************)
(* Loops.                                                                  *)
(***************************************************************************)
\* Induction over a loop that counts up to n.
LEMMA LoopInduction ==
  ASSUME NEW n \in Nat, NEW T, 0 \in T, \A k \in 1 .. n : k - 1 \in T => k \in T
  PROVE  \A k \in 0 .. n : k \in T
<1> DEFINE S == (0 .. n) \ T
<1> SUFFICES ASSUME S # {} PROVE FALSE
  OBVIOUS
<1>1. S \subseteq Nat
  OBVIOUS
<1>2. IsWellFoundedOn(OpToRel(<, Nat), Nat)
  BY NatLessThanWellFounded, Zenon
<1>3. PICK k \in S : \A q \in S : ~(<<q, k>> \in OpToRel(<, Nat))
  <2> HIDE DEF S
  <2> QED BY <1>1, <1>2, WFMin, Zenon
<1>4. \A q \in S : ~(q < k)
  BY <1>1, <1>3, Zenon DEF OpToRel
<1>5. k \in 1 .. n /\ k - 1 \in 0 .. n
  <2>1. k \in 0 .. n /\ k # 0
    BY <1>3
  <2> HIDE DEF S
  <2> QED BY <2>1
<1>6. k - 1 \notin S
  BY <1>4, <1>5
<1> QED BY <1>3, <1>5, <1>6

-----------------------------------------------------------------------------
Frames == [cob_id : Nat, value : Values \cup {NoValue}]

Producers ==
  [nodeState : {Unknown_state, Pre_operational, Operational, Stopped},
   csPDO : BOOLEAN, csSYNC : BOOLEAN, valid : [TPDOs -> BOOLEAN],
   type : [TPDOs -> Nat], inhibit : [TPDOs -> 0 .. Longest], event : [TPDOs -> Nat],
   value : [TPDOs -> Values], last_message : [TPDOs -> Frames],
   transmit_type_parameter : [TPDOs -> Nat],
   alarms : Tables(AlarmNames), handle : [AlarmNames -> Handles],
   generates : BOOLEAN, Sync_Cycle_Period : Nat,
   registered : BOOLEAN, syncRegistered : BOOLEAN, out : Seq(Frames)]

\* Periodic is SYNC, and nothing else.
Periods(x) ==
  \A a \in AlarmNames : x.handle[a] # TIMER_NONE =>
    (x.alarms[x.handle[a]].interval # 0 <=> a = Sync)

Tidy(x) ==
  /\ x \in Producers
  /\ Matched(x.alarms, x.handle, AlarmNames)
  /\ Periods(x)

-----------------------------------------------------------------------------
(***************************************************************************)
(* What is invariant of PDO p, s ticks after it was sent.                  *)
(***************************************************************************)
NotStuck(x, p) ==
  /\ OnEvent(x, p) /\ Flagged(x, p) => x.handle[Inhibit(p)] # TIMER_NONE
  /\ Cyclic(x, p) /\ x.inhibit[p] = 0 => x.transmit_type_parameter[p] < x.type[p]

TimerGoesOn(x, p, s) ==
  p \in Buildable /\ OnEvent(x, p) /\ x.event[p] # 0 /\ s # Never =>
    \/ x.handle[Event(p)] # TIMER_NONE
    \/ Flagged(x, p) /\ x.last_message[p].cob_id = NoCobId

Inhibited(x, p, s) ==
  /\ p \in Buildable /\ OnEvent(x, p) /\ s < x.inhibit[p] =>
       /\ Flagged(x, p)
       /\ x.handle[Inhibit(p)] # TIMER_NONE
       /\ x.alarms[x.handle[Inhibit(p)]].left >= x.inhibit[p] - s
  /\ p \notin Buildable => x.handle[Inhibit(p)] = TIMER_NONE

InOrder(x, p, s) ==
  /\ NotStuck(x, p)
  /\ TimerGoesOn(x, p, s)
  /\ Inhibited(x, p, s)
  /\ x.last_message[p].cob_id \in {p, NoCobId}

\* PDO p while PDOs are switched off.
Off(x, p) ==
  /\ x.transmit_type_parameter[p] = 0
  /\ x.handle[Event(p)] = TIMER_NONE
  /\ x.handle[Inhibit(p)] = TIMER_NONE

SyncInOrder(x) ==
  /\ x.syncRegistered <=> x.csSYNC
  /\ x.handle[Sync] # TIMER_NONE <=> x.csSYNC /\ x.generates /\ x.Sync_Cycle_Period # 0
  /\ x.handle[Sync] # TIMER_NONE => x.alarms[x.handle[Sync]].interval = x.Sync_Cycle_Period

ProducerInvariant ==
  /\ Tidy(d)
  /\ d.out = <<>>
  /\ SyncInOrder(d)
  /\ since \in [TPDOs -> 0 .. Never]
  /\ d.csPDO => d.registered
  /\ \A p \in TPDOs : InOrder(d, p, since[p])
  /\ ~d.csPDO => \A p \in TPDOs : Off(d, p) /\ since[p] = Never

-----------------------------------------------------------------------------
(***************************************************************************)
(* The assignments operations are made of.                                 *)
(***************************************************************************)
\* Nothing but timers, flags and messages differs.
SameSettings(x, y) ==
  /\ y.nodeState = x.nodeState /\ y.csPDO = x.csPDO /\ y.csSYNC = x.csSYNC
  /\ y.valid = x.valid /\ y.type = x.type /\ y.inhibit = x.inhibit /\ y.event = x.event
  /\ y.value = x.value /\ y.generates = x.generates
  /\ y.Sync_Cycle_Period = x.Sync_Cycle_Period
  /\ y.registered = x.registered /\ y.syncRegistered = x.syncRegistered

WithAlarms(x, t, h) == [x EXCEPT !.alarms = t, !.handle = h]
WithHandle(x, h) == [x EXCEPT !.handle = h]
WithFlags(x, flags) == [x EXCEPT !.transmit_type_parameter = flags]
WithMessages(x, messages) == [x EXCEPT !.last_message = messages]
WithOut(x, out) == [x EXCEPT !.out = out]

\* New alarms and handles.
LEMMA AlarmsSet ==
  ASSUME NEW x \in Producers, NEW t \in Tables(AlarmNames), NEW h \in [AlarmNames -> Handles]
  PROVE  /\ WithAlarms(x, t, h) \in Producers
         /\ SameSettings(x, WithAlarms(x, t, h))
         /\ WithAlarms(x, t, h).alarms = t /\ WithAlarms(x, t, h).handle = h
         /\ WithAlarms(x, t, h).transmit_type_parameter = x.transmit_type_parameter
         /\ WithAlarms(x, t, h).last_message = x.last_message
         /\ WithAlarms(x, t, h).out = x.out
BY DEF Producers, WithAlarms, SameSettings

\* New flags and counts.
LEMMA FlagsSet ==
  ASSUME NEW x \in Producers, NEW flags \in [TPDOs -> Nat]
  PROVE  /\ WithFlags(x, flags) \in Producers
         /\ SameSettings(x, WithFlags(x, flags))
         /\ WithFlags(x, flags).alarms = x.alarms /\ WithFlags(x, flags).handle = x.handle
         /\ WithFlags(x, flags).transmit_type_parameter = flags
         /\ WithFlags(x, flags).last_message = x.last_message
         /\ WithFlags(x, flags).out = x.out
BY DEF Producers, WithFlags, SameSettings

\* New messages.
LEMMA MessagesSet ==
  ASSUME NEW x \in Producers, NEW messages \in [TPDOs -> Frames]
  PROVE  /\ WithMessages(x, messages) \in Producers
         /\ SameSettings(x, WithMessages(x, messages))
         /\ WithMessages(x, messages).alarms = x.alarms
         /\ WithMessages(x, messages).handle = x.handle
         /\ WithMessages(x, messages).transmit_type_parameter = x.transmit_type_parameter
         /\ WithMessages(x, messages).last_message = messages
         /\ WithMessages(x, messages).out = x.out
BY DEF Producers, WithMessages, SameSettings

\* New frames to send.
LEMMA OutSet ==
  ASSUME NEW x \in Producers, NEW out \in Seq(Frames)
  PROVE  /\ WithOut(x, out) \in Producers
         /\ SameSettings(x, WithOut(x, out))
         /\ WithOut(x, out).alarms = x.alarms /\ WithOut(x, out).handle = x.handle
         /\ WithOut(x, out).transmit_type_parameter = x.transmit_type_parameter
         /\ WithOut(x, out).last_message = x.last_message
         /\ WithOut(x, out).out = out
BY DEF Producers, WithOut, SameSettings

\* The parts of a producer.
LEMMA FieldsOfProducer ==
  ASSUME NEW x \in Producers
  PROVE  /\ x.csPDO \in BOOLEAN /\ x.csSYNC \in BOOLEAN /\ x.generates \in BOOLEAN
         /\ x.registered \in BOOLEAN /\ x.syncRegistered \in BOOLEAN
         /\ x.valid \in [TPDOs -> BOOLEAN]
         /\ x.type \in [TPDOs -> Nat] /\ x.inhibit \in [TPDOs -> 0 .. Longest]
         /\ x.event \in [TPDOs -> Nat] /\ x.value \in [TPDOs -> Values]
         /\ x.last_message \in [TPDOs -> Frames]
         /\ x.transmit_type_parameter \in [TPDOs -> Nat]
         /\ x.alarms \in Tables(AlarmNames) /\ x.handle \in [AlarmNames -> Handles]
         /\ x.Sync_Cycle_Period \in Nat /\ x.out \in Seq(Frames)
BY DEF Producers

\* The model's updates, one after another.
LEMMA SetIs ==
  ASSUME NEW x \in Producers, NEW a, NEW value, NEW period
  PROVE  Set(x, a, value, period) =
           WithAlarms(x, SetAlarm(x.alarms, a, value, period),
                      [x.handle EXCEPT ![a] = Allocated(x.alarms)])
BY DEF Set, WithAlarms, Producers

\* handle = DelAlarm(handle).
LEMMA DelIs ==
  ASSUME NEW x \in Producers, NEW a
  PROVE  Del(x, a) = WithAlarms(x, DelAlarm(x.alarms, x.handle[a]),
                                [x.handle EXCEPT ![a] = TIMER_NONE])
BY DEF Del, WithAlarms, Producers

\* A frame that is sent is the last message.
LEMMA SendIs ==
  ASSUME NEW x \in Producers, NEW p, NEW pdo
  PROVE  sendPdo(x, p, pdo) =
           WithOut(WithMessages(x, [x.last_message EXCEPT ![p] = pdo]), Append(x.out, pdo))
BY DEF sendPdo, WithOut, WithMessages, Producers

-----------------------------------------------------------------------------
(***************************************************************************)
(* Names, flags and frames.                                                *)
(***************************************************************************)
\* Every alarm has a name of its own.
LEMMA NamesDiffer ==
  /\ Sync \in AlarmNames
  /\ \A p \in TPDOs : /\ Event(p) \in AlarmNames /\ Inhibit(p) \in AlarmNames
                      /\ Event(p) # Sync /\ Inhibit(p) # Sync
                      /\ \A q \in TPDOs : /\ Event(p) # Inhibit(q)
                                          /\ q # p => Event(p) # Event(q)
                                          /\ q # p => Inhibit(p) # Inhibit(q)
BY DEF AlarmNames, Sync, Event, Inhibit

\* Every alarm is one of these.
LEMMA NamesAre ==
  ASSUME NEW a \in AlarmNames
  PROVE  a = Sync \/ \E p \in TPDOs : a = Event(p) \/ a = Inhibit(p)
BY DEF AlarmNames

\* The numbers of PDOs.
LEMMA TPDOsAreNumbers ==
  /\ TPDOs \subseteq Nat /\ NoCobId \notin TPDOs /\ NoCobId \in Nat
  /\ Buildable \subseteq TPDOs /\ SYNC \notin TPDOs /\ SYNC \in Nat
BY PDOAssumption DEF TPDOs, NoCobId, SYNC

\* What a transmission type is for.
LEMMA TypesDiffer ==
  ASSUME NEW x, NEW p
  PROVE  /\ Cyclic(x, p) => ~OnEvent(x, p) /\ x.type[p] # TRANS_RTR_SYNC
                            /\ x.type[p] # TRANS_SYNC_ACYCLIC
         /\ x.type[p] \in {TRANS_RTR, TRANS_RTR_SYNC, TRANS_SYNC_ACYCLIC} =>
              ~OnEvent(x, p) /\ ~Cyclic(x, p)
BY DEF Cyclic, OnEvent, TRANS_RTR_SYNC, TRANS_SYNC_MIN, TRANS_SYNC_MAX, TRANS_RTR,
       TRANS_EVENT_SPECIFIC, TRANS_EVENT_PROFILE, TRANS_SYNC_ACYCLIC

\* The content of a PDO is a frame with its COB-id.
LEMMA BuiltIsAFrame ==
  ASSUME NEW x \in Producers, NEW p \in TPDOs
  PROVE  buildPDO(x, p) \in Frames /\ buildPDO(x, p).cob_id = p
BY FieldsOfProducer, TPDOsAreNumbers DEF buildPDO, Frames

\* A frame whose COB-id is changed.
LEMMA MarkedIsAFrame ==
  ASSUME NEW x \in Producers, NEW p \in TPDOs, NEW id \in Nat
  PROVE  /\ [x.last_message[p] EXCEPT !.cob_id = id] \in Frames
         /\ [x.last_message[p] EXCEPT !.cob_id = id].cob_id = id
BY FieldsOfProducer DEF Frames

\* A frame more is sent.
LEMMA SendsOneMore ==
  ASSUME NEW x \in Producers, NEW y, NEW frame \in Frames, y.out = Append(x.out, frame),
         NEW q
  PROVE  Sends(y, q) <=> Sends(x, q) \/ frame.cob_id = q
<1>1. x.out \in Seq(Frames)
  BY FieldsOfProducer
<1> DEFINE n == Len(x.out)
<1>2. n \in Nat /\ DOMAIN x.out = 1 .. n /\ DOMAIN y.out = 1 .. (n + 1)
  BY <1>1
<1>3. y.out[n + 1] = frame /\ \A i \in 1 .. n : y.out[i] = x.out[i]
  BY <1>1
<1> HIDE DEF n
<1> QED BY <1>2, <1>3 DEF Sends

\* The flag is the first bit.
LEMMA FlagIsSet ==
  ASSUME NEW count \in Nat
  PROVE  /\ (IF count % 2 = 1 THEN count ELSE count + 1) \in Nat
         /\ (IF count % 2 = 1 THEN count ELSE count + 1) % 2 = 1
         /\ (IF count % 2 = 1 THEN count - 1 ELSE count) \in Nat
         /\ (IF count % 2 = 1 THEN count - 1 ELSE count) % 2 # 1
         /\ (IF count % 2 = 1 THEN count - 1 ELSE count) <= count
OBVIOUS

-----------------------------------------------------------------------------
(***************************************************************************)
(* Operations that are about one PDO.                                      *)
(***************************************************************************)
SameTimer(x, y, a) == SameAlarm(x.alarms, x.handle, y.alarms, y.handle, a)

\* Nothing of PDO q changes, and it is not sent.
Untouched(x, y, q) ==
  /\ y.type[q] = x.type[q] /\ y.inhibit[q] = x.inhibit[q] /\ y.event[q] = x.event[q]
  /\ y.transmit_type_parameter[q] = x.transmit_type_parameter[q]
  /\ y.last_message[q] = x.last_message[q]
  /\ SameTimer(x, y, Event(q)) /\ SameTimer(x, y, Inhibit(q))
  /\ Sends(y, q) <=> Sends(x, q)

OnlyPDO(x, y, p) ==
  /\ Tidy(y)
  /\ SameSettings(x, y)
  /\ SameTimer(x, y, Sync)
  /\ \A q \in TPDOs : q # p => Untouched(x, y, q)

\* Two such operations are one.
LEMMA OnlyPDOTwice ==
  ASSUME NEW x, NEW y, NEW z, NEW p, OnlyPDO(x, y, p), OnlyPDO(y, z, p)
  PROVE  OnlyPDO(x, z, p)
<1>1. SameSettings(x, z)
  BY DEF OnlyPDO, SameSettings
<1>2. SameTimer(x, z, Sync)
  BY DEF OnlyPDO, SameTimer, SameAlarm
<1>3. ASSUME NEW q \in TPDOs, q # p PROVE Untouched(x, z, q)
  <2>1. Untouched(x, y, q) /\ Untouched(y, z, q)
    BY <1>3 DEF OnlyPDO
  <2> QED BY <2>1 DEF Untouched, SameTimer, SameAlarm
<1> QED BY <1>1, <1>2, <1>3 DEF OnlyPDO

\* Nothing is such an operation.
LEMMA OnlyPDONothing ==
  ASSUME NEW x, NEW p, Tidy(x)
  PROVE  OnlyPDO(x, x, p)
BY DEF OnlyPDO, SameSettings, SameTimer, SameAlarm, Untouched

\* A PDO that is left alone stays as it is.
LEMMA UntouchedInOrder ==
  ASSUME NEW x, NEW y, NEW q, NEW s, InOrder(x, q, s), Untouched(x, y, q)
  PROVE  InOrder(y, q, s)
<1>1. OnEvent(y, q) <=> OnEvent(x, q)
  BY DEF Untouched, OnEvent
<1>2. Cyclic(y, q) <=> Cyclic(x, q)
  BY DEF Untouched, Cyclic
<1>3. Flagged(y, q) <=> Flagged(x, q)
  BY DEF Untouched, Flagged
<1>4. NotStuck(y, q)
  BY <1>1, <1>2, <1>3 DEF Untouched, InOrder, NotStuck, SameTimer, SameAlarm
<1>5. TimerGoesOn(y, q, s)
  BY <1>1, <1>2, <1>3 DEF Untouched, InOrder, TimerGoesOn, SameTimer, SameAlarm
<1>6. Inhibited(y, q, s)
  BY <1>1, <1>2, <1>3 DEF Untouched, InOrder, Inhibited, SameTimer, SameAlarm
<1> QED BY <1>4, <1>5, <1>6 DEF Untouched, InOrder

\* A timer of PDO p is changed and no other.
LEMMA TimerOfPDO ==
  ASSUME NEW x, Tidy(x), NEW p \in TPDOs, NEW a \in {Event(p), Inhibit(p)},
         NEW t, NEW h, Kept(t, h, AlarmNames),
         h[a] # TIMER_NONE => t[h[a]].interval = 0,
         \A b \in AlarmNames \ {a} : SameAlarm(x.alarms, x.handle, t, h, b),
         NEW y, y = WithAlarms(x, t, h)
  PROVE  OnlyPDO(x, y, p)
<1>1. t \in Tables(AlarmNames) /\ h \in [AlarmNames -> Handles]
  BY DEF Kept
<1>2. /\ y \in Producers /\ SameSettings(x, y) /\ y.alarms = t /\ y.handle = h
      /\ y.transmit_type_parameter = x.transmit_type_parameter
      /\ y.last_message = x.last_message /\ y.out = x.out
  BY <1>1, AlarmsSet DEF Tidy
<1>3. a \in AlarmNames /\ a # Sync
  BY NamesDiffer
<1>4. Periods(y)
  <2> SUFFICES ASSUME NEW b \in AlarmNames, h[b] # TIMER_NONE
               PROVE  t[h[b]].interval # 0 <=> b = Sync
    BY <1>2 DEF Periods
  <2>1. CASE b = a
    BY <1>3, <2>1
  <2>2. CASE b # a
    BY <2>2 DEF Tidy, Periods, SameAlarm
  <2> QED BY <2>1, <2>2
<1>5. Tidy(y)
  BY <1>2, <1>4 DEF Tidy, Kept
<1>6. ASSUME NEW q \in TPDOs, q # p PROVE Untouched(x, y, q)
  <2>1. Event(q) \in AlarmNames \ {a} /\ Inhibit(q) \in AlarmNames \ {a}
    BY <1>6, NamesDiffer
  <2> QED BY <1>2, <2>1 DEF Untouched, SameTimer, SameSettings, Sends
<1>7. SameTimer(x, y, Sync)
  BY <1>2, <1>3, NamesDiffer DEF SameTimer
<1> QED BY <1>2, <1>5, <1>6, <1>7 DEF OnlyPDO

\* What Tidy says of the table.
LEMMA TidyIsKept ==
  ASSUME NEW x, Tidy(x)
  PROVE  x \in Producers /\ Kept(x.alarms, x.handle, AlarmNames)
BY FieldsOfProducer DEF Tidy, Kept

\* A timer is deleted by its owner.
LEMMA DelTimer ==
  ASSUME NEW x, Tidy(x), NEW p \in TPDOs, NEW a \in {Event(p), Inhibit(p)},
         NEW y, y = Del(x, a)
  PROVE  /\ OnlyPDO(x, y, p)
         /\ y.handle[a] = TIMER_NONE
         /\ \A b \in AlarmNames \ {a} : SameTimer(x, y, b)
         /\ y.transmit_type_parameter = x.transmit_type_parameter
         /\ y.last_message = x.last_message /\ y.out = x.out
<1> DEFINE t == DelAlarm(x.alarms, x.handle[a])
           h == [x.handle EXCEPT ![a] = TIMER_NONE]
<1>1. x \in Producers /\ Kept(x.alarms, x.handle, AlarmNames) /\ a \in AlarmNames
  BY TidyIsKept, NamesDiffer
<1>2. /\ Kept(t, h, AlarmNames)
      /\ \A b \in AlarmNames \ {a} : SameAlarm(x.alarms, x.handle, t, h, b)
  BY <1>1, DelAlarmKeeps, RowsAssumption
<1>3. h[a] = TIMER_NONE
  BY <1>1 DEF Kept
<1>4. y = WithAlarms(x, t, h)
  BY <1>1, DelIs
<1> HIDE DEF t, h
<1>5. OnlyPDO(x, y, p)
  BY <1>2, <1>3, <1>4, TimerOfPDO
<1>6. t \in Tables(AlarmNames) /\ h \in [AlarmNames -> Handles]
  BY <1>2 DEF Kept
<1> QED BY <1>1, <1>2, <1>3, <1>4, <1>5, <1>6, AlarmsSet DEF SameTimer

\* The names are as many as there are.
LEMMA NamesAreFinite == IsFiniteSet(AlarmNames)
<1> DEFINE E == {Event(p) : p \in TPDOs}
           I == {Inhibit(p) : p \in TPDOs}
<1>1. IsFiniteSet(TPDOs)
  BY FS_Interval, PDOAssumption DEF TPDOs
<1>2. IsFiniteSet(E)
  <2>1. [p \in TPDOs |-> Event(p)] \in Surjection(TPDOs, E)
    BY DEF Surjection
  <2> HIDE DEF E
  <2> QED BY <1>1, <2>1, FS_Surjection
<1>3. IsFiniteSet(I)
  <2>1. [p \in TPDOs |-> Inhibit(p)] \in Surjection(TPDOs, I)
    BY DEF Surjection
  <2> HIDE DEF I
  <2> QED BY <1>1, <2>1, FS_Surjection
<1>4. IsFiniteSet(E \cup I)
  BY <1>2, <1>3, FS_Union
<1>5. IsFiniteSet({Sync})
  BY FS_Singleton
<1> HIDE DEF E, I
<1>6. IsFiniteSet((E \cup I) \cup {Sync})
  BY <1>4, <1>5, FS_Union
<1> QED BY <1>6 DEF AlarmNames, E, I

\* An owner without an alarm sets one.
LEMMA RowIsThere ==
  ASSUME NEW x, Tidy(x), NEW a \in AlarmNames, x.handle[a] = TIMER_NONE
  PROVE  UsedRows(x.alarms) # Rows
BY TidyIsKept, RowLeft, RowsAssumption, NamesAreFinite

\* A timer is set by its owner, once.
LEMMA SetTimer ==
  ASSUME NEW x, Tidy(x), NEW p \in TPDOs, NEW a \in {Event(p), Inhibit(p)},
         x.handle[a] = TIMER_NONE, NEW value \in Nat,
         NEW y, y = Set(x, a, value, 0)
  PROVE  /\ OnlyPDO(x, y, p)
         /\ y.handle[a] # TIMER_NONE
         /\ y.alarms[y.handle[a]].left = value
         /\ \A b \in AlarmNames \ {a} : SameTimer(x, y, b)
         /\ y.transmit_type_parameter = x.transmit_type_parameter
         /\ y.last_message = x.last_message /\ y.out = x.out
<1> DEFINE t == SetAlarm(x.alarms, a, value, 0)
           h == [x.handle EXCEPT ![a] = Allocated(x.alarms)]
<1>1. x \in Producers /\ Kept(x.alarms, x.handle, AlarmNames) /\ a \in AlarmNames
  BY TidyIsKept, NamesDiffer
<1>2. /\ Kept(t, h, AlarmNames)
      /\ \A b \in AlarmNames \ {a} : SameAlarm(x.alarms, x.handle, t, h, b)
  BY <1>1, SetAlarmKeeps, RowsAssumption
<1>3. h[a] = Allocated(x.alarms)
  BY <1>1 DEF Kept
<1>4. /\ h[a] # TIMER_NONE
      /\ t[h[a]] = [alarm |-> a, left |-> value, interval |-> 0]
  <2>1. x.alarms \in Tables(AlarmNames) /\ UsedRows(x.alarms) # Rows
    BY <1>1, RowIsThere DEF Kept
  <2> QED BY <1>1, <1>3, <2>1, SetAlarmSets
<1>5. y = WithAlarms(x, t, h)
  BY <1>1, SetIs
<1> HIDE DEF t, h
<1>6. OnlyPDO(x, y, p)
  BY <1>2, <1>4, <1>5, TimerOfPDO
<1>7. t \in Tables(AlarmNames) /\ h \in [AlarmNames -> Handles]
  BY <1>2 DEF Kept
<1> QED BY <1>1, <1>2, <1>4, <1>5, <1>6, <1>7, AlarmsSet DEF SameTimer

\* The counter or flag of PDO p is changed.
LEMMA CountOfPDO ==
  ASSUME NEW x, Tidy(x), NEW p \in TPDOs, NEW count \in Nat,
         NEW y, y = [x EXCEPT !.transmit_type_parameter[p] = count]
  PROVE  /\ OnlyPDO(x, y, p)
         /\ y.transmit_type_parameter[p] = count
         /\ y.alarms = x.alarms /\ y.handle = x.handle
         /\ y.last_message = x.last_message /\ y.out = x.out
<1> DEFINE flags == [x.transmit_type_parameter EXCEPT ![p] = count]
<1>1. x \in Producers /\ x.transmit_type_parameter \in [TPDOs -> Nat]
  BY FieldsOfProducer DEF Tidy
<1>2. /\ flags \in [TPDOs -> Nat] /\ flags[p] = count
      /\ \A q \in TPDOs : q # p => flags[q] = x.transmit_type_parameter[q]
  BY <1>1
<1>3. y = WithFlags(x, flags)
  BY <1>1 DEF WithFlags, Producers
<1> HIDE DEF flags
<1>4. /\ y \in Producers /\ SameSettings(x, y)
      /\ y.alarms = x.alarms /\ y.handle = x.handle
      /\ y.transmit_type_parameter = flags
      /\ y.last_message = x.last_message /\ y.out = x.out
  BY <1>1, <1>2, <1>3, FlagsSet
<1>5. Tidy(y)
  BY <1>4 DEF Tidy, Periods
<1>6. SameTimer(x, y, Sync)
  BY <1>4 DEF SameTimer, SameAlarm
<1>7. ASSUME NEW q \in TPDOs, q # p PROVE Untouched(x, y, q)
  BY <1>2, <1>4, <1>7 DEF Untouched, SameTimer, SameAlarm, SameSettings, Sends
<1> QED BY <1>2, <1>4, <1>5, <1>6, <1>7 DEF OnlyPDO

\* The last message of PDO p is changed.
LEMMA MessageOfPDO ==
  ASSUME NEW x, Tidy(x), NEW p \in TPDOs, NEW pdo \in Frames,
         NEW y, y = WithMessages(x, [x.last_message EXCEPT ![p] = pdo])
  PROVE  /\ OnlyPDO(x, y, p)
         /\ y.last_message[p] = pdo
         /\ y.transmit_type_parameter = x.transmit_type_parameter
         /\ y.alarms = x.alarms /\ y.handle = x.handle /\ y.out = x.out
<1> DEFINE messages == [x.last_message EXCEPT ![p] = pdo]
<1>1. x \in Producers /\ x.last_message \in [TPDOs -> Frames]
  BY FieldsOfProducer DEF Tidy
<1>2. /\ messages \in [TPDOs -> Frames] /\ messages[p] = pdo
      /\ \A q \in TPDOs : q # p => messages[q] = x.last_message[q]
  BY <1>1
<1> HIDE DEF messages
<1>4. /\ y \in Producers /\ SameSettings(x, y)
      /\ y.alarms = x.alarms /\ y.handle = x.handle
      /\ y.transmit_type_parameter = x.transmit_type_parameter
      /\ y.last_message = messages /\ y.out = x.out
  BY <1>1, <1>2, MessagesSet DEF messages
<1>5. Tidy(y)
  BY <1>4 DEF Tidy, Periods
<1>6. SameTimer(x, y, Sync)
  BY <1>4 DEF SameTimer, SameAlarm
<1>7. ASSUME NEW q \in TPDOs, q # p PROVE Untouched(x, y, q)
  BY <1>2, <1>4, <1>7 DEF Untouched, SameTimer, SameAlarm, SameSettings, Sends
<1> QED BY <1>2, <1>4, <1>5, <1>6, <1>7 DEF OnlyPDO

\* A frame of PDO p is sent, or one without COB-id.
LEMMA OutOfPDO ==
  ASSUME NEW x, Tidy(x), NEW p \in TPDOs, NEW pdo \in Frames, pdo.cob_id \in {p, NoCobId},
         NEW y, y = WithOut(x, Append(x.out, pdo))
  PROVE  /\ OnlyPDO(x, y, p)
         /\ Sends(y, p) <=> Sends(x, p) \/ pdo.cob_id = p
         /\ y.transmit_type_parameter = x.transmit_type_parameter
         /\ y.last_message = x.last_message
         /\ y.alarms = x.alarms /\ y.handle = x.handle
         /\ y.out = Append(x.out, pdo)
<1>1. x \in Producers /\ Append(x.out, pdo) \in Seq(Frames)
  BY FieldsOfProducer DEF Tidy
<1>4. /\ y \in Producers /\ SameSettings(x, y)
      /\ y.alarms = x.alarms /\ y.handle = x.handle
      /\ y.transmit_type_parameter = x.transmit_type_parameter
      /\ y.last_message = x.last_message /\ y.out = Append(x.out, pdo)
  BY <1>1, OutSet
<1>5. Tidy(y)
  BY <1>4 DEF Tidy, Periods
<1>6. SameTimer(x, y, Sync)
  BY <1>4 DEF SameTimer, SameAlarm
<1>7. ASSUME NEW q \in TPDOs, q # p PROVE Untouched(x, y, q)
  <2>1. Sends(y, q) <=> Sends(x, q)
    BY <1>1, <1>4, <1>7, SendsOneMore, TPDOsAreNumbers
  <2> QED BY <1>4, <2>1 DEF Untouched, SameTimer, SameAlarm, SameSettings
<1>8. Sends(y, p) <=> Sends(x, p) \/ pdo.cob_id = p
  BY <1>1, <1>4, SendsOneMore
<1> QED BY <1>4, <1>5, <1>6, <1>7, <1>8 DEF OnlyPDO

\* sendPdo.
LEMMA SendOfPDO ==
  ASSUME NEW x, Tidy(x), NEW p \in TPDOs,
         NEW y, y = sendPdo(x, p, buildPDO(x, p))
  PROVE  /\ OnlyPDO(x, y, p)
         /\ Sends(y, p)
         /\ y.last_message[p] = buildPDO(x, p)
         /\ y.transmit_type_parameter = x.transmit_type_parameter
         /\ y.alarms = x.alarms /\ y.handle = x.handle
<1> DEFINE pdo == buildPDO(x, p)
           z == WithMessages(x, [x.last_message EXCEPT ![p] = pdo])
<1>1. x \in Producers
  BY DEF Tidy
<1>2. pdo \in Frames /\ pdo.cob_id = p
  BY <1>1, BuiltIsAFrame
<1> HIDE DEF pdo
<1>3. /\ OnlyPDO(x, z, p) /\ z.last_message[p] = pdo
      /\ z.transmit_type_parameter = x.transmit_type_parameter
      /\ z.alarms = x.alarms /\ z.handle = x.handle /\ z.out = x.out
  BY <1>2, MessageOfPDO
<1>4. y = WithOut(z, Append(z.out, pdo))
  BY <1>1, <1>3, SendIs DEF pdo
<1> HIDE DEF z
<1>5. Tidy(z)
  BY <1>3 DEF OnlyPDO
<1>6. /\ OnlyPDO(z, y, p) /\ Sends(y, p)
      /\ y.transmit_type_parameter = z.transmit_type_parameter
      /\ y.last_message = z.last_message /\ y.alarms = z.alarms /\ y.handle = z.handle
  BY <1>2, <1>4, <1>5, OutOfPDO
<1> QED BY <1>3, <1>6, OnlyPDOTwice DEF pdo

-----------------------------------------------------------------------------
(***************************************************************************)
(* sendOnePDOevent and the alarms of a PDO.                                *)
(***************************************************************************)
\* A flag is set or cleared.
LEMMA FlagOfPDO ==
  ASSUME NEW x, Tidy(x), NEW p \in TPDOs
  PROVE  /\ OnlyPDO(x, SetFlag(x, p), p) /\ Flagged(SetFlag(x, p), p)
         /\ SetFlag(x, p).alarms = x.alarms /\ SetFlag(x, p).handle = x.handle
         /\ SetFlag(x, p).last_message = x.last_message /\ SetFlag(x, p).out = x.out
         /\ OnlyPDO(x, ClearFlag(x, p), p) /\ ~Flagged(ClearFlag(x, p), p)
         /\ ClearFlag(x, p).transmit_type_parameter[p] <= x.transmit_type_parameter[p]
         /\ ClearFlag(x, p).alarms = x.alarms /\ ClearFlag(x, p).handle = x.handle
         /\ ClearFlag(x, p).last_message = x.last_message /\ ClearFlag(x, p).out = x.out
<1> DEFINE count == x.transmit_type_parameter[p]
           up == IF count % 2 = 1 THEN count ELSE count + 1
           down == IF count % 2 = 1 THEN count - 1 ELSE count
<1>1. count \in Nat
  BY FieldsOfProducer DEF Tidy
<1>2. up \in Nat /\ up % 2 = 1 /\ down \in Nat /\ down % 2 # 1 /\ down <= count
  BY <1>1, FlagIsSet
<1>3. SetFlag(x, p) = [x EXCEPT !.transmit_type_parameter[p] = up]
  BY DEF SetFlag, Flagged
<1>4. ClearFlag(x, p) = [x EXCEPT !.transmit_type_parameter[p] = down]
  BY DEF ClearFlag, Flagged
<1> HIDE DEF up, down, count
<1>5. /\ OnlyPDO(x, SetFlag(x, p), p)
      /\ SetFlag(x, p).transmit_type_parameter[p] = up
      /\ SetFlag(x, p).alarms = x.alarms /\ SetFlag(x, p).handle = x.handle
      /\ SetFlag(x, p).last_message = x.last_message /\ SetFlag(x, p).out = x.out
  BY <1>2, <1>3, CountOfPDO
<1>6. /\ OnlyPDO(x, ClearFlag(x, p), p)
      /\ ClearFlag(x, p).transmit_type_parameter[p] = down
      /\ ClearFlag(x, p).alarms = x.alarms /\ ClearFlag(x, p).handle = x.handle
      /\ ClearFlag(x, p).last_message = x.last_message /\ ClearFlag(x, p).out = x.out
  BY <1>2, <1>4, CountOfPDO
<1> QED BY <1>2, <1>5, <1>6 DEF Flagged, count

\* The event timer is started again.
LEMMA EventTimerStarts ==
  ASSUME NEW x, Tidy(x), NEW p \in TPDOs, NEW y, y = StartEventTimer(x, p)
  PROVE  /\ OnlyPDO(x, y, p)
         /\ x.event[p] # 0 => y.handle[Event(p)] # TIMER_NONE
         /\ SameTimer(x, y, Inhibit(p))
         /\ y.transmit_type_parameter = x.transmit_type_parameter
         /\ y.last_message = x.last_message /\ y.out = x.out
<1>1. CASE x.event[p] = 0
  <2>1. y = x
    BY <1>1 DEF StartEventTimer
  <2> QED BY <1>1, <2>1, OnlyPDONothing DEF SameTimer, SameAlarm
<1>2. CASE x.event[p] # 0
  <2> DEFINE z == Del(x, Event(p))
  <2>1. y = Set(z, Event(p), x.event[p], 0)
    BY <1>2 DEF StartEventTimer
  <2>2. x.event[p] \in Nat
    BY FieldsOfProducer DEF Tidy
  <2>3. Event(p) \in {Event(p), Inhibit(p)} /\ Inhibit(p) \in AlarmNames \ {Event(p)}
    BY NamesDiffer
  <2> HIDE DEF z
  <2>4. /\ OnlyPDO(x, z, p) /\ z.handle[Event(p)] = TIMER_NONE
        /\ SameTimer(x, z, Inhibit(p))
        /\ z.transmit_type_parameter = x.transmit_type_parameter
        /\ z.last_message = x.last_message /\ z.out = x.out
    BY <2>3, DelTimer DEF z
  <2>5. Tidy(z)
    BY <2>4 DEF OnlyPDO
  <2>6. /\ OnlyPDO(z, y, p) /\ y.handle[Event(p)] # TIMER_NONE
        /\ SameTimer(z, y, Inhibit(p))
        /\ y.transmit_type_parameter = z.transmit_type_parameter
        /\ y.last_message = z.last_message /\ y.out = z.out
    BY <2>1, <2>2, <2>3, <2>4, <2>5, SetTimer
  <2>7. OnlyPDO(x, y, p)
    BY <2>4, <2>6, OnlyPDOTwice
  <2>8. SameTimer(x, y, Inhibit(p))
    BY <2>4, <2>6 DEF SameTimer, SameAlarm
  <2> QED BY <2>4, <2>6, <2>7, <2>8
<1> QED BY <1>1, <1>2

\* The inhibit timer is started again, with the flag.
LEMMA InhibitTimerStarts ==
  ASSUME NEW x, Tidy(x), NEW p \in TPDOs, NEW y, y = StartInhibitTimer(x, p)
  PROVE  /\ OnlyPDO(x, y, p)
         /\ x.inhibit[p] # 0 => /\ Flagged(y, p)
                                /\ y.handle[Inhibit(p)] # TIMER_NONE
                                /\ y.alarms[y.handle[Inhibit(p)]].left = x.inhibit[p]
         /\ x.inhibit[p] = 0 => y = x
         /\ SameTimer(x, y, Event(p))
         /\ y.last_message = x.last_message /\ y.out = x.out
<1>1. CASE x.inhibit[p] = 0
  <2>1. y = x
    BY <1>1 DEF StartInhibitTimer
  <2> QED BY <1>1, <2>1, OnlyPDONothing DEF SameTimer, SameAlarm
<1>2. CASE x.inhibit[p] # 0
  <2> DEFINE z == Del(x, Inhibit(p))
             w == Set(z, Inhibit(p), x.inhibit[p], 0)
  <2>1. y = SetFlag(w, p)
    BY <1>2 DEF StartInhibitTimer
  <2>2. x.inhibit[p] \in Nat
    BY FieldsOfProducer, ProcessDataAssumption DEF Tidy
  <2>3. Inhibit(p) \in {Event(p), Inhibit(p)} /\ Event(p) \in AlarmNames \ {Inhibit(p)}
    BY NamesDiffer
  <2> HIDE DEF w
  <2>4. /\ OnlyPDO(x, z, p) /\ z.handle[Inhibit(p)] = TIMER_NONE
        /\ SameTimer(x, z, Event(p))
        /\ z.last_message = x.last_message /\ z.out = x.out
    <3> HIDE DEF z
    <3> QED BY <2>3, DelTimer DEF z
  <2>5. w = Set(z, Inhibit(p), x.inhibit[p], 0)
    BY DEF w
  <2> HIDE DEF z
  <2>6. Tidy(z)
    BY <2>4 DEF OnlyPDO
  <2>7. /\ OnlyPDO(z, w, p) /\ w.handle[Inhibit(p)] # TIMER_NONE
        /\ w.alarms[w.handle[Inhibit(p)]].left = x.inhibit[p]
        /\ SameTimer(z, w, Event(p))
        /\ w.last_message = z.last_message /\ w.out = z.out
    BY <2>2, <2>3, <2>4, <2>5, <2>6, SetTimer
  <2>8. Tidy(w)
    BY <2>7 DEF OnlyPDO
  <2>9. /\ OnlyPDO(w, y, p) /\ Flagged(y, p) /\ y.alarms = w.alarms /\ y.handle = w.handle
        /\ y.last_message = w.last_message /\ y.out = w.out
    BY <2>1, <2>8, FlagOfPDO
  <2>10. OnlyPDO(x, y, p)
    BY <2>4, <2>7, <2>9, OnlyPDOTwice
  <2>11. SameTimer(x, y, Event(p))
    BY <2>4, <2>7, <2>9 DEF SameTimer, SameAlarm
  <2> QED BY <1>2, <2>4, <2>7, <2>9, <2>10, <2>11
<1> QED BY <1>1, <1>2

\* A PDO without inhibit time counts up to its type.
CountsUp(x, p) ==
  Cyclic(x, p) /\ x.inhibit[p] = 0 => x.transmit_type_parameter[p] < x.type[p]

Unbuildable(x, p) == p \notin Buildable => x.handle[Inhibit(p)] = TIMER_NONE

Refused(x, p) ==
  ~x.csPDO \/ Flagged(x, p) \/ p \notin Buildable \/ x.last_message[p] = buildPDO(x, p)

\* A PDO that is sent because of an event has its timers, whatever was before.
LEMMA SendOneEvent ==
  ASSUME NEW x, Tidy(x), NEW p \in TPDOs, CountsUp(x, p), Unbuildable(x, p),
         NEW y, y = sendOnePDOevent(x, p)
  PROVE  \/ y = x /\ Refused(x, p)
         \/ /\ OnlyPDO(x, y, p) /\ InOrder(y, p, 0) /\ Sends(y, p)
            /\ ~Flagged(x, p) /\ p \in Buildable
<1>1. CASE Refused(x, p)
  BY <1>1 DEF sendOnePDOevent, Refused
<1>2. CASE ~Refused(x, p)
  <2> DEFINE z == StartEventTimer(x, p)
             w == StartInhibitTimer(z, p)
  <2>1. y = sendPdo(w, p, buildPDO(x, p))
    BY <1>2 DEF sendOnePDOevent, Refused
  <2>2. x.csPDO /\ ~Flagged(x, p) /\ p \in Buildable
    BY <1>2 DEF Refused
  <2> HIDE DEF w
  <2>3. /\ OnlyPDO(x, z, p)
        /\ x.event[p] # 0 => z.handle[Event(p)] # TIMER_NONE
        /\ z.transmit_type_parameter = x.transmit_type_parameter
    <3> HIDE DEF z
    <3> QED BY EventTimerStarts DEF z
  <2>4. w = StartInhibitTimer(z, p)
    BY DEF w
  <2> HIDE DEF z
  <2>5. Tidy(z) /\ SameSettings(x, z)
    BY <2>3 DEF OnlyPDO
  <2>6. /\ OnlyPDO(z, w, p)
        /\ z.inhibit[p] # 0 => /\ Flagged(w, p)
                               /\ w.handle[Inhibit(p)] # TIMER_NONE
                               /\ w.alarms[w.handle[Inhibit(p)]].left = z.inhibit[p]
        /\ z.inhibit[p] = 0 => w = z
        /\ SameTimer(z, w, Event(p))
    BY <2>4, <2>5, InhibitTimerStarts
  <2>7. Tidy(w) /\ SameSettings(z, w)
    BY <2>6 DEF OnlyPDO
  <2>8. buildPDO(w, p) = buildPDO(x, p)
    BY <2>5, <2>7 DEF buildPDO, SameSettings
  <2>9. /\ OnlyPDO(w, y, p) /\ Sends(y, p) /\ y.last_message[p] = buildPDO(w, p)
        /\ y.transmit_type_parameter = w.transmit_type_parameter
        /\ y.alarms = w.alarms /\ y.handle = w.handle
    BY <2>1, <2>7, <2>8, SendOfPDO
  <2>10. OnlyPDO(x, y, p)
    BY <2>3, <2>6, <2>9, OnlyPDOTwice
  <2>11. /\ y.type = x.type /\ y.inhibit = x.inhibit /\ y.event = x.event
         /\ z.inhibit = x.inhibit
    BY <2>5, <2>10 DEF OnlyPDO, SameSettings
  <2>12. y.last_message[p].cob_id = p
    BY <2>7, <2>9, BuiltIsAFrame DEF Tidy
  <2>13. NotStuck(y, p)
    <3>1. CASE x.inhibit[p] = 0
      <4>1. y.transmit_type_parameter = x.transmit_type_parameter
        BY <2>3, <2>6, <2>9, <2>11, <3>1
      <4> QED BY <2>2, <2>11, <4>1 DEF NotStuck, CountsUp, Cyclic, Flagged
    <3>2. CASE x.inhibit[p] # 0
      BY <2>6, <2>9, <2>11, <3>2 DEF NotStuck
    <3> QED BY <3>1, <3>2
  <2>14. TimerGoesOn(y, p, 0)
    BY <2>3, <2>6, <2>9, <2>11 DEF TimerGoesOn, SameTimer, SameAlarm
  <2>15. Inhibited(y, p, 0)
    <3>1. ASSUME 0 < y.inhibit[p]
          PROVE  /\ Flagged(y, p) /\ y.handle[Inhibit(p)] # TIMER_NONE
                 /\ y.alarms[y.handle[Inhibit(p)]].left = y.inhibit[p]
      BY <2>6, <2>9, <2>11, <3>1 DEF Flagged
    <3>2. y.inhibit[p] \in Nat
      BY <2>10, FieldsOfProducer, ProcessDataAssumption DEF OnlyPDO, Tidy
    <3> HIDE DEF Flagged
    <3> QED BY <2>2, <3>1, <3>2 DEF Inhibited
  <2> QED BY <2>2, <2>9, <2>10, <2>12, <2>13, <2>14, <2>15 DEF InOrder
<1> QED BY <1>1, <1>2

\* The content of a PDO is no frame without COB-id.
LEMMA MarkedDiffers ==
  ASSUME NEW x \in Producers, NEW p \in TPDOs, x.last_message[p].cob_id = NoCobId
  PROVE  x.last_message[p] # buildPDO(x, p)
BY BuiltIsAFrame, TPDOsAreNumbers

(***************************************************************************)
(* An event timer that expires, a request or a write: the PDO is sent at   *)
(* once or as soon as its inhibition ends.                                 *)
(***************************************************************************)
LEMMA ForcedSend ==
  ASSUME NEW x, Tidy(x), NEW p \in TPDOs, x.csPDO,
         CountsUp(x, p), Unbuildable(x, p), NEW s,
         Flagged(x, p) => NotStuck(x, p) /\ Inhibited(x, p, s),
         NEW z, OnlyPDO(x, z, p), z.last_message[p].cob_id = NoCobId,
         z.transmit_type_parameter = x.transmit_type_parameter, z.out = x.out,
         SameTimer(x, z, Inhibit(p)),
         NEW y, y = sendOnePDOevent(z, p)
  PROVE  /\ OnlyPDO(x, y, p)
         /\ \/ InOrder(y, p, s) /\ (Sends(y, p) <=> Sends(x, p))
            \/ InOrder(y, p, 0) /\ Sends(y, p)
<1>1. /\ Tidy(z) /\ z.csPDO /\ z.type = x.type /\ z.inhibit = x.inhibit
      /\ z.event = x.event /\ z.handle[Inhibit(p)] = x.handle[Inhibit(p)]
  BY DEF OnlyPDO, SameSettings, SameTimer, SameAlarm
<1>2. CountsUp(z, p) /\ Unbuildable(z, p) /\ (Flagged(z, p) <=> Flagged(x, p))
  BY <1>1 DEF CountsUp, Unbuildable, Cyclic, Flagged
<1>3. z.last_message[p] # buildPDO(z, p)
  BY <1>1, MarkedDiffers DEF Tidy
<1>4. CASE y = z /\ Refused(z, p)
  <2>1. Flagged(z, p) \/ p \notin Buildable
    BY <1>1, <1>3, <1>4 DEF Refused
  <2>2. NotStuck(y, p)
    <3>1. CASE Flagged(x, p)
      BY <1>1, <1>2, <1>4, <3>1 DEF NotStuck, OnEvent, Cyclic
    <3>2. CASE ~Flagged(x, p)
      BY <1>2, <1>4, <3>2 DEF NotStuck, CountsUp
    <3> QED BY <3>1, <3>2
  <2>3. TimerGoesOn(y, p, s)
    BY <1>4, <2>1 DEF TimerGoesOn
  <2>4. Inhibited(y, p, s)
    <3>1. CASE Flagged(x, p)
      BY <1>1, <1>2, <1>4, <3>1 DEF Inhibited, OnEvent, SameTimer, SameAlarm
    <3>2. CASE ~Flagged(x, p)
      BY <1>2, <1>4, <2>1, <3>2 DEF Inhibited, Unbuildable
    <3> QED BY <3>1, <3>2
  <2>5. Sends(y, p) <=> Sends(x, p)
    BY <1>4 DEF Sends
  <2> QED BY <1>4, <2>2, <2>3, <2>4, <2>5 DEF InOrder
<1>5. CASE OnlyPDO(z, y, p) /\ InOrder(y, p, 0) /\ Sends(y, p)
  BY <1>5, OnlyPDOTwice
<1> QED BY <1>1, <1>2, <1>4, <1>5, SendOneEvent

\* PDOEventTimerAlarm from an operation that left the timer without handle.
LEMMA EventAlarmForces ==
  ASSUME NEW x, Tidy(x), NEW p \in TPDOs, x.csPDO, x.handle[Event(p)] = TIMER_NONE,
         CountsUp(x, p), Unbuildable(x, p), NEW s,
         Flagged(x, p) => NotStuck(x, p) /\ Inhibited(x, p, s),
         NEW y, y = PDOEventTimerAlarm(x, p)
  PROVE  /\ OnlyPDO(x, y, p)
         /\ \/ InOrder(y, p, s) /\ (Sends(y, p) <=> Sends(x, p))
            \/ InOrder(y, p, 0) /\ Sends(y, p)
<1> DEFINE pdo == [x.last_message[p] EXCEPT !.cob_id = NoCobId]
           z == WithMessages(x, [x.last_message EXCEPT ![p] = pdo])
<1>1. x \in Producers /\ x.handle \in [AlarmNames -> Handles] /\ Event(p) \in AlarmNames
  BY FieldsOfProducer, NamesDiffer DEF Tidy
<1>2. [x EXCEPT !.handle[Event(p)] = TIMER_NONE, !.last_message[p].cob_id = NoCobId] = z
  <2>1. [x.handle EXCEPT ![Event(p)] = TIMER_NONE] = x.handle
    BY <1>1
  <2>2. WithHandle(x, x.handle) = x
    BY <1>1 DEF WithHandle, Producers
  <2>3. [x EXCEPT !.handle[Event(p)] = TIMER_NONE, !.last_message[p].cob_id = NoCobId]
          = WithMessages(WithHandle(x, [x.handle EXCEPT ![Event(p)] = TIMER_NONE]),
                         [x.last_message EXCEPT ![p] = pdo])
    BY <1>1 DEF WithMessages, WithHandle, Producers
  <2> QED BY <2>1, <2>2, <2>3
<1>3. pdo \in Frames /\ pdo.cob_id = NoCobId
  BY <1>1, MarkedIsAFrame, TPDOsAreNumbers
<1> HIDE DEF pdo
<1>4. /\ OnlyPDO(x, z, p) /\ z.last_message[p] = pdo
      /\ z.transmit_type_parameter = x.transmit_type_parameter
      /\ z.alarms = x.alarms /\ z.handle = x.handle /\ z.out = x.out
  BY <1>3, MessageOfPDO
<1>5. y = sendOnePDOevent(z, p)
  BY <1>2 DEF PDOEventTimerAlarm
<1> HIDE DEF z
<1>6. SameTimer(x, z, Inhibit(p))
  BY <1>4 DEF SameTimer, SameAlarm
<1> QED BY <1>3, <1>4, <1>5, <1>6, ForcedSend

-----------------------------------------------------------------------------
(***************************************************************************)
(* All PDOs.  In a step, since counts from the frames that are sent.       *)
(***************************************************************************)
SinceIn(x, s, p) == IF Sends(x, p) THEN 0 ELSE s[p]

AllInOrder(x, s) ==
  /\ Tidy(x)
  /\ \A p \in TPDOs : InOrder(x, p, SinceIn(x, s, p))

\* An operation that leaves its PDO in order leaves all in order.
LEMMA OneInOrder ==
  ASSUME NEW x, NEW s, AllInOrder(x, s), NEW p \in TPDOs, NEW y, OnlyPDO(x, y, p),
         InOrder(y, p, SinceIn(y, s, p))
  PROVE  AllInOrder(y, s)
<1>1. ASSUME NEW q \in TPDOs, q # p PROVE InOrder(y, q, SinceIn(y, s, q))
  <2>1. Untouched(x, y, q)
    BY <1>1 DEF OnlyPDO
  <2>2. SinceIn(y, s, q) = SinceIn(x, s, q)
    BY <2>1 DEF SinceIn, Untouched
  <2> QED BY <2>1, <2>2, UntouchedInOrder DEF AllInOrder
<1> QED BY <1>1 DEF AllInOrder, OnlyPDO

\* What operations rely on.
LEMMA InOrderGives ==
  ASSUME NEW x, NEW p, NEW s, InOrder(x, p, s)
  PROVE  CountsUp(x, p) /\ Unbuildable(x, p)
BY DEF InOrder, NotStuck, Inhibited, CountsUp, Unbuildable

\* A PDO on event is sent or not.
LEMMA SendOneInOrder ==
  ASSUME NEW x, NEW s, AllInOrder(x, s), NEW p \in TPDOs,
         NEW y, y = sendOnePDOevent(x, p)
  PROVE  AllInOrder(y, s) /\ OnlyPDO(x, y, p)
<1>1. Tidy(x) /\ InOrder(x, p, SinceIn(x, s, p))
  BY DEF AllInOrder
<1>2. CountsUp(x, p) /\ Unbuildable(x, p)
  BY <1>1, InOrderGives
<1>3. CASE y = x
  BY <1>1, <1>3, OnlyPDONothing
<1>4. CASE OnlyPDO(x, y, p) /\ InOrder(y, p, 0) /\ Sends(y, p)
  <2>1. SinceIn(y, s, p) = 0
    BY <1>4 DEF SinceIn
  <2> QED BY <1>4, <2>1, OneInOrder
<1> QED BY <1>1, <1>2, <1>3, <1>4, SendOneEvent

\* A PDO that is neither cyclic nor on event has no more to keep.
LEMMA OthersInOrder ==
  ASSUME NEW x, NEW p \in TPDOs, NEW s, InOrder(x, p, s), NEW y, OnlyPDO(x, y, p),
         ~OnEvent(x, p), ~Cyclic(x, p),
         SameTimer(x, y, Inhibit(p)),
         y.last_message[p].cob_id \in {p, NoCobId}, NEW s2
  PROVE  InOrder(y, p, s2)
<1>1. ~OnEvent(y, p) /\ ~Cyclic(y, p)
  BY DEF OnlyPDO, SameSettings, OnEvent, Cyclic
<1>2. Unbuildable(y, p)
  BY InOrderGives DEF Unbuildable, SameTimer, SameAlarm
<1> QED BY <1>1, <1>2 DEF InOrder, NotStuck, TimerGoesOn, Inhibited, Unbuildable

\* A SYNC is counted, and sends a PDO when its count is reached.
LEMMA CyclicSyncInOrder ==
  ASSUME NEW x, NEW s, AllInOrder(x, s), NEW p \in TPDOs, Cyclic(x, p),
         NEW y, y = CyclicSync(x, p)
  PROVE  AllInOrder(y, s) /\ OnlyPDO(x, y, p)
<1> DEFINE before == x.transmit_type_parameter[p]
           count == (before + 1) % (MaxUNS8 + 1)
           counted == [x EXCEPT !.transmit_type_parameter[p] = count]
           reset == [x EXCEPT !.transmit_type_parameter[p] = 0]
<1>1. Tidy(x) /\ InOrder(x, p, SinceIn(x, s, p))
  BY DEF AllInOrder
<1>2. before \in Nat /\ x.type[p] \in Nat /\ x.type[p] > 0
  <2>1. x.transmit_type_parameter \in [TPDOs -> Nat] /\ x.type \in [TPDOs -> Nat]
    BY <1>1, FieldsOfProducer DEF Tidy
  <2>2. x.type[p] \in 1 .. 240
    BY DEF Cyclic, TRANS_SYNC_MIN, TRANS_SYNC_MAX
  <2> HIDE DEF counted, reset, count
  <2> QED BY <2>1, <2>2
<1>3. count \in Nat /\ count <= before + 1
  <2> HIDE DEF before
  <2> QED BY <1>2, PDOAssumption
<1>4. y = IF count # x.type[p] THEN counted
          ELSE IF p \in Buildable THEN sendPdo(reset, p, buildPDO(x, p)) ELSE reset
  BY DEF CyclicSync
<1> HIDE DEF count
<1>5. /\ OnlyPDO(x, counted, p) /\ counted.transmit_type_parameter[p] = count
      /\ counted.alarms = x.alarms /\ counted.handle = x.handle
      /\ counted.last_message = x.last_message
  <2> HIDE DEF counted
  <2> QED BY <1>1, <1>3, CountOfPDO DEF counted
<1>6. /\ OnlyPDO(x, reset, p) /\ reset.transmit_type_parameter[p] = 0
      /\ reset.alarms = x.alarms /\ reset.handle = x.handle
      /\ reset.last_message = x.last_message
  <2>1. 0 \in Nat
    OBVIOUS
  <2> HIDE DEF reset
  <2> QED BY <1>1, <2>1, CountOfPDO DEF reset
<1> HIDE DEF counted, reset
\* Of all three outcomes.
<1>7. ASSUME NEW z, OnlyPDO(x, z, p), z.alarms = x.alarms, z.handle = x.handle,
             z.last_message[p].cob_id \in {p, NoCobId},
             x.inhibit[p] = 0 => z.transmit_type_parameter[p] < x.type[p], NEW s2
      PROVE  InOrder(z, p, s2)
  <2>1. Cyclic(z, p) /\ z.type = x.type /\ z.inhibit = x.inhibit
    BY <1>7 DEF OnlyPDO, SameSettings, Cyclic
  <2>2. ~OnEvent(z, p)
    BY <2>1, TypesDiffer
  <2>3. Unbuildable(z, p)
    BY <1>1, <1>7, InOrderGives DEF Unbuildable
  <2> QED BY <1>7, <2>1, <2>2, <2>3 DEF InOrder, NotStuck, TimerGoesOn, Inhibited, Unbuildable
<1>8. CASE count # x.type[p]
  <2>1. y = counted
    BY <1>4, <1>8
  <2>2. ASSUME x.inhibit[p] = 0 PROVE count < x.type[p]
    <3>1. before < x.type[p]
      BY <1>1, <2>2, InOrderGives DEF CountsUp
    <3> HIDE DEF before
    <3> QED BY <1>2, <1>3, <1>8, <3>1
  <2>3. InOrder(y, p, SinceIn(y, s, p))
    BY <1>1, <1>5, <1>7, <2>1, <2>2 DEF InOrder
  <2> QED BY <1>5, <2>1, <2>3, OneInOrder
<1>9. CASE count = x.type[p] /\ p \in Buildable
  <2>1. y = sendPdo(reset, p, buildPDO(x, p))
    BY <1>4, <1>9
  <2>2. buildPDO(reset, p) = buildPDO(x, p) /\ Tidy(reset)
    BY <1>6 DEF buildPDO, OnlyPDO, SameSettings
  <2>3. /\ OnlyPDO(reset, y, p) /\ y.last_message[p] = buildPDO(reset, p)
        /\ y.transmit_type_parameter = reset.transmit_type_parameter
        /\ y.alarms = reset.alarms /\ y.handle = reset.handle
    BY <2>1, <2>2, SendOfPDO
  <2>4. OnlyPDO(x, y, p)
    BY <1>6, <2>3, OnlyPDOTwice
  <2>5. y.last_message[p].cob_id = p
    BY <1>1, <2>2, <2>3, BuiltIsAFrame DEF Tidy
  <2>6. InOrder(y, p, SinceIn(y, s, p))
    BY <1>2, <1>6, <1>7, <2>3, <2>4, <2>5
  <2> QED BY <2>4, <2>6, OneInOrder
<1>10. CASE count = x.type[p] /\ p \notin Buildable
  <2>1. y = reset
    BY <1>4, <1>10
  <2>2. InOrder(y, p, SinceIn(y, s, p))
    BY <1>1, <1>2, <1>6, <1>7, <2>1 DEF InOrder
  <2> QED BY <1>6, <2>1, <2>2, OneInOrder
<1> QED BY <1>8, <1>9, <1>10

\* The data of an RTR_SYNC PDO are sampled.
LEMMA SampleInOrder ==
  ASSUME NEW x, NEW s, AllInOrder(x, s), NEW p \in TPDOs, x.type[p] = TRANS_RTR_SYNC,
         NEW y, y = Sample(x, p)
  PROVE  AllInOrder(y, s) /\ OnlyPDO(x, y, p)
<1> DEFINE pdo == IF p \in Buildable THEN buildPDO(x, p)
                  ELSE [x.last_message[p] EXCEPT !.cob_id = p]
           z == WithMessages(x, [x.last_message EXCEPT ![p] = pdo])
<1>1. Tidy(x) /\ x \in Producers /\ InOrder(x, p, SinceIn(x, s, p))
  BY DEF AllInOrder, Tidy
<1>2. pdo \in Frames /\ pdo.cob_id = p
  BY <1>1, BuiltIsAFrame, MarkedIsAFrame, TPDOsAreNumbers
<1>3. y = IF p \in Buildable THEN SetFlag(z, p) ELSE ClearFlag(z, p)
  BY <1>1 DEF Sample, WithMessages, Producers
<1> HIDE DEF pdo
<1>4. /\ OnlyPDO(x, z, p) /\ z.last_message[p] = pdo /\ z.handle = x.handle
      /\ z.alarms = x.alarms
  BY <1>1, <1>2, MessageOfPDO
<1> HIDE DEF z
<1>5. Tidy(z)
  BY <1>4 DEF OnlyPDO
<1>6. /\ OnlyPDO(z, y, p) /\ y.last_message = z.last_message /\ y.handle = z.handle
      /\ y.alarms = z.alarms
  BY <1>3, <1>5, FlagOfPDO
<1>7. OnlyPDO(x, y, p)
  BY <1>4, <1>6, OnlyPDOTwice
<1>8. SameTimer(x, y, Inhibit(p)) /\ y.last_message[p].cob_id \in {p, NoCobId}
  BY <1>2, <1>4, <1>6 DEF SameTimer, SameAlarm
<1>9. ~OnEvent(x, p) /\ ~Cyclic(x, p)
  BY TypesDiffer
<1>10. InOrder(y, p, SinceIn(y, s, p))
  BY <1>1, <1>7, <1>8, <1>9, OthersInOrder
<1> QED BY <1>7, <1>10, OneInOrder

\* One PDO at a SYNC or an event.
LEMMA OnePDOInOrder ==
  ASSUME NEW x, NEW s, AllInOrder(x, s), NEW p \in TPDOs, NEW isSyncEvent,
         NEW y, y = OnePDO(x, p, isSyncEvent)
  PROVE  AllInOrder(y, s) /\ OnlyPDO(x, y, p)
<1>1. OnlyPDO(x, x, p)
  BY OnlyPDONothing DEF AllInOrder
<1>2. CASE y = x
  BY <1>1, <1>2
<1>3. CASE y = sendOnePDOevent(x, p)
  BY <1>3, SendOneInOrder
<1>4. CASE Cyclic(x, p) /\ y = CyclicSync(x, p)
  BY <1>4, CyclicSyncInOrder
<1>5. CASE x.type[p] = TRANS_RTR_SYNC /\ y = Sample(x, p)
  BY <1>5, SampleInOrder
<1>6. \/ y = x \/ y = sendOnePDOevent(x, p)
      \/ Cyclic(x, p) /\ y = CyclicSync(x, p)
      \/ x.type[p] = TRANS_RTR_SYNC /\ y = Sample(x, p)
  BY Zenon DEF OnePDO, OnePDOAtSync, OnePDOAtEvent
<1> QED BY <1>2, <1>3, <1>4, <1>5, <1>6

-----------------------------------------------------------------------------
(***************************************************************************)
(* The loops over all PDOs.                                                *)
(***************************************************************************)
\* _sendPDOevent goes from PDO to PDO.
LEMMA LoopOfPDOs ==
  ASSUME NEW x, NEW isSyncEvent, x.csPDO
  PROVE  \E f : /\ f[0] = x
                /\ \A p \in TPDOs : f[p] = OnePDO(f[p - 1], p, isSyncEvent)
                /\ AllPDOs(x, isSyncEvent) = f[NbTPDO]
<1> DEFINE upTo[p \in 0 .. NbTPDO] ==
             IF p = 0 THEN x ELSE OnePDO(upTo[p - 1], p, isSyncEvent)
           T == {n \in 0 .. NbTPDO : \E g : g = [p \in 0 .. n |->
                   IF p = 0 THEN x ELSE OnePDO(g[p - 1], p, isSyncEvent)]}
<1>1. NbTPDO \in Nat
  BY PDOAssumption
<1>2. 0 \in T
  <2> DEFINE g == [p \in 0 .. 0 |-> x]
  <2>1. g = [p \in 0 .. 0 |-> IF p = 0 THEN x ELSE OnePDO(g[p - 1], p, isSyncEvent)]
    OBVIOUS
  <2> HIDE DEF g
  <2> QED BY <1>1, <2>1
<1>3. ASSUME NEW k \in 1 .. NbTPDO, k - 1 \in T PROVE k \in T
  <2>1. PICK g : g = [p \in 0 .. k - 1 |->
                        IF p = 0 THEN x ELSE OnePDO(g[p - 1], p, isSyncEvent)]
    BY <1>3
  <2> DEFINE h == [p \in 0 .. k |-> IF p = k THEN OnePDO(g[k - 1], k, isSyncEvent) ELSE g[p]]
  <2>2. ASSUME NEW p \in 0 .. k
        PROVE  h[p] = IF p = 0 THEN x ELSE OnePDO(h[p - 1], p, isSyncEvent)
    <3>1. CASE p = k
      BY <1>1, <3>1
    <3>2. CASE p # k
      <4>1. p \in 0 .. k - 1 /\ h[p] = g[p]
        BY <3>2
      <4>2. p # 0 => h[p - 1] = g[p - 1]
        BY <4>1
      <4> HIDE DEF h
      <4> QED BY <2>1, <4>1, <4>2
    <3> QED BY <3>1, <3>2
  <2>3. h = [p \in 0 .. k |-> h[p]]
    OBVIOUS
  <2> HIDE DEF h
  <2>4. h = [p \in 0 .. k |-> IF p = 0 THEN x ELSE OnePDO(h[p - 1], p, isSyncEvent)]
    BY <2>2, <2>3
  <2> QED BY <2>4
<1>4. NbTPDO \in T
  <2> HIDE DEF T
  <2> QED BY <1>1, <1>2, <1>3, LoopInduction
<1>5. \E g : g = [p \in 0 .. NbTPDO |->
                    IF p = 0 THEN x ELSE OnePDO(g[p - 1], p, isSyncEvent)]
  BY <1>4
<1>6. upTo = [p \in 0 .. NbTPDO |->
                IF p = 0 THEN x ELSE OnePDO(upTo[p - 1], p, isSyncEvent)]
  BY <1>5, Zenon
<1>7. AllPDOs(x, isSyncEvent) = upTo[NbTPDO]
  BY DEF AllPDOs
<1> HIDE DEF upTo
<1>8. upTo[0] = x
  BY <1>1, <1>6
<1>9. ASSUME NEW p \in TPDOs PROVE upTo[p] = OnePDO(upTo[p - 1], p, isSyncEvent)
  <2>1. p \in 0 .. NbTPDO /\ p # 0
    BY DEF TPDOs
  <2> QED BY <1>6, <2>1
<1> QED BY <1>7, <1>8, <1>9

\* PDOStop, too.
LEMMA LoopOfStop ==
  ASSUME NEW x
  PROVE  \E f : /\ f[0] = x
                /\ \A p \in TPDOs : f[p] = StopOnePDO(f[p - 1], p)
                /\ PDOStop(x) = f[NbTPDO]
<1> DEFINE upTo[p \in 0 .. NbTPDO] == IF p = 0 THEN x ELSE StopOnePDO(upTo[p - 1], p)
           T == {n \in 0 .. NbTPDO : \E g : g = [p \in 0 .. n |->
                   IF p = 0 THEN x ELSE StopOnePDO(g[p - 1], p)]}
<1>1. NbTPDO \in Nat
  BY PDOAssumption
<1>2. 0 \in T
  <2> DEFINE g == [p \in 0 .. 0 |-> x]
  <2>1. g = [p \in 0 .. 0 |-> IF p = 0 THEN x ELSE StopOnePDO(g[p - 1], p)]
    OBVIOUS
  <2> HIDE DEF g
  <2> QED BY <1>1, <2>1
<1>3. ASSUME NEW k \in 1 .. NbTPDO, k - 1 \in T PROVE k \in T
  <2>1. PICK g : g = [p \in 0 .. k - 1 |-> IF p = 0 THEN x ELSE StopOnePDO(g[p - 1], p)]
    BY <1>3
  <2> DEFINE h == [p \in 0 .. k |-> IF p = k THEN StopOnePDO(g[k - 1], k) ELSE g[p]]
  <2>2. ASSUME NEW p \in 0 .. k
        PROVE  h[p] = IF p = 0 THEN x ELSE StopOnePDO(h[p - 1], p)
    <3>1. CASE p = k
      BY <1>1, <3>1
    <3>2. CASE p # k
      <4>1. p \in 0 .. k - 1 /\ h[p] = g[p]
        BY <3>2
      <4>2. p # 0 => h[p - 1] = g[p - 1]
        BY <4>1
      <4> HIDE DEF h
      <4> QED BY <2>1, <4>1, <4>2
    <3> QED BY <3>1, <3>2
  <2>3. h = [p \in 0 .. k |-> h[p]]
    OBVIOUS
  <2> HIDE DEF h
  <2>4. h = [p \in 0 .. k |-> IF p = 0 THEN x ELSE StopOnePDO(h[p - 1], p)]
    BY <2>2, <2>3
  <2> QED BY <2>4
<1>4. NbTPDO \in T
  <2> HIDE DEF T
  <2> QED BY <1>1, <1>2, <1>3, LoopInduction
<1>5. \E g : g = [p \in 0 .. NbTPDO |-> IF p = 0 THEN x ELSE StopOnePDO(g[p - 1], p)]
  BY <1>4
<1>6. upTo = [p \in 0 .. NbTPDO |-> IF p = 0 THEN x ELSE StopOnePDO(upTo[p - 1], p)]
  BY <1>5, Zenon
<1>7. PDOStop(x) = upTo[NbTPDO]
  BY DEF PDOStop
<1> HIDE DEF upTo
<1>8. upTo[0] = x
  BY <1>1, <1>6
<1>9. ASSUME NEW p \in TPDOs PROVE upTo[p] = StopOnePDO(upTo[p - 1], p)
  <2>1. p \in 0 .. NbTPDO /\ p # 0
    BY DEF TPDOs
  <2> QED BY <1>6, <2>1
<1> QED BY <1>7, <1>8, <1>9

\* _sendPDOevent keeps all PDOs in order, and leaves SYNC alone.
LEMMA AllPDOsInOrder ==
  ASSUME NEW x, NEW s, AllInOrder(x, s), x.csPDO, NEW isSyncEvent,
         NEW y, y = AllPDOs(x, isSyncEvent)
  PROVE  AllInOrder(y, s) /\ SameSettings(x, y) /\ SameTimer(x, y, Sync)
<1>1. PICK f : /\ f[0] = x
               /\ \A p \in TPDOs : f[p] = OnePDO(f[p - 1], p, isSyncEvent)
               /\ AllPDOs(x, isSyncEvent) = f[NbTPDO]
  BY LoopOfPDOs
<1> DEFINE T == {k \in 0 .. NbTPDO : /\ AllInOrder(f[k], s)
                                     /\ SameSettings(x, f[k])
                                     /\ SameTimer(x, f[k], Sync)}
<1>2. NbTPDO \in Nat
  BY PDOAssumption
<1>3. 0 \in T
  <2>1. SameSettings(x, x) /\ SameTimer(x, x, Sync)
    BY DEF SameSettings, SameTimer, SameAlarm
  <2> QED BY <1>1, <1>2, <2>1
<1>4. ASSUME NEW k \in 1 .. NbTPDO, k - 1 \in T PROVE k \in T
  <2>1. k \in TPDOs /\ f[k] = OnePDO(f[k - 1], k, isSyncEvent)
    BY <1>1 DEF TPDOs
  <2>2. AllInOrder(f[k - 1], s) /\ SameSettings(x, f[k - 1]) /\ SameTimer(x, f[k - 1], Sync)
    BY <1>4
  <2>3. AllInOrder(f[k], s) /\ OnlyPDO(f[k - 1], f[k], k)
    BY <2>1, <2>2, OnePDOInOrder
  <2>4. SameSettings(x, f[k]) /\ SameTimer(x, f[k], Sync)
    BY <2>2, <2>3 DEF OnlyPDO, SameSettings, SameTimer, SameAlarm
  <2> QED BY <2>3, <2>4
<1>5. NbTPDO \in T
  <2> HIDE DEF T
  <2> QED BY <1>2, <1>3, <1>4, LoopInduction
<1> QED BY <1>1, <1>5

\* A PDO that may not be sent is not sent by an event.
LEMMA RefusedIsNotSent ==
  ASSUME NEW x, NEW s, AllInOrder(x, s), x.csPDO, NEW p \in TPDOs, OnEvent(x, p),
         Flagged(x, p) \/ p \notin Buildable
  PROVE  Sends(AllPDOs(x, 0), p) <=> Sends(x, p)
<1>1. PICK f : /\ f[0] = x
               /\ \A q \in TPDOs : f[q] = OnePDO(f[q - 1], q, 0)
               /\ AllPDOs(x, 0) = f[NbTPDO]
  BY LoopOfPDOs
<1> DEFINE T == {k \in 0 .. NbTPDO : AllInOrder(f[k], s) /\ Untouched(x, f[k], p)}
<1>2. NbTPDO \in Nat
  BY PDOAssumption
<1>3. 0 \in T
  <2>1. Untouched(x, x, p)
    BY DEF Untouched, SameTimer, SameAlarm
  <2> QED BY <1>1, <1>2, <2>1
<1>4. ASSUME NEW k \in 1 .. NbTPDO, k - 1 \in T PROVE k \in T
  <2> DEFINE y == f[k - 1]
             z == f[k]
  <2>1. k \in TPDOs /\ z = OnePDO(y, k, 0)
    BY <1>1 DEF TPDOs
  <2>2. AllInOrder(y, s) /\ Untouched(x, y, p)
    BY <1>4
  <2> HIDE DEF y, z
  <2>3. AllInOrder(z, s) /\ OnlyPDO(y, z, k)
    BY <2>1, <2>2, OnePDOInOrder
  <2>4. Untouched(x, z, p)
    <3>1. CASE k # p
      <4>1. Untouched(y, z, p)
        BY <2>3, <3>1 DEF OnlyPDO
      <4> QED BY <2>2, <4>1 DEF Untouched, SameTimer, SameAlarm
    <3>2. CASE k = p
      <4>1. Flagged(y, p) \/ p \notin Buildable
        BY <2>2 DEF Untouched, Flagged
      <4>2. sendOnePDOevent(y, p) = y
        BY <4>1 DEF sendOnePDOevent
      <4>3. z = OnePDOAtEvent(y, p)
        BY <2>1, <3>2 DEF OnePDO
      <4>4. z = y
        BY <4>2, <4>3 DEF OnePDOAtEvent
      <4> QED BY <2>2, <4>4
    <3> QED BY <3>1, <3>2
  <2> QED BY <2>3, <2>4 DEF z
<1>5. NbTPDO \in T
  <2> HIDE DEF T
  <2> QED BY <1>2, <1>3, <1>4, LoopInduction
<1> QED BY <1>1, <1>5 DEF Untouched

\* The timers of a PDO are deleted.
LEMMA TimersStop ==
  ASSUME NEW x, Tidy(x), NEW p \in TPDOs, NEW y, y = StopTimers(x, p)
  PROVE  /\ OnlyPDO(x, y, p)
         /\ y.handle[Event(p)] = TIMER_NONE /\ y.handle[Inhibit(p)] = TIMER_NONE
         /\ y.transmit_type_parameter = x.transmit_type_parameter
         /\ y.last_message = x.last_message /\ y.out = x.out
<1> DEFINE z == Del(x, Event(p))
<1>1. y = Del(z, Inhibit(p))
  BY DEF StopTimers
<1>2. /\ Event(p) \in {Event(p), Inhibit(p)} /\ Inhibit(p) \in {Event(p), Inhibit(p)}
      /\ Event(p) \in AlarmNames \ {Inhibit(p)}
  BY NamesDiffer
<1> HIDE DEF z
<1>3. /\ OnlyPDO(x, z, p) /\ z.handle[Event(p)] = TIMER_NONE
      /\ z.transmit_type_parameter = x.transmit_type_parameter
      /\ z.last_message = x.last_message /\ z.out = x.out
  BY <1>2, DelTimer DEF z
<1>4. Tidy(z)
  BY <1>3 DEF OnlyPDO
<1>5. /\ OnlyPDO(z, y, p) /\ y.handle[Inhibit(p)] = TIMER_NONE
      /\ SameTimer(z, y, Event(p))
      /\ y.transmit_type_parameter = z.transmit_type_parameter
      /\ y.last_message = z.last_message /\ y.out = z.out
  BY <1>1, <1>2, <1>4, DelTimer
<1>6. y.handle[Event(p)] = TIMER_NONE
  BY <1>3, <1>5 DEF SameTimer, SameAlarm
<1> QED BY <1>3, <1>5, <1>6, OnlyPDOTwice

\* The stop of one PDO.
LEMMA StopOneTurnsOff ==
  ASSUME NEW x, Tidy(x), NEW p \in TPDOs, NEW y, y = StopOnePDO(x, p)
  PROVE  OnlyPDO(x, y, p) /\ Off(y, p) /\ y.last_message[p].cob_id = NoCobId
<1> DEFINE z == StopTimers(x, p)
           w == [z EXCEPT !.transmit_type_parameter[p] = 0]
           pdo == [w.last_message[p] EXCEPT !.cob_id = NoCobId]
<1>1. /\ OnlyPDO(x, z, p) /\ z.handle[Event(p)] = TIMER_NONE
      /\ z.handle[Inhibit(p)] = TIMER_NONE
  <2> HIDE DEF z
  <2> QED BY TimersStop DEF z
<1>2. y = [z EXCEPT !.transmit_type_parameter[p] = 0, !.last_message[p].cob_id = NoCobId]
  BY DEF StopOnePDO
<1> HIDE DEF z
<1>3. Tidy(z) /\ z \in Producers
  BY <1>1 DEF OnlyPDO, Tidy
<1>4. y = WithMessages(w, [w.last_message EXCEPT ![p] = pdo])
  BY <1>2, <1>3 DEF WithMessages, Producers
<1> HIDE DEF pdo
<1>5. /\ OnlyPDO(z, w, p) /\ w.transmit_type_parameter[p] = 0
      /\ w.handle = z.handle
  <2>1. 0 \in Nat
    OBVIOUS
  <2> HIDE DEF w
  <2> QED BY <1>3, <2>1, CountOfPDO DEF w
<1> HIDE DEF w
<1>6. Tidy(w) /\ w \in Producers
  BY <1>5 DEF OnlyPDO, Tidy
<1>7. pdo \in Frames /\ pdo.cob_id = NoCobId
  BY <1>6, MarkedIsAFrame, TPDOsAreNumbers DEF pdo
<1>8. /\ OnlyPDO(w, y, p) /\ y.last_message[p] = pdo
      /\ y.transmit_type_parameter = w.transmit_type_parameter
      /\ y.handle = w.handle
  BY <1>4, <1>6, <1>7, MessageOfPDO
<1>9. OnlyPDO(x, y, p)
  BY <1>1, <1>5, <1>8, OnlyPDOTwice
<1> QED BY <1>1, <1>5, <1>7, <1>8, <1>9 DEF Off

\* PDOStop leaves no timer, flag or count behind.
LEMMA StopTurnsOff ==
  ASSUME NEW x, Tidy(x), NEW y, y = PDOStop(x)
  PROVE  /\ Tidy(y) /\ SameSettings(x, y) /\ SameTimer(x, y, Sync)
         /\ \A p \in TPDOs : Off(y, p) /\ y.last_message[p].cob_id = NoCobId
<1>1. PICK f : /\ f[0] = x
               /\ \A p \in TPDOs : f[p] = StopOnePDO(f[p - 1], p)
               /\ PDOStop(x) = f[NbTPDO]
  BY LoopOfStop
<1> DEFINE Stopping(k) == /\ Tidy(f[k])
                          /\ SameSettings(x, f[k])
                          /\ SameTimer(x, f[k], Sync)
                          /\ \A p \in 1 .. k : /\ Off(f[k], p)
                                               /\ f[k].last_message[p].cob_id = NoCobId
           T == {k \in 0 .. NbTPDO : Stopping(k)}
<1>2. NbTPDO \in Nat
  BY PDOAssumption
<1>3. 0 \in T
  <2>1. SameSettings(x, x) /\ SameTimer(x, x, Sync)
    BY DEF SameSettings, SameTimer, SameAlarm
  <2>2. \A p \in 1 .. 0 : FALSE
    OBVIOUS
  <2> QED BY <1>1, <1>2, <2>1, <2>2
<1>4. ASSUME NEW k \in 1 .. NbTPDO, k - 1 \in T PROVE k \in T
  <2>1. k \in TPDOs /\ f[k] = StopOnePDO(f[k - 1], k)
    BY <1>1 DEF TPDOs
  <2>2. Stopping(k - 1)
    BY <1>4
  <2>3. /\ OnlyPDO(f[k - 1], f[k], k) /\ Off(f[k], k)
        /\ f[k].last_message[k].cob_id = NoCobId
    BY <2>1, <2>2, StopOneTurnsOff
  <2>4. Tidy(f[k]) /\ SameSettings(x, f[k]) /\ SameTimer(x, f[k], Sync)
    BY <2>2, <2>3 DEF OnlyPDO, SameSettings, SameTimer, SameAlarm
  <2>5. ASSUME NEW p \in 1 .. k PROVE Off(f[k], p) /\ f[k].last_message[p].cob_id = NoCobId
    <3>1. CASE p = k
      BY <2>3, <3>1
    <3>2. CASE p # k
      <4>1. p \in 1 .. k - 1 /\ p \in TPDOs
        BY <1>2, <3>2 DEF TPDOs
      <4>2. Off(f[k - 1], p) /\ f[k - 1].last_message[p].cob_id = NoCobId
        BY <2>2, <4>1
      <4>3. Untouched(f[k - 1], f[k], p)
        BY <2>3, <3>2, <4>1 DEF OnlyPDO
      <4> QED BY <4>2, <4>3 DEF Untouched, Off, SameTimer, SameAlarm
    <3> QED BY <3>1, <3>2
  <2> QED BY <2>4, <2>5
<1>5. NbTPDO \in T
  <2> HIDE DEF T
  <2> QED BY <1>2, <1>3, <1>4, LoopInduction
<1> QED BY <1>1, <1>5 DEF TPDOs

-----------------------------------------------------------------------------
(***************************************************************************)
(* From the state an operation returns to the next state of the producer.  *)
(***************************************************************************)
PDOsInOrder(x, s) ==
  /\ x.csPDO => x.registered /\ \A p \in TPDOs : InOrder(x, p, SinceIn(x, s, p))
  /\ ~x.csPDO => \A p \in TPDOs : Off(x, p) /\ x.last_message[p].cob_id \in {p, NoCobId}

Good(x, s) == Tidy(x) /\ SyncInOrder(x) /\ PDOsInOrder(x, s)

\* The bound of since.
LEMMA BoundsAreNumbers ==
  /\ Longest \in Nat /\ Never \in Nat /\ Never = Longest + 1
  /\ \A time \in 0 .. Longest : time \in Nat /\ time < Never
<1>1. Longest \in Nat
  BY ProcessDataAssumption
<1> QED BY <1>1 DEF Never

\* A PDO that is off is in order.
LEMMA OffInOrder ==
  ASSUME NEW x \in Producers, NEW p \in TPDOs, Off(x, p),
         x.last_message[p].cob_id \in {p, NoCobId}
  PROVE  InOrder(x, p, Never)
<1>1. ~Flagged(x, p)
  BY DEF Off, Flagged
<1>2. Cyclic(x, p) => x.transmit_type_parameter[p] < x.type[p]
  BY DEF Off, Cyclic, TRANS_SYNC_MIN, TRANS_SYNC_MAX
<1>3. ~(Never < x.inhibit[p])
  <2>1. x.inhibit[p] \in 0 .. Longest
    BY FieldsOfProducer
  <2>2. x.inhibit[p] \in Nat /\ x.inhibit[p] < Never /\ Never \in Nat
    BY <2>1, BoundsAreNumbers
  <2> QED BY <2>2
<1> QED BY <1>1, <1>2, <1>3 DEF InOrder, NotStuck, TimerGoesOn, Inhibited, Off

\* SYNC is in order as long as nobody touches it.
LEMMA SyncStays ==
  ASSUME NEW x, SyncInOrder(x), NEW y, SameSettings(x, y), SameTimer(x, y, Sync)
  PROVE  SyncInOrder(y)
BY DEF SyncInOrder, SameSettings, SameTimer, SameAlarm

\* The frames are sent.
LEMMA BecomesKeeps ==
  ASSUME ProducerInvariant, NEW new, Good(new, since), Becomes(new)
  PROVE  ProducerInvariant'
<1> DEFINE y == WithOut(new, <<>>)
<1>1. d' = y
  BY DEF Becomes, WithOut
<1>2. since' = [p \in TPDOs |-> IF ~new.csPDO THEN Never
                                ELSE IF Sends(new, p) THEN 0 ELSE since[p]]
  BY DEF Becomes
<1>3. Tidy(new) /\ new \in Producers /\ SyncInOrder(new)
  BY DEF Good, Tidy
<1>4. <<>> \in Seq(Frames)
  OBVIOUS
<1>5. /\ y \in Producers /\ SameSettings(new, y)
      /\ y.alarms = new.alarms /\ y.handle = new.handle
      /\ y.transmit_type_parameter = new.transmit_type_parameter
      /\ y.last_message = new.last_message /\ y.out = <<>>
  <2> HIDE DEF y
  <2> QED BY <1>3, <1>4, OutSet DEF y
<1> HIDE DEF y
<1>6. Tidy(y)
  BY <1>3, <1>5 DEF Tidy, Periods
<1>7. SyncInOrder(y)
  BY <1>3, <1>5, SyncStays DEF SameTimer, SameAlarm
<1>8. since' \in [TPDOs -> 0 .. Never]
  <2>1. Never \in Nat /\ since \in [TPDOs -> 0 .. Never]
    BY BoundsAreNumbers DEF ProducerInvariant
  <2> QED BY <1>2, <2>1
<1>9. y.csPDO = new.csPDO /\ y.registered = new.registered
  BY <1>5 DEF SameSettings
\* The same per PDO.
<1>10. ASSUME NEW p \in TPDOs, NEW s, InOrder(new, p, s) PROVE InOrder(y, p, s)
  BY <1>5, <1>10 DEF InOrder, NotStuck, TimerGoesOn, Inhibited, OnEvent, Cyclic, Flagged,
                     SameSettings
<1>11. CASE new.csPDO
  <2>1. ASSUME NEW p \in TPDOs PROVE InOrder(y, p, since'[p])
    <3>1. since'[p] = SinceIn(new, since, p)
      BY <1>2, <1>11 DEF SinceIn
    <3> QED BY <1>10, <1>11, <3>1 DEF Good, PDOsInOrder
  <2>2. y.registered /\ y.csPDO
    BY <1>9, <1>11 DEF Good, PDOsInOrder
  <2> QED BY <1>1, <1>5, <1>6, <1>7, <1>8, <2>1, <2>2 DEF ProducerInvariant
<1>12. CASE ~new.csPDO
  <2>1. ASSUME NEW p \in TPDOs
        PROVE  Off(y, p) /\ since'[p] = Never /\ InOrder(y, p, since'[p])
    <3>1. Off(new, p) /\ new.last_message[p].cob_id \in {p, NoCobId}
      BY <1>12 DEF Good, PDOsInOrder
    <3>2. Off(y, p) /\ y.last_message[p].cob_id \in {p, NoCobId}
      BY <1>5, <3>1 DEF Off
    <3>3. since'[p] = Never
      BY <1>2, <1>12
    <3> QED BY <1>5, <3>2, <3>3, OffInOrder
  <2>2. ~y.csPDO
    BY <1>9, <1>12
  <2> QED BY <1>1, <1>5, <1>6, <1>7, <1>8, <2>1, <2>2 DEF ProducerInvariant
<1> QED BY <1>11, <1>12

\* What an operation starts from.
LEMMA InvariantIsGood ==
  ASSUME ProducerInvariant
  PROVE  /\ Good(d, since) /\ d \in Producers /\ d.out = <<>>
         /\ \A p \in TPDOs : ~Sends(d, p) /\ SinceIn(d, since, p) = since[p]
         /\ AllInOrder(d, since)
<1>1. ASSUME NEW p \in TPDOs PROVE ~Sends(d, p)
  <2>1. DOMAIN d.out = {}
    BY DEF ProducerInvariant
  <2> QED BY <2>1 DEF Sends
<1>2. \A p \in TPDOs : SinceIn(d, since, p) = since[p]
  BY <1>1 DEF SinceIn
<1>3. \A p \in TPDOs : InOrder(d, p, since[p])
  BY DEF ProducerInvariant
<1>4. PDOsInOrder(d, since)
  BY <1>2, <1>3 DEF ProducerInvariant, PDOsInOrder, InOrder
<1> QED BY <1>1, <1>2, <1>3, <1>4 DEF ProducerInvariant, Good, Tidy, AllInOrder

\* An operation on a good state that leaves SYNC and the settings alone.
LEMMA InOrderIsGood ==
  ASSUME NEW x, NEW s, Good(x, s), x.csPDO, NEW y,
         AllInOrder(y, s), SameSettings(x, y), SameTimer(x, y, Sync)
  PROVE  Good(y, s)
<1>1. SyncInOrder(y)
  BY SyncStays DEF Good
<1> QED BY <1>1 DEF Good, PDOsInOrder, AllInOrder, SameSettings

\* _sendPDOevent on a good state.
LEMMA AllPDOsGood ==
  ASSUME NEW x, NEW s, Good(x, s), NEW isSyncEvent
  PROVE  Good(AllPDOs(x, isSyncEvent), s)
<1>1. CASE x.csPDO
  <2>1. AllInOrder(x, s)
    BY <1>1 DEF Good, PDOsInOrder, AllInOrder
  <2> QED BY <1>1, <2>1, AllPDOsInOrder, InOrderIsGood
<1>2. CASE ~x.csPDO
  BY <1>2 DEF AllPDOs
<1> QED BY <1>1, <1>2

-----------------------------------------------------------------------------
(***************************************************************************)
(* The alarms.                                                             *)
(***************************************************************************)
\* The frame of SYNC.
LEMMA SyncMessageGood ==
  ASSUME NEW x, NEW s, Good(x, s)
  PROVE  Good(sendSYNCMessage(x), s)
<1> DEFINE frame == [cob_id |-> SYNC, value |-> NoValue]
           y == WithOut(x, Append(x.out, frame))
<1>1. sendSYNCMessage(x) = y
  BY DEF sendSYNCMessage, WithOut
<1>2. frame \in Frames /\ frame.cob_id = SYNC
  BY TPDOsAreNumbers DEF Frames
<1>3. x \in Producers /\ Tidy(x)
  BY DEF Good, Tidy
<1> HIDE DEF frame
<1>4. Append(x.out, frame) \in Seq(Frames)
  BY <1>2, <1>3, FieldsOfProducer
<1>5. /\ y \in Producers /\ SameSettings(x, y)
      /\ y.alarms = x.alarms /\ y.handle = x.handle
      /\ y.transmit_type_parameter = x.transmit_type_parameter
      /\ y.last_message = x.last_message /\ y.out = Append(x.out, frame)
  <2> HIDE DEF y
  <2> QED BY <1>3, <1>4, OutSet DEF y
<1> HIDE DEF y
<1>6. Tidy(y)
  BY <1>3, <1>5 DEF Tidy, Periods
<1>7. SyncInOrder(y)
  BY <1>5, SyncStays DEF Good, SameTimer, SameAlarm
<1>8. ASSUME NEW p \in TPDOs PROVE SinceIn(y, s, p) = SinceIn(x, s, p)
  <2>1. Sends(y, p) <=> Sends(x, p)
    BY <1>2, <1>3, <1>5, SendsOneMore, TPDOsAreNumbers
  <2> QED BY <2>1 DEF SinceIn
<1>9. ASSUME NEW p \in TPDOs, NEW t, InOrder(x, p, t) PROVE InOrder(y, p, t)
  BY <1>5, <1>9 DEF InOrder, NotStuck, TimerGoesOn, Inhibited, OnEvent, Cyclic, Flagged,
                    SameSettings
<1>10. PDOsInOrder(y, s)
  BY <1>5, <1>8, <1>9 DEF Good, PDOsInOrder, Off, SameSettings
<1> QED BY <1>1, <1>6, <1>7, <1>10 DEF Good

\* The alarm of SYNC is armed again and calls SyncAlarm.
LEMMA SyncAlarmGood ==
  ASSUME ProducerInvariant, NEW r, Due(d.alarms, r), d.alarms[r].alarm = Sync
  PROVE  Good(SyncAlarm([d EXCEPT !.alarms = Called(d.alarms, r)]), since)
<1> DEFINE t == Called(d.alarms, r)
           y == WithAlarms(d, t, d.handle)
<1>1. Good(d, since) /\ Tidy(d) /\ d \in Producers
  BY InvariantIsGood DEF Good
<1>2. Kept(d.alarms, d.handle, AlarmNames) /\ r \in UsedRows(d.alarms)
  BY <1>1, TidyIsKept DEF Due
<1>3. Sync \in AlarmNames /\ d.handle[Sync] = r /\ d.handle[Sync] # TIMER_NONE
  BY <1>2, NamesDiffer, NoneIsNoRow DEF Kept, Matched, UsedRows
<1>4. d.alarms[r].interval # 0
  BY <1>1, <1>3 DEF Tidy, Periods
<1>5. /\ Kept(t, d.handle, AlarmNames)
      /\ \A b \in AlarmNames \ {Sync} : SameAlarm(d.alarms, d.handle, t, d.handle, b)
      /\ \A q \in Rows : t[q].alarm = d.alarms[q].alarm /\ t[q].interval = d.alarms[q].interval
  BY <1>2, <1>4, CalledAgainKeeps, RowsAssumption
<1>6. [d EXCEPT !.alarms = t] = y
  BY <1>1 DEF WithAlarms, Producers
<1> HIDE DEF t
<1>7. t \in Tables(AlarmNames) /\ d.handle \in [AlarmNames -> Handles]
  BY <1>5 DEF Kept
<1>8. /\ y \in Producers /\ SameSettings(d, y)
      /\ y.alarms = t /\ y.handle = d.handle
      /\ y.transmit_type_parameter = d.transmit_type_parameter
      /\ y.last_message = d.last_message /\ y.out = d.out
  <2> HIDE DEF y
  <2> QED BY <1>1, <1>7, AlarmsSet DEF y
<1> HIDE DEF y
<1>9. ASSUME NEW b \in AlarmNames, d.handle[b] # TIMER_NONE
      PROVE  t[d.handle[b]].interval = d.alarms[d.handle[b]].interval
  BY <1>5, <1>7, <1>9 DEF Handles
<1>10. Tidy(y)
  BY <1>1, <1>5, <1>8, <1>9 DEF Tidy, Kept, Periods
<1>11. SyncInOrder(y)
  BY <1>1, <1>3, <1>8, <1>9 DEF Good, SyncInOrder, SameSettings
<1>12. ASSUME NEW p \in TPDOs PROVE Untouched(d, y, p)
  <2>1. Event(p) \in AlarmNames \ {Sync} /\ Inhibit(p) \in AlarmNames \ {Sync}
    BY NamesDiffer
  <2> QED BY <1>5, <1>8, <2>1 DEF Untouched, SameTimer, SameSettings, Sends
<1>13. ASSUME NEW p \in TPDOs
       PROVE  /\ SinceIn(y, since, p) = SinceIn(d, since, p)
              /\ InOrder(d, p, SinceIn(d, since, p)) => InOrder(y, p, SinceIn(d, since, p))
  BY <1>12, UntouchedInOrder DEF Untouched, SinceIn
<1>14. PDOsInOrder(y, since)
  BY <1>1, <1>8, <1>13 DEF Good, PDOsInOrder, Off, SameSettings
<1>15. Good(y, since)
  BY <1>10, <1>11, <1>14 DEF Good
<1>16. Good(AllPDOs(sendSYNCMessage(y), 1), since)
  BY <1>15, SyncMessageGood, AllPDOsGood
<1> QED BY <1>6, <1>16 DEF SyncAlarm, proceedSYNC, t

\* Row r is called and the handle of its alarm a dropped.
CalledOnce(x, r, a) ==
  WithAlarms(x, Called(x.alarms, r), [x.handle EXCEPT ![a] = TIMER_NONE])

\* What the call of a timer of PDO p leaves.
LEMMA TimerIsCalled ==
  ASSUME ProducerInvariant, NEW r, Due(d.alarms, r), NEW p \in TPDOs,
         NEW a \in {Event(p), Inhibit(p)}, d.alarms[r].alarm = a,
         NEW y, y = CalledOnce(d, r, a)
  PROVE  /\ d.csPDO /\ d.handle[a] = r /\ d.handle[a] # TIMER_NONE
         /\ OnlyPDO(d, y, p)
         /\ y.handle[a] = TIMER_NONE
         /\ \A b \in AlarmNames \ {a} : SameTimer(d, y, b)
         /\ y.transmit_type_parameter = d.transmit_type_parameter
         /\ y.last_message = d.last_message /\ y.out = d.out
<1> DEFINE t == Called(d.alarms, r)
           h == [d.handle EXCEPT ![a] = TIMER_NONE]
<1>1. Tidy(d) /\ d \in Producers
  BY InvariantIsGood DEF Good
<1>2. Kept(d.alarms, d.handle, AlarmNames) /\ r \in UsedRows(d.alarms)
  BY <1>1, TidyIsKept DEF Due
<1>3. /\ a \in AlarmNames /\ a # Sync
      /\ d.handle[a] = r /\ d.handle[a] # TIMER_NONE
  BY <1>2, NamesDiffer, NoneIsNoRow DEF Kept, Matched, UsedRows
<1>4. d.alarms[r].interval = 0
  BY <1>1, <1>3 DEF Tidy, Periods
<1>5. /\ Kept(t, h, AlarmNames)
      /\ \A b \in AlarmNames \ {a} : SameAlarm(d.alarms, d.handle, t, h, b)
  BY <1>2, <1>4, CalledOnceKeeps, RowsAssumption
<1>6. h[a] = TIMER_NONE
  BY <1>2, <1>3 DEF Kept
<1>7. y = WithAlarms(d, t, h)
  BY DEF CalledOnce
<1> HIDE DEF t, h
<1>8. OnlyPDO(d, y, p)
  BY <1>1, <1>5, <1>6, <1>7, TimerOfPDO
<1>9. t \in Tables(AlarmNames) /\ h \in [AlarmNames -> Handles]
  BY <1>5 DEF Kept
<1>10. /\ y.alarms = t /\ y.handle = h
       /\ y.transmit_type_parameter = d.transmit_type_parameter
       /\ y.last_message = d.last_message /\ y.out = d.out
  BY <1>1, <1>7, <1>9, AlarmsSet
<1>11. d.csPDO
  BY <1>3 DEF ProducerInvariant, Off
<1> QED BY <1>3, <1>5, <1>6, <1>8, <1>10, <1>11 DEF SameTimer

\* The event timer of a PDO expires.
LEMMA EventAlarmGood ==
  ASSUME ProducerInvariant, NEW r, Due(d.alarms, r), NEW p \in TPDOs,
         d.alarms[r].alarm = Event(p)
  PROVE  Good(PDOEventTimerAlarm([d EXCEPT !.alarms = Called(d.alarms, r)], p), since)
<1> DEFINE x == CalledOnce(d, r, Event(p))
           pdo == [x.last_message[p] EXCEPT !.cob_id = NoCobId]
           z == WithMessages(x, [x.last_message EXCEPT ![p] = pdo])
           called == [d EXCEPT !.alarms = Called(d.alarms, r)]
           y == PDOEventTimerAlarm(called, p)
<1>1. /\ Good(d, since) /\ Tidy(d) /\ d \in Producers /\ AllInOrder(d, since)
      /\ InOrder(d, p, since[p])
  BY InvariantIsGood DEF Good, ProducerInvariant
<1>2. Inhibit(p) \in AlarmNames \ {Event(p)} /\ Event(p) \in {Event(p), Inhibit(p)}
  BY NamesDiffer
<1>3. /\ d.csPDO /\ OnlyPDO(d, x, p) /\ SameTimer(d, x, Inhibit(p))
      /\ x.transmit_type_parameter = d.transmit_type_parameter
      /\ x.last_message = d.last_message /\ x.out = d.out
  <2>1. x = CalledOnce(d, r, Event(p))
    OBVIOUS
  <2> HIDE DEF x, pdo, z, called, y
  <2>2. /\ d.csPDO /\ d.handle[Event(p)] = r /\ d.handle[Event(p)] # TIMER_NONE
        /\ OnlyPDO(d, x, p)
        /\ x.handle[Event(p)] = TIMER_NONE
        /\ \A b \in AlarmNames \ {Event(p)} : SameTimer(d, x, b)
        /\ x.transmit_type_parameter = d.transmit_type_parameter
        /\ x.last_message = d.last_message /\ x.out = d.out
    BY <1>2, <2>1, TimerIsCalled
  <2> QED BY <1>2, <2>2
<1>4. [called EXCEPT !.handle[Event(p)] = TIMER_NONE, !.last_message[p].cob_id = NoCobId] = z
  BY <1>1 DEF WithMessages, WithAlarms, CalledOnce, Producers
<1>5. y = sendOnePDOevent(z, p)
  BY <1>4 DEF PDOEventTimerAlarm
<1> HIDE DEF x, called
<1>6. Tidy(x) /\ x \in Producers
  BY <1>3 DEF OnlyPDO, Tidy
<1>7. pdo \in Frames /\ pdo.cob_id = NoCobId
  BY <1>6, MarkedIsAFrame, TPDOsAreNumbers
<1> HIDE DEF pdo, y
<1>8. /\ OnlyPDO(x, z, p) /\ z.last_message[p] = pdo
      /\ z.transmit_type_parameter = x.transmit_type_parameter
      /\ z.alarms = x.alarms /\ z.handle = x.handle /\ z.out = x.out
  <2> HIDE DEF z
  <2> QED BY <1>6, <1>7, MessageOfPDO DEF z
<1> HIDE DEF z
<1>9. OnlyPDO(d, z, p) /\ SameTimer(d, z, Inhibit(p))
  BY <1>3, <1>8, OnlyPDOTwice DEF SameTimer, SameAlarm
<1>10. CountsUp(d, p) /\ Unbuildable(d, p) /\ NotStuck(d, p) /\ Inhibited(d, p, since[p])
  BY <1>1, InOrderGives DEF InOrder
<1>11. /\ OnlyPDO(d, y, p)
       /\ \/ InOrder(y, p, since[p]) /\ (Sends(y, p) <=> Sends(d, p))
          \/ InOrder(y, p, 0) /\ Sends(y, p)
  BY <1>1, <1>3, <1>5, <1>7, <1>8, <1>9, <1>10, ForcedSend
<1>12. InOrder(y, p, SinceIn(y, since, p))
  BY <1>11, InvariantIsGood DEF SinceIn
<1>13. AllInOrder(y, since)
  BY <1>1, <1>11, <1>12, OneInOrder
<1>14. Good(y, since)
  BY <1>1, <1>3, <1>11, <1>13, InOrderIsGood DEF OnlyPDO
<1> QED BY <1>14 DEF y, called

\* The inhibit timer of a PDO expires.
LEMMA InhibitAlarmGood ==
  ASSUME ProducerInvariant, NEW r, Due(d.alarms, r), NEW p \in TPDOs,
         d.alarms[r].alarm = Inhibit(p)
  PROVE  Good(PDOInhibitTimerAlarm([d EXCEPT !.alarms = Called(d.alarms, r)], p), since)
<1> DEFINE x == CalledOnce(d, r, Inhibit(p))
           z == ClearFlag(x, p)
           called == [d EXCEPT !.alarms = Called(d.alarms, r)]
           y == PDOInhibitTimerAlarm(called, p)
<1>1. /\ Good(d, since) /\ Tidy(d) /\ d \in Producers /\ AllInOrder(d, since)
      /\ InOrder(d, p, since[p])
  BY InvariantIsGood DEF Good, ProducerInvariant
<1>2. Event(p) \in AlarmNames \ {Inhibit(p)} /\ Inhibit(p) \in {Event(p), Inhibit(p)}
  BY NamesDiffer
<1>3. /\ d.csPDO /\ OnlyPDO(d, x, p) /\ SameTimer(d, x, Event(p))
      /\ d.handle[Inhibit(p)] = r /\ d.handle[Inhibit(p)] # TIMER_NONE
      /\ x.handle[Inhibit(p)] = TIMER_NONE
      /\ x.transmit_type_parameter = d.transmit_type_parameter
      /\ x.last_message = d.last_message /\ x.out = d.out
  <2>1. x = CalledOnce(d, r, Inhibit(p))
    OBVIOUS
  <2> HIDE DEF x, z, called, y
  <2>2. /\ d.csPDO /\ d.handle[Inhibit(p)] = r /\ d.handle[Inhibit(p)] # TIMER_NONE
        /\ OnlyPDO(d, x, p)
        /\ x.handle[Inhibit(p)] = TIMER_NONE
        /\ \A b \in AlarmNames \ {Inhibit(p)} : SameTimer(d, x, b)
        /\ x.transmit_type_parameter = d.transmit_type_parameter
        /\ x.last_message = d.last_message /\ x.out = d.out
    BY <1>2, <2>1, TimerIsCalled
  <2> QED BY <1>2, <2>2
<1>4. [ClearFlag(called, p) EXCEPT !.handle[Inhibit(p)] = TIMER_NONE] = z
  BY <1>1 DEF ClearFlag, Flagged, WithAlarms, CalledOnce, Producers
<1>5. y = sendOnePDOevent(z, p)
  BY <1>4 DEF PDOInhibitTimerAlarm
<1> HIDE DEF x, called, y
<1>6. Tidy(x) /\ x \in Producers
  BY <1>3 DEF OnlyPDO, Tidy
<1>7. /\ OnlyPDO(x, z, p) /\ ~Flagged(z, p)
      /\ z.transmit_type_parameter[p] <= x.transmit_type_parameter[p]
      /\ z.alarms = x.alarms /\ z.handle = x.handle
      /\ z.last_message = x.last_message /\ z.out = x.out
  BY <1>6, FlagOfPDO
<1> HIDE DEF z
<1>8. /\ OnlyPDO(d, z, p) /\ Tidy(z) /\ z.csPDO /\ z.type = d.type /\ z.inhibit = d.inhibit
      /\ z.event = d.event /\ z.value = d.value
  <2>1. OnlyPDO(d, z, p)
    BY <1>3, <1>7, OnlyPDOTwice
  <2>2. SameSettings(d, z) /\ Tidy(z)
    BY <2>1 DEF OnlyPDO
  <2> QED BY <1>3, <2>1, <2>2 DEF SameSettings
<1>9. CountsUp(z, p) /\ Unbuildable(z, p)
  <2>1. CountsUp(d, p)
    BY <1>1, InOrderGives
  <2>2. /\ z.transmit_type_parameter[p] \in Nat /\ d.transmit_type_parameter[p] \in Nat
        /\ d.type[p] \in Nat
    BY <1>1, <1>8, FieldsOfProducer DEF Tidy
  <2> QED BY <1>3, <1>7, <1>8, <2>1, <2>2 DEF CountsUp, Unbuildable, Cyclic
<1>10. CASE y = z /\ Refused(z, p)
  <2>1. p \notin Buildable \/ z.last_message[p] = buildPDO(z, p)
    BY <1>7, <1>8, <1>10 DEF Refused
  <2>2. NotStuck(y, p)
    BY <1>7, <1>9, <1>10 DEF NotStuck, CountsUp
  <2>3. TimerGoesOn(y, p, since[p])
    <3> SUFFICES ASSUME p \in Buildable, OnEvent(y, p), y.event[p] # 0, since[p] # Never
                 PROVE  y.handle[Event(p)] # TIMER_NONE
      BY DEF TimerGoesOn
    <3>1. d.last_message[p].cob_id # NoCobId
      <4>1. z.last_message[p].cob_id = p
        BY <1>8, <2>1, BuiltIsAFrame DEF Tidy
      <4> QED BY <1>3, <1>7, <4>1, TPDOsAreNumbers
    <3>2. OnEvent(d, p) /\ d.event[p] # 0
      BY <1>8, <1>10 DEF OnEvent
    <3>3. d.handle[Event(p)] # TIMER_NONE
      BY <1>1, <3>1, <3>2 DEF InOrder, TimerGoesOn
    <3> QED BY <1>3, <1>7, <1>10, <3>3 DEF SameTimer, SameAlarm
  <2>4. Inhibited(y, p, since[p])
    <3>1. ~(p \in Buildable /\ OnEvent(d, p) /\ since[p] < d.inhibit[p])
      <4> SUFFICES ASSUME p \in Buildable, OnEvent(d, p), since[p] < d.inhibit[p]
                   PROVE  FALSE
        OBVIOUS
      <4>1. d.alarms[d.handle[Inhibit(p)]].left >= d.inhibit[p] - since[p]
        BY <1>1 DEF InOrder, Inhibited
      <4>2. d.alarms[d.handle[Inhibit(p)]].left = 0
        BY <1>3 DEF Due
      <4>3. since[p] \in Nat /\ d.inhibit[p] \in Nat
        <5>1. Never \in Nat /\ Longest \in Nat
          BY BoundsAreNumbers
        <5>2. since \in [TPDOs -> 0 .. Never] /\ d.inhibit \in [TPDOs -> 0 .. Longest]
          BY <1>1, FieldsOfProducer DEF ProducerInvariant
        <5> QED BY <5>1, <5>2
      <4> QED BY <4>1, <4>2, <4>3
    <3> QED BY <1>3, <1>7, <1>8, <1>10, <3>1 DEF Inhibited, OnEvent
  <2>5. y.last_message[p].cob_id \in {p, NoCobId}
    BY <1>1, <1>3, <1>7, <1>10 DEF InOrder
  <2>6. Sends(y, p) <=> Sends(d, p)
    BY <1>3, <1>7, <1>10 DEF Sends
  <2>7. InOrder(y, p, SinceIn(y, since, p))
    BY <2>2, <2>3, <2>4, <2>5, <2>6, InvariantIsGood DEF InOrder, SinceIn
  <2>8. AllInOrder(y, since)
    BY <1>1, <1>8, <1>10, <2>7, OneInOrder
  <2>9. Good(y, since)
    BY <1>1, <1>3, <1>8, <1>10, <2>8, InOrderIsGood DEF OnlyPDO
  <2> QED BY <2>9 DEF y, called
<1>11. CASE OnlyPDO(z, y, p) /\ InOrder(y, p, 0) /\ Sends(y, p)
  <2>1. OnlyPDO(d, y, p)
    BY <1>8, <1>11, OnlyPDOTwice
  <2>2. InOrder(y, p, SinceIn(y, since, p))
    BY <1>11 DEF SinceIn
  <2>3. AllInOrder(y, since)
    BY <1>1, <2>1, <2>2, OneInOrder
  <2>4. Good(y, since)
    BY <1>1, <1>3, <2>1, <2>3, InOrderIsGood DEF OnlyPDO
  <2> QED BY <2>4 DEF y, called
<1> QED BY <1>5, <1>8, <1>9, <1>10, <1>11, SendOneEvent

-----------------------------------------------------------------------------
(***************************************************************************)
(* Requests and writes of the parameters of a PDO.                         *)
(***************************************************************************)
\* All PDOs but p are in order: an operation on p that ends in order does.
LEMMA RestInOrder ==
  ASSUME NEW x, NEW s, NEW p \in TPDOs,
         \A q \in TPDOs : q # p => InOrder(x, q, SinceIn(x, s, q)),
         NEW y, OnlyPDO(x, y, p), InOrder(y, p, SinceIn(y, s, p))
  PROVE  AllInOrder(y, s)
<1>1. ASSUME NEW q \in TPDOs, q # p PROVE InOrder(y, q, SinceIn(y, s, q))
  <2>1. Untouched(x, y, q)
    BY <1>1 DEF OnlyPDO
  <2>2. SinceIn(y, s, q) = SinceIn(x, s, q)
    BY <2>1 DEF SinceIn, Untouched
  <2> QED BY <1>1, <2>1, <2>2, UntouchedInOrder
<1> QED BY <1>1 DEF AllInOrder, OnlyPDO

\* The answer to a request, of a PDO that is sent on request only.
LEMMA AnswerInOrder ==
  ASSUME NEW x, NEW s, AllInOrder(x, s), NEW p \in TPDOs,
         x.type[p] \in {TRANS_RTR, TRANS_RTR_SYNC},
         NEW pdo \in Frames, pdo.cob_id \in {p, NoCobId},
         NEW y, y = WithOut(x, Append(x.out, pdo))
  PROVE  AllInOrder(y, s) /\ OnlyPDO(x, y, p)
<1>1. Tidy(x) /\ InOrder(x, p, SinceIn(x, s, p))
  BY DEF AllInOrder
<1>2. /\ OnlyPDO(x, y, p)
      /\ y.last_message = x.last_message
      /\ y.alarms = x.alarms /\ y.handle = x.handle
  BY <1>1, OutOfPDO
<1>3. ~OnEvent(x, p) /\ ~Cyclic(x, p)
  BY TypesDiffer
<1>4. SameTimer(x, y, Inhibit(p)) /\ y.last_message[p].cob_id \in {p, NoCobId}
  BY <1>1, <1>2 DEF InOrder, SameTimer, SameAlarm
<1>5. InOrder(y, p, SinceIn(y, s, p))
  BY <1>1, <1>2, <1>3, <1>4, OthersInOrder
<1> QED BY <1>2, <1>5, OneInOrder

\* A request stops the timers of a PDO on event and sends it.
LEMMA RequestOnEventInOrder ==
  ASSUME NEW x, NEW s, AllInOrder(x, s), x.csPDO, NEW p \in TPDOs, OnEvent(x, p),
         NEW y, y = PDOEventTimerAlarm(ClearFlag(StopTimers(x, p), p), p)
  PROVE  AllInOrder(y, s) /\ OnlyPDO(x, y, p)
<1> DEFINE z == StopTimers(x, p)
           w == ClearFlag(z, p)
<1>1. Tidy(x) /\ InOrder(x, p, SinceIn(x, s, p))
  BY DEF AllInOrder
<1>2. y = PDOEventTimerAlarm(w, p)
  OBVIOUS
<1>3. w = ClearFlag(z, p)
  OBVIOUS
<1> HIDE DEF w
<1>4. /\ OnlyPDO(x, z, p) /\ z.handle[Event(p)] = TIMER_NONE
      /\ z.handle[Inhibit(p)] = TIMER_NONE /\ z.out = x.out
  <2> HIDE DEF z
  <2> QED BY <1>1, TimersStop DEF z
<1> HIDE DEF z
<1>5. Tidy(z)
  BY <1>4 DEF OnlyPDO
<1>6. /\ OnlyPDO(z, w, p) /\ ~Flagged(w, p) /\ w.handle = z.handle /\ w.out = z.out
  BY <1>3, <1>5, FlagOfPDO
<1>7. OnlyPDO(x, w, p) /\ Tidy(w) /\ w.csPDO /\ w.type = x.type
  <2>1. OnlyPDO(x, w, p)
    BY <1>4, <1>6, OnlyPDOTwice
  <2> QED BY <2>1 DEF OnlyPDO, SameSettings
<1>8. ~Cyclic(w, p)
  BY <1>7, TypesDiffer DEF OnEvent, Cyclic
<1>9. CountsUp(w, p) /\ Unbuildable(w, p)
  BY <1>4, <1>6, <1>8 DEF CountsUp, Unbuildable
<1>10. /\ OnlyPDO(w, y, p)
       /\ \/ InOrder(y, p, SinceIn(x, s, p)) /\ (Sends(y, p) <=> Sends(w, p))
          \/ InOrder(y, p, 0) /\ Sends(y, p)
  BY <1>2, <1>4, <1>6, <1>7, <1>9, EventAlarmForces
<1>11. OnlyPDO(x, y, p)
  BY <1>7, <1>10, OnlyPDOTwice
<1>12. InOrder(y, p, SinceIn(y, s, p))
  BY <1>4, <1>6, <1>10 DEF SinceIn, Sends
<1> QED BY <1>11, <1>12, OneInOrder

\* proceedPDO of a request.
LEMMA RequestInOrder ==
  ASSUME NEW x, NEW s, AllInOrder(x, s), x.csPDO, NEW p \in TPDOs,
         NEW y, y = proceedPDORequest(x, p)
  PROVE  AllInOrder(y, s) /\ OnlyPDO(x, y, p)
<1>1. Tidy(x) /\ x \in Producers /\ x.last_message[p].cob_id \in {p, NoCobId}
  BY DEF AllInOrder, Tidy, InOrder
<1>2. x.last_message[p] \in Frames
  BY <1>1, FieldsOfProducer
<1>3. buildPDO(x, p) \in Frames /\ buildPDO(x, p).cob_id = p
  BY <1>1, BuiltIsAFrame
<1>4. CASE y = x
  BY <1>1, <1>4, OnlyPDONothing
<1>5. CASE x.type[p] = TRANS_RTR_SYNC /\ y = WithOut(x, Append(x.out, x.last_message[p]))
  BY <1>1, <1>2, <1>5, AnswerInOrder
<1>6. CASE /\ x.type[p] \in {TRANS_RTR, TRANS_RTR_SYNC}
           /\ y = WithOut(x, Append(x.out, buildPDO(x, p)))
  BY <1>3, <1>6, AnswerInOrder
<1>7. CASE OnEvent(x, p) /\ y = PDOEventTimerAlarm(ClearFlag(StopTimers(x, p), p), p)
  BY <1>7, RequestOnEventInOrder
<1>8. \/ y = x
      \/ x.type[p] = TRANS_RTR_SYNC /\ y = WithOut(x, Append(x.out, x.last_message[p]))
      \/ /\ x.type[p] \in {TRANS_RTR, TRANS_RTR_SYNC}
         /\ y = WithOut(x, Append(x.out, buildPDO(x, p)))
      \/ OnEvent(x, p) /\ y = PDOEventTimerAlarm(ClearFlag(StopTimers(x, p), p), p)
  BY Zenon DEF proceedPDORequest, WithOut
<1> QED BY <1>4, <1>5, <1>6, <1>7, <1>8

\* Nothing but settings differs.
SameTables(x, y) ==
  /\ y.alarms = x.alarms /\ y.handle = x.handle
  /\ y.transmit_type_parameter = x.transmit_type_parameter
  /\ y.last_message = x.last_message /\ y.out = x.out

SameParameters(x, y) ==
  y.type = x.type /\ y.inhibit = x.inhibit /\ y.event = x.event

\* Settings keep the timers tidy.
LEMMA TidyTables ==
  ASSUME NEW x, Tidy(x), NEW y \in Producers, SameTables(x, y)
  PROVE  Tidy(y)
BY DEF Tidy, Periods, SameTables

\* TPDO_Communication_Parameter_Callback: the PDO starts afresh.
LEMMA CallbackInOrder ==
  ASSUME NEW x, NEW s, Tidy(x), x.csPDO, NEW p \in TPDOs,
         \A q \in TPDOs : q # p => InOrder(x, q, SinceIn(x, s, q)),
         NEW y, y = TPDO_Communication_Parameter_Callback(x, p)
  PROVE  AllInOrder(y, s) /\ OnlyPDO(x, y, p)
<1> DEFINE z == StopTimers(x, p)
           w == [z EXCEPT !.transmit_type_parameter[p] = 0]
<1>1. y = PDOEventTimerAlarm(w, p)
  BY DEF TPDO_Communication_Parameter_Callback
<1>2. /\ OnlyPDO(x, z, p) /\ z.handle[Event(p)] = TIMER_NONE
      /\ z.handle[Inhibit(p)] = TIMER_NONE /\ z.out = x.out
  <2> HIDE DEF z, w
  <2> QED BY TimersStop DEF z
<1> HIDE DEF z
<1>3. Tidy(z)
  BY <1>2 DEF OnlyPDO
<1>4. /\ OnlyPDO(z, w, p) /\ w.transmit_type_parameter[p] = 0
      /\ w.handle = z.handle /\ w.out = z.out
  <2>1. 0 \in Nat
    OBVIOUS
  <2> HIDE DEF w
  <2> QED BY <1>3, <2>1, CountOfPDO DEF w
<1> HIDE DEF w
<1>5. OnlyPDO(x, w, p) /\ Tidy(w) /\ w.csPDO
  <2>1. OnlyPDO(x, w, p)
    BY <1>2, <1>4, OnlyPDOTwice
  <2> QED BY <2>1 DEF OnlyPDO, SameSettings
<1>6. ~Flagged(w, p)
  BY <1>4 DEF Flagged
<1>7. CountsUp(w, p)
  BY <1>4 DEF CountsUp, Cyclic, TRANS_SYNC_MIN, TRANS_SYNC_MAX
<1>8. Unbuildable(w, p) /\ w.handle[Event(p)] = TIMER_NONE
  BY <1>2, <1>4 DEF Unbuildable
<1>9. /\ OnlyPDO(w, y, p)
      /\ \/ InOrder(y, p, SinceIn(x, s, p)) /\ (Sends(y, p) <=> Sends(w, p))
         \/ InOrder(y, p, 0) /\ Sends(y, p)
  BY <1>1, <1>5, <1>6, <1>7, <1>8, EventAlarmForces
<1>10. OnlyPDO(x, y, p)
  BY <1>5, <1>9, OnlyPDOTwice
<1>11. InOrder(y, p, SinceIn(y, s, p))
  BY <1>2, <1>4, <1>9 DEF SinceIn, Sends
<1> QED BY <1>10, <1>11, RestInOrder

WithParameters(x, type, inhibit, event) ==
  [x EXCEPT !.type = type, !.inhibit = inhibit, !.event = event]

\* A write of the parameters of PDO p, with its callback.
LEMMA WriteGood ==
  ASSUME ProducerInvariant, NEW p \in TPDOs,
         NEW type \in [TPDOs -> Nat], NEW inhibit \in [TPDOs -> 0 .. Longest],
         NEW event \in [TPDOs -> Nat],
         \A q \in TPDOs : q # p => /\ type[q] = d.type[q] /\ inhibit[q] = d.inhibit[q]
                                   /\ event[q] = d.event[q],
         NEW x, x = WithParameters(d, type, inhibit, event)
  PROVE  Good(IF d.registered THEN TPDO_Communication_Parameter_Callback(x, p) ELSE x, since)
<1>1. Good(d, since) /\ d \in Producers /\ Tidy(d) /\ (d.csPDO => d.registered)
  BY InvariantIsGood DEF Good, ProducerInvariant
<1>2. /\ x \in Producers /\ SameTables(d, x)
      /\ x.type = type /\ x.inhibit = inhibit /\ x.event = event
      /\ x.csPDO = d.csPDO /\ x.registered = d.registered
      /\ x.csSYNC = d.csSYNC /\ x.generates = d.generates
      /\ x.Sync_Cycle_Period = d.Sync_Cycle_Period /\ x.syncRegistered = d.syncRegistered
  BY <1>1 DEF WithParameters, Producers, SameTables
<1>3. Tidy(x)
  BY <1>1, <1>2, TidyTables
<1>4. SyncInOrder(x)
  BY <1>1, <1>2 DEF Good, SyncInOrder, SameTables
<1>5. CASE ~d.csPDO
  <2>1. TPDO_Communication_Parameter_Callback(x, p) = x
    BY <1>2, <1>5 DEF TPDO_Communication_Parameter_Callback
  <2>2. PDOsInOrder(x, since)
    BY <1>1, <1>2, <1>5 DEF Good, PDOsInOrder, Off, SameTables
  <2> QED BY <1>3, <1>4, <2>1, <2>2 DEF Good
<1>6. CASE d.csPDO
  <2> DEFINE y == TPDO_Communication_Parameter_Callback(x, p)
  <2>1. ASSUME NEW q \in TPDOs, q # p PROVE InOrder(x, q, SinceIn(x, since, q))
    <3>1. Untouched(d, x, q)
      BY <1>2, <2>1 DEF Untouched, SameTables, SameTimer, SameAlarm, Sends
    <3>2. SinceIn(x, since, q) = SinceIn(d, since, q)
      BY <3>1 DEF SinceIn, Untouched
    <3>3. InOrder(d, q, SinceIn(d, since, q))
      BY InvariantIsGood DEF AllInOrder
    <3> QED BY <3>1, <3>2, <3>3, UntouchedInOrder
  <2>2. x.csPDO
    BY <1>2, <1>6
  <2>3. AllInOrder(y, since) /\ OnlyPDO(x, y, p)
    BY <1>3, <2>1, <2>2, CallbackInOrder
  <2> HIDE DEF y
  <2>4. SyncInOrder(y)
    BY <1>4, <2>3, SyncStays DEF OnlyPDO
  <2>5. y.csPDO /\ y.registered
    BY <1>1, <1>2, <1>6, <2>3 DEF OnlyPDO, SameSettings
  <2>6. Good(y, since)
    BY <2>3, <2>4, <2>5 DEF Good, PDOsInOrder, AllInOrder
  <2> QED BY <1>1, <1>6, <2>6 DEF y
<1> QED BY <1>5, <1>6

-----------------------------------------------------------------------------
(***************************************************************************)
(* SYNC, and the states of the node.                                       *)
(***************************************************************************)
\* Nothing of the PDOs changes.
SamePDOs(x, y) ==
  /\ y.csPDO = x.csPDO /\ y.registered = x.registered /\ y.out = x.out
  /\ \A p \in TPDOs : Untouched(x, y, p)

\* Two operations that leave the PDOs alone are one.
LEMMA SamePDOsTwice ==
  ASSUME NEW x, NEW y, NEW z, SamePDOs(x, y), SamePDOs(y, z)
  PROVE  SamePDOs(x, z)
BY DEF SamePDOs, Untouched, SameTimer, SameAlarm

\* PDOs nobody touches stay in order.
LEMMA PDOsStay ==
  ASSUME NEW x, NEW s, PDOsInOrder(x, s), NEW y, SamePDOs(x, y)
  PROVE  PDOsInOrder(y, s)
<1>1. ASSUME NEW p \in TPDOs
      PROVE  /\ SinceIn(y, s, p) = SinceIn(x, s, p)
             /\ InOrder(x, p, SinceIn(x, s, p)) => InOrder(y, p, SinceIn(x, s, p))
             /\ Off(x, p) => Off(y, p)
             /\ y.last_message[p] = x.last_message[p]
  BY UntouchedInOrder DEF SamePDOs, Untouched, SinceIn, Off, SameTimer, SameAlarm
<1> QED BY <1>1 DEF PDOsInOrder, SamePDOs

\* Settings that are no parameters of PDOs.
LEMMA SettingsStay ==
  ASSUME NEW x, NEW y, SameTables(x, y), SameParameters(x, y),
         y.csPDO = x.csPDO, y.registered = x.registered
  PROVE  SamePDOs(x, y)
BY DEF SamePDOs, SameTables, SameParameters, Untouched, SameTimer, SameAlarm, Sends

\* The alarm of SYNC is changed and no other.
LEMMA TimerOfSync ==
  ASSUME NEW x, Tidy(x), NEW t, NEW h, Kept(t, h, AlarmNames),
         h[Sync] # TIMER_NONE => t[h[Sync]].interval # 0,
         \A b \in AlarmNames \ {Sync} : SameAlarm(x.alarms, x.handle, t, h, b),
         NEW y, y = WithAlarms(x, t, h)
  PROVE  /\ Tidy(y) /\ SameSettings(x, y) /\ SamePDOs(x, y)
         /\ y.alarms = t /\ y.handle = h
<1>1. t \in Tables(AlarmNames) /\ h \in [AlarmNames -> Handles]
  BY DEF Kept
<1>2. /\ y \in Producers /\ SameSettings(x, y) /\ y.alarms = t /\ y.handle = h
      /\ y.transmit_type_parameter = x.transmit_type_parameter
      /\ y.last_message = x.last_message /\ y.out = x.out
  BY <1>1, AlarmsSet DEF Tidy
<1>3. Periods(y)
  <2> SUFFICES ASSUME NEW b \in AlarmNames, h[b] # TIMER_NONE
               PROVE  t[h[b]].interval # 0 <=> b = Sync
    BY <1>2 DEF Periods
  <2>1. CASE b = Sync
    BY <2>1
  <2>2. CASE b # Sync
    BY <2>2 DEF Tidy, Periods, SameAlarm
  <2> QED BY <2>1, <2>2
<1>4. Tidy(y)
  BY <1>2, <1>3 DEF Tidy, Kept
<1>5. ASSUME NEW q \in TPDOs PROVE Untouched(x, y, q)
  <2>1. Event(q) \in AlarmNames \ {Sync} /\ Inhibit(q) \in AlarmNames \ {Sync}
    BY NamesDiffer
  <2> QED BY <1>2, <2>1 DEF Untouched, SameTimer, SameSettings, Sends
<1> QED BY <1>2, <1>4, <1>5 DEF SamePDOs, SameSettings

\* The alarm of SYNC is deleted by its owner.
LEMMA DelSync ==
  ASSUME NEW x, Tidy(x), NEW y, y = Del(x, Sync)
  PROVE  /\ Tidy(y) /\ SameSettings(x, y) /\ SamePDOs(x, y)
         /\ y.handle[Sync] = TIMER_NONE
<1> DEFINE t == DelAlarm(x.alarms, x.handle[Sync])
           h == [x.handle EXCEPT ![Sync] = TIMER_NONE]
<1>1. x \in Producers /\ Kept(x.alarms, x.handle, AlarmNames) /\ Sync \in AlarmNames
  BY TidyIsKept, NamesDiffer
<1>2. /\ Kept(t, h, AlarmNames)
      /\ \A b \in AlarmNames \ {Sync} : SameAlarm(x.alarms, x.handle, t, h, b)
  BY <1>1, DelAlarmKeeps, RowsAssumption
<1>3. h[Sync] = TIMER_NONE
  BY <1>1 DEF Kept
<1>4. y = WithAlarms(x, t, h)
  BY <1>1, DelIs
<1> HIDE DEF t, h
<1> QED BY <1>2, <1>3, <1>4, TimerOfSync

\* The alarm of SYNC is set by its owner, once.
LEMMA SetSync ==
  ASSUME NEW x, Tidy(x), x.handle[Sync] = TIMER_NONE, NEW period \in Nat, period # 0,
         NEW y, y = Set(x, Sync, period, period)
  PROVE  /\ Tidy(y) /\ SameSettings(x, y) /\ SamePDOs(x, y)
         /\ y.handle[Sync] # TIMER_NONE
         /\ y.alarms[y.handle[Sync]].interval = period
<1> DEFINE t == SetAlarm(x.alarms, Sync, period, period)
           h == [x.handle EXCEPT ![Sync] = Allocated(x.alarms)]
<1>1. x \in Producers /\ Kept(x.alarms, x.handle, AlarmNames) /\ Sync \in AlarmNames
  BY TidyIsKept, NamesDiffer
<1>2. /\ Kept(t, h, AlarmNames)
      /\ \A b \in AlarmNames \ {Sync} : SameAlarm(x.alarms, x.handle, t, h, b)
  BY <1>1, SetAlarmKeeps, RowsAssumption
<1>3. h[Sync] = Allocated(x.alarms)
  BY <1>1 DEF Kept
<1>4. /\ h[Sync] # TIMER_NONE
      /\ t[h[Sync]] = [alarm |-> Sync, left |-> period, interval |-> period]
  <2>1. x.alarms \in Tables(AlarmNames) /\ UsedRows(x.alarms) # Rows
    BY <1>1, RowIsThere DEF Kept
  <2> QED BY <1>1, <1>3, <2>1, SetAlarmSets
<1>5. t[h[Sync]].interval = period
  BY <1>4
<1>6. y = WithAlarms(x, t, h)
  BY <1>1, SetIs
<1> HIDE DEF t, h
<1> QED BY <1>2, <1>4, <1>5, <1>6, TimerOfSync

WithRegistered(x, b) == [x EXCEPT !.syncRegistered = b]

\* SYNC is heard of, or not any more.
LEMMA RegisteredSet ==
  ASSUME NEW x, Tidy(x), NEW b \in BOOLEAN, NEW y, y = WithRegistered(x, b)
  PROVE  /\ Tidy(y) /\ SamePDOs(x, y) /\ y.syncRegistered = b
         /\ y.csSYNC = x.csSYNC /\ y.generates = x.generates
         /\ y.Sync_Cycle_Period = x.Sync_Cycle_Period
         /\ y.handle = x.handle /\ y.alarms = x.alarms
<1>1. /\ y \in Producers /\ SameTables(x, y) /\ SameParameters(x, y)
      /\ y.csPDO = x.csPDO /\ y.registered = x.registered /\ y.syncRegistered = b
      /\ y.csSYNC = x.csSYNC /\ y.generates = x.generates
      /\ y.Sync_Cycle_Period = x.Sync_Cycle_Period
  BY DEF Tidy, WithRegistered, Producers, SameTables, SameParameters
<1> QED BY <1>1, TidyTables, SettingsStay DEF SameTables

\* stopSYNC.
LEMMA SyncStops ==
  ASSUME NEW x, Tidy(x), NEW y, y = stopSYNC(x)
  PROVE  /\ Tidy(y) /\ SamePDOs(x, y)
         /\ ~y.syncRegistered /\ y.handle[Sync] = TIMER_NONE
         /\ y.csSYNC = x.csSYNC /\ y.generates = x.generates
         /\ y.Sync_Cycle_Period = x.Sync_Cycle_Period
<1> DEFINE z == WithRegistered(x, FALSE)
<1>1. y = Del(z, Sync)
  BY DEF stopSYNC, WithRegistered
<1> HIDE DEF z
<1>2. /\ Tidy(z) /\ SamePDOs(x, z) /\ ~z.syncRegistered
      /\ z.csSYNC = x.csSYNC /\ z.generates = x.generates
      /\ z.Sync_Cycle_Period = x.Sync_Cycle_Period
  BY RegisteredSet DEF z
<1>3. Tidy(y) /\ SameSettings(z, y) /\ SamePDOs(z, y) /\ y.handle[Sync] = TIMER_NONE
  BY <1>1, <1>2, DelSync
<1> QED BY <1>2, <1>3, SamePDOsTwice DEF SameSettings

\* startSYNC: generation and callbacks are as the dictionary says.
LEMMA SyncStarts ==
  ASSUME NEW x, Tidy(x), x.csSYNC, NEW y, y = startSYNC(x)
  PROVE  Tidy(y) /\ SamePDOs(x, y) /\ SyncInOrder(y) /\ y.csSYNC = x.csSYNC
<1> DEFINE stopped == IF x.handle[Sync] = TIMER_NONE THEN x ELSE stopSYNC(x)
           z == WithRegistered(stopped, TRUE)
<1>1. /\ Tidy(stopped) /\ SamePDOs(x, stopped) /\ stopped.handle[Sync] = TIMER_NONE
      /\ stopped.csSYNC = x.csSYNC /\ stopped.generates = x.generates
      /\ stopped.Sync_Cycle_Period = x.Sync_Cycle_Period
  <2>1. CASE x.handle[Sync] = TIMER_NONE
    <3>1. stopped = x
      BY <2>1
    <3>2. SamePDOs(x, x)
      BY DEF SamePDOs, Untouched, SameTimer, SameAlarm
    <3> HIDE DEF stopped
    <3> QED BY <2>1, <3>1, <3>2
  <2>2. CASE x.handle[Sync] # TIMER_NONE
    <3>1. stopped = stopSYNC(x)
      BY <2>2
    <3> HIDE DEF stopped
    <3> QED BY <3>1, SyncStops
  <2> QED BY <2>1, <2>2
<1>2. y = IF x.generates /\ x.Sync_Cycle_Period # 0
          THEN Set(z, Sync, x.Sync_Cycle_Period, x.Sync_Cycle_Period) ELSE z
  BY Zenon DEF startSYNC, WithRegistered
<1> HIDE DEF stopped, z
<1>3. /\ Tidy(z) /\ SamePDOs(stopped, z) /\ z.syncRegistered
      /\ z.csSYNC = x.csSYNC /\ z.generates = x.generates
      /\ z.Sync_Cycle_Period = x.Sync_Cycle_Period
      /\ z.handle[Sync] = TIMER_NONE
  BY <1>1, RegisteredSet DEF z
<1>4. SamePDOs(x, z)
  BY <1>1, <1>3, SamePDOsTwice
<1>5. CASE x.generates /\ x.Sync_Cycle_Period # 0
  <2>1. x.Sync_Cycle_Period \in Nat
    BY FieldsOfProducer DEF Tidy
  <2>2. y = Set(z, Sync, x.Sync_Cycle_Period, x.Sync_Cycle_Period)
    BY <1>2, <1>5
  <2>3. /\ Tidy(y) /\ SameSettings(z, y) /\ SamePDOs(z, y)
        /\ y.handle[Sync] # TIMER_NONE
        /\ y.alarms[y.handle[Sync]].interval = x.Sync_Cycle_Period
    BY <1>3, <1>5, <2>1, <2>2, SetSync
  <2>4. SyncInOrder(y) /\ y.csSYNC = x.csSYNC
    BY <1>3, <1>5, <2>3 DEF SyncInOrder, SameSettings
  <2> QED BY <1>4, <2>3, <2>4, SamePDOsTwice
<1>6. CASE ~(x.generates /\ x.Sync_Cycle_Period # 0)
  <2>1. y = z
    BY <1>2, <1>6
  <2>2. SyncInOrder(z)
    BY <1>3, <1>6 DEF SyncInOrder
  <2> QED BY <1>3, <1>4, <2>1, <2>2
<1> QED BY <1>5, <1>6

\* A write of 0x1005 or 0x1006, with its callback.
LEMMA WriteSYNCGood ==
  ASSUME ProducerInvariant, NEW generates \in BOOLEAN, NEW period \in Nat,
         NEW x, x = [d EXCEPT !.generates = generates, !.Sync_Cycle_Period = period]
  PROVE  Good(IF d.syncRegistered THEN OnCOB_ID_SyncUpdate(x) ELSE x, since)
<1>1. Good(d, since) /\ d \in Producers /\ Tidy(d)
  BY InvariantIsGood DEF Good
<1>2. /\ x \in Producers /\ SameTables(d, x) /\ SameParameters(d, x)
      /\ x.csPDO = d.csPDO /\ x.registered = d.registered
      /\ x.csSYNC = d.csSYNC /\ x.syncRegistered = d.syncRegistered
  BY <1>1 DEF Producers, SameTables, SameParameters
<1>3. Tidy(x) /\ SamePDOs(d, x)
  BY <1>1, <1>2, TidyTables, SettingsStay
<1>4. CASE d.syncRegistered
  <2> DEFINE y == startSYNC(x)
  <2>1. x.csSYNC
    BY <1>1, <1>2, <1>4 DEF Good, SyncInOrder
  <2>2. Tidy(y) /\ SamePDOs(x, y) /\ SyncInOrder(y)
    BY <1>3, <2>1, SyncStarts
  <2> HIDE DEF y
  <2>3. PDOsInOrder(y, since)
    BY <1>1, <1>3, <2>2, SamePDOsTwice, PDOsStay DEF Good
  <2>4. Good(y, since)
    BY <2>2, <2>3 DEF Good
  <2> QED BY <1>4, <2>4 DEF y, OnCOB_ID_SyncUpdate
<1>5. CASE ~d.syncRegistered
  <2>1. SyncInOrder(x)
    BY <1>1, <1>2, <1>5 DEF Good, SyncInOrder, SameTables
  <2>2. PDOsInOrder(x, since)
    BY <1>1, <1>3, PDOsStay DEF Good
  <2> QED BY <1>3, <1>5, <2>1, <2>2 DEF Good
<1> QED BY <1>4, <1>5

\* What Switch does to SYNC.
SyncSwitched(x, state) ==
  IF state # Stopped /\ ~x.csSYNC THEN startSYNC([x EXCEPT !.csSYNC = TRUE])
  ELSE IF state = Stopped /\ x.csSYNC THEN stopSYNC([x EXCEPT !.csSYNC = FALSE])
  ELSE x

\* It leaves the PDOs alone.
LEMMA SyncSwitchedInOrder ==
  ASSUME NEW x, Tidy(x), SyncInOrder(x), NEW state, NEW y, y = SyncSwitched(x, state)
  PROVE  Tidy(y) /\ SamePDOs(x, y) /\ SyncInOrder(y)
<1>1. CASE state # Stopped /\ ~x.csSYNC
  <2> DEFINE z == [x EXCEPT !.csSYNC = TRUE]
  <2>1. y = startSYNC(z)
    BY <1>1 DEF SyncSwitched
  <2>2. /\ z \in Producers /\ SameTables(x, z) /\ SameParameters(x, z)
        /\ z.csPDO = x.csPDO /\ z.registered = x.registered /\ z.csSYNC
    BY DEF Tidy, Producers, SameTables, SameParameters
  <2> HIDE DEF z
  <2>3. Tidy(z) /\ SamePDOs(x, z)
    BY <2>2, TidyTables, SettingsStay
  <2>4. Tidy(y) /\ SamePDOs(z, y) /\ SyncInOrder(y)
    BY <2>1, <2>2, <2>3, SyncStarts
  <2> QED BY <2>3, <2>4, SamePDOsTwice
<1>2. CASE state = Stopped /\ x.csSYNC
  <2> DEFINE z == [x EXCEPT !.csSYNC = FALSE]
  <2>1. y = stopSYNC(z)
    BY <1>2 DEF SyncSwitched
  <2>2. /\ z \in Producers /\ SameTables(x, z) /\ SameParameters(x, z)
        /\ z.csPDO = x.csPDO /\ z.registered = x.registered /\ ~z.csSYNC
    BY DEF Tidy, Producers, SameTables, SameParameters
  <2> HIDE DEF z
  <2>3. Tidy(z) /\ SamePDOs(x, z)
    BY <2>2, TidyTables, SettingsStay
  <2>4. /\ Tidy(y) /\ SamePDOs(z, y) /\ ~y.syncRegistered /\ ~y.csSYNC
        /\ y.handle[Sync] = TIMER_NONE
    BY <2>1, <2>2, <2>3, SyncStops
  <2>5. SyncInOrder(y)
    BY <2>4 DEF SyncInOrder
  <2> QED BY <2>3, <2>4, <2>5, SamePDOsTwice
<1>3. CASE y = x
  <2>1. SamePDOs(x, x)
    BY DEF SamePDOs, Untouched, SameTimer, SameAlarm
  <2> QED BY <1>3, <2>1
<1> QED BY <1>1, <1>2, <1>3 DEF SyncSwitched

\* setState.
LEMMA SwitchGood ==
  ASSUME ProducerInvariant,
         NEW state \in {Pre_operational, Operational, Stopped},
         NEW new, new = Switch([d EXCEPT !.nodeState = state], state)
  PROVE  Good(new, since)
<1> DEFINE x == [d EXCEPT !.nodeState = state]
           y == SyncSwitched(x, state)
           on == [y EXCEPT !.csPDO = TRUE]
           registered == [on EXCEPT !.registered = TRUE]
           off == [y EXCEPT !.csPDO = FALSE]
<1>1. Good(d, since) /\ d \in Producers /\ Tidy(d) /\ d.out = <<>>
  BY InvariantIsGood DEF Good
<1>2. \/ state = Operational /\ ~y.csPDO /\ new = AllPDOs(registered, 0)
      \/ state # Operational /\ y.csPDO /\ new = PDOStop(off)
      \/ new = y
  BY Zenon DEF Switch, SyncSwitched, PDOInit, sendPDOevent
<1>3. /\ x \in Producers /\ SameTables(d, x) /\ SameParameters(d, x)
      /\ x.csPDO = d.csPDO /\ x.registered = d.registered
      /\ x.csSYNC = d.csSYNC /\ x.syncRegistered = d.syncRegistered
      /\ x.generates = d.generates /\ x.Sync_Cycle_Period = d.Sync_Cycle_Period
  BY <1>1 DEF Producers, SameTables, SameParameters
<1>4. Tidy(x) /\ SamePDOs(d, x)
  <2> HIDE DEF x
  <2> QED BY <1>1, <1>3, TidyTables, SettingsStay
<1>5. SyncInOrder(x)
  BY <1>1, <1>3 DEF Good, SyncInOrder, SameTables
<1> HIDE DEF x, y
<1>6. Tidy(y) /\ SamePDOs(x, y) /\ SyncInOrder(y)
  BY <1>4, <1>5, SyncSwitchedInOrder DEF y
<1>7. SamePDOs(d, y)
  BY <1>4, <1>6, SamePDOsTwice
<1>8. PDOsInOrder(y, since)
  BY <1>1, <1>7, PDOsStay DEF Good
<1>9. y \in Producers
  BY <1>6 DEF Tidy
<1>10. CASE ~y.csPDO /\ new = AllPDOs(registered, 0)
  <2> DEFINE z == registered
  <2>1. /\ z \in Producers /\ SameTables(y, z) /\ SameParameters(y, z)
        /\ z.csPDO /\ z.registered
        /\ z.csSYNC = y.csSYNC /\ z.syncRegistered = y.syncRegistered
        /\ z.generates = y.generates /\ z.Sync_Cycle_Period = y.Sync_Cycle_Period
    BY <1>9 DEF Producers, SameTables, SameParameters
  <2>2. new = AllPDOs(z, 0)
    BY <1>10
  <2> HIDE DEF z, registered
  <2>3. Tidy(z)
    BY <1>6, <2>1, TidyTables
  <2>4. SyncInOrder(z)
    BY <1>6, <2>1 DEF SyncInOrder, SameTables
  <2>5. ASSUME NEW p \in TPDOs PROVE InOrder(z, p, SinceIn(z, since, p))
    <3>1. Off(y, p) /\ y.last_message[p].cob_id \in {p, NoCobId}
      BY <1>8, <1>10 DEF PDOsInOrder
    <3>2. Off(z, p) /\ z.last_message[p].cob_id \in {p, NoCobId}
      BY <2>1, <3>1 DEF Off, SameTables
    <3>3. since[p] = Never
      BY <1>7, <1>10 DEF ProducerInvariant, SamePDOs
    <3>4. DOMAIN z.out = {}
      <4>1. z.out = <<>>
        BY <1>1, <1>7, <2>1 DEF SamePDOs, SameTables
      <4> QED BY <4>1
    <3>5. SinceIn(z, since, p) = Never
      BY <3>3, <3>4 DEF SinceIn, Sends
    <3> QED BY <2>1, <3>2, <3>5, OffInOrder
  <2>6. Good(z, since)
    BY <2>1, <2>3, <2>4, <2>5 DEF Good, PDOsInOrder
  <2> QED BY <2>2, <2>6, AllPDOsGood
<1>11. CASE new = PDOStop(off)
  <2> DEFINE z == off
  <2>1. /\ z \in Producers /\ SameTables(y, z) /\ ~z.csPDO
        /\ z.csSYNC = y.csSYNC /\ z.syncRegistered = y.syncRegistered
        /\ z.generates = y.generates /\ z.Sync_Cycle_Period = y.Sync_Cycle_Period
    BY <1>9 DEF Producers, SameTables
  <2>2. new = PDOStop(z)
    BY <1>11
  <2> HIDE DEF z, off
  <2>3. Tidy(z)
    BY <1>6, <2>1, TidyTables
  <2>4. SyncInOrder(z)
    BY <1>6, <2>1 DEF SyncInOrder, SameTables
  <2>5. /\ Tidy(new) /\ SameSettings(z, new) /\ SameTimer(z, new, Sync)
        /\ \A p \in TPDOs : Off(new, p) /\ new.last_message[p].cob_id = NoCobId
    BY <2>2, <2>3, StopTurnsOff
  <2>6. SyncInOrder(new)
    BY <2>4, <2>5, SyncStays
  <2> QED BY <2>1, <2>5, <2>6 DEF Good, PDOsInOrder, SameSettings
<1>12. CASE new = y
  BY <1>6, <1>8, <1>12 DEF Good
<1> QED BY <1>2, <1>10, <1>11, <1>12

-----------------------------------------------------------------------------
(***************************************************************************)
(* The steps of the producer.                                              *)
(***************************************************************************)
\* Nothing is armed, inhibited or counted at first.
LEMMA InitInOrder ==
  ASSUME Init
  PROVE  ProducerInvariant
<1>1. PICK v \in Values, type \in [TPDOs -> Types], inhibit \in [TPDOs -> InhibitTimes],
           event \in [TPDOs -> EventTimes], period \in SyncPeriods :
       d = [nodeState |-> Unknown_state, csPDO |-> FALSE, csSYNC |-> FALSE,
            valid |-> [p \in TPDOs |-> TRUE], type |-> type, inhibit |-> inhibit, event |-> event,
            value |-> [p \in TPDOs |-> v],
            last_message |-> [p \in TPDOs |-> [cob_id |-> NoCobId, value |-> NoValue]],
            transmit_type_parameter |-> [p \in TPDOs |-> 0],
            alarms |-> EmptyTable, handle |-> [a \in AlarmNames |-> TIMER_NONE],
            generates |-> TRUE, Sync_Cycle_Period |-> period,
            registered |-> FALSE, syncRegistered |-> FALSE, out |-> <<>>]
  BY Zenon DEF Init
<1>2. /\ type \in [TPDOs -> Nat] /\ event \in [TPDOs -> Nat] /\ period \in Nat
      /\ inhibit \in [TPDOs -> 0 .. Longest]
  <2>1. Types \subseteq Nat /\ EventTimes \subseteq Nat /\ SyncPeriods \subseteq Nat
        /\ InhibitTimes \subseteq 0 .. Longest
    BY ProcessDataAssumption
  <2> QED BY <2>1
<1>3. EmptyTable \in Tables(AlarmNames) /\ UsedRows(EmptyTable) = {}
  BY DEF EmptyTable, FreeRow, Tables, AlarmRows, UsedRows
<1>4. /\ d.nodeState = Unknown_state /\ d.csPDO = FALSE /\ d.csSYNC = FALSE
      /\ d.alarms = EmptyTable /\ d.handle = [a \in AlarmNames |-> TIMER_NONE]
      /\ d.transmit_type_parameter = [p \in TPDOs |-> 0]
      /\ d.last_message = [p \in TPDOs |-> [cob_id |-> NoCobId, value |-> NoValue]]
      /\ d.registered = FALSE /\ d.syncRegistered = FALSE /\ d.out = <<>>
  BY <1>1
<1>5. d \in Producers
  <2>1. /\ [cob_id |-> NoCobId, value |-> NoValue] \in Frames
        /\ <<>> \in Seq(Frames)
        /\ [a \in AlarmNames |-> TIMER_NONE] \in [AlarmNames -> Handles]
    BY DEF Frames, NoCobId, Handles
  <2> HIDE DEF Producers
  <2>2. EmptyTable \in Tables(AlarmNames)
    BY <1>3
  <2> QED BY <1>1, <1>2, <2>1, <2>2 DEF Producers
<1>6. Tidy(d)
  BY <1>3, <1>4, <1>5 DEF Tidy, Matched, Periods
<1>7. SyncInOrder(d)
  BY <1>4, NamesDiffer DEF SyncInOrder
<1>8. since \in [TPDOs -> 0 .. Never] /\ \A p \in TPDOs : since[p] = Never
  BY BoundsAreNumbers DEF Init
<1>9. ASSUME NEW p \in TPDOs PROVE Off(d, p) /\ InOrder(d, p, since[p])
  <2>1. Off(d, p) /\ d.last_message[p].cob_id \in {p, NoCobId}
    BY <1>4, NamesDiffer DEF Off
  <2> QED BY <1>5, <1>8, <2>1, OffInOrder
<1> QED BY <1>4, <1>6, <1>7, <1>8, <1>9 DEF ProducerInvariant

\* A tick later an inhibition is a tick shorter, and the last transmission a tick
\* longer ago.
LEMMA TickInOrder ==
  ASSUME ProducerInvariant, Tick
  PROVE  ProducerInvariant'
<1> DEFINE t == OneTickLater(d.alarms)
           y == WithAlarms(d, t, d.handle)
<1>1. d \in Producers /\ Kept(d.alarms, d.handle, AlarmNames) /\ Tidy(d)
  BY TidyIsKept DEF ProducerInvariant
<1>2. d' = y
  BY <1>1 DEF Tick, WithAlarms, Producers
<1>3. /\ Kept(t, d.handle, AlarmNames)
      /\ \A r \in Rows : /\ t[r].alarm = d.alarms[r].alarm
                         /\ t[r].interval = d.alarms[r].interval
                         /\ t[r].left = IF d.alarms[r].left > 0 THEN d.alarms[r].left - 1
                                        ELSE d.alarms[r].left
  BY <1>1, RowsAssumption, TickKeeps
<1> HIDE DEF t
<1>4. /\ y \in Producers /\ SameSettings(d, y) /\ y.alarms = t /\ y.handle = d.handle
      /\ y.transmit_type_parameter = d.transmit_type_parameter
      /\ y.last_message = d.last_message /\ y.out = d.out
  BY <1>1, <1>3, AlarmsSet DEF Kept
<1> HIDE DEF y
<1>5. \A a \in AlarmNames : d.handle[a] # TIMER_NONE =>
        t[d.handle[a]].interval = d.alarms[d.handle[a]].interval
  BY <1>1, <1>3 DEF Kept, Handles
<1>6. Tidy(y)
  BY <1>1, <1>3, <1>4, <1>5 DEF Tidy, Periods, Kept
<1>7. SyncInOrder(y)
  BY <1>4, <1>5, NamesDiffer DEF ProducerInvariant, SyncInOrder, SameSettings
<1>8. /\ Never = Longest + 1 /\ Longest \in Nat
      /\ since \in [TPDOs -> 0 .. Never]
      /\ since' = [p \in TPDOs |-> IF since[p] < Longest THEN since[p] + 1 ELSE since[p]]
  BY BoundsAreNumbers DEF ProducerInvariant, Tick
<1>9. /\ since' \in [TPDOs -> 0 .. Never]
      /\ \A p \in TPDOs : since'[p] = Never <=> since[p] = Never
  BY <1>8
<1>10. ASSUME NEW p \in TPDOs PROVE InOrder(y, p, since'[p])
  <2>1. InOrder(d, p, since[p])
    BY DEF ProducerInvariant
  <2>2. /\ OnEvent(y, p) <=> OnEvent(d, p)
        /\ Cyclic(y, p) <=> Cyclic(d, p)
        /\ Flagged(y, p) <=> Flagged(d, p)
        /\ y.inhibit[p] = d.inhibit[p] /\ y.event[p] = d.event[p] /\ y.type[p] = d.type[p]
    BY <1>4 DEF SameSettings, OnEvent, Cyclic, Flagged
  <2>3. NotStuck(y, p) /\ y.last_message[p].cob_id \in {p, NoCobId}
    BY <1>4, <2>1, <2>2 DEF InOrder, NotStuck
  <2>4. TimerGoesOn(y, p, since'[p])
    BY <1>4, <1>9, <2>1, <2>2 DEF InOrder, TimerGoesOn
  <2>5. ASSUME p \in Buildable, OnEvent(d, p), since'[p] < d.inhibit[p]
        PROVE  /\ Flagged(d, p) /\ d.handle[Inhibit(p)] # TIMER_NONE
               /\ t[d.handle[Inhibit(p)]].left >= d.inhibit[p] - since'[p]
    <3>1. since[p] \in Nat /\ since'[p] \in Nat /\ d.inhibit[p] \in 0 .. Longest
      BY <1>1, <1>8, <1>9, FieldsOfProducer
    <3>2. since'[p] = since[p] + 1
      <4>1. d.inhibit[p] \in Nat /\ d.inhibit[p] <= Longest
        BY <1>8, <3>1
      <4> QED BY <1>8, <2>5, <3>1, <4>1
    <3>3. d.inhibit[p] \in Nat
      BY <3>1
    <3>4. since[p] < d.inhibit[p]
      BY <2>5, <3>1, <3>2, <3>3
    <3>5. /\ Flagged(d, p) /\ d.handle[Inhibit(p)] # TIMER_NONE
          /\ d.alarms[d.handle[Inhibit(p)]].left >= d.inhibit[p] - since[p]
      BY <2>1, <2>5, <3>4 DEF InOrder, Inhibited
    <3>6. d.handle[Inhibit(p)] \in Rows
      BY <1>1, <3>5, NamesDiffer DEF Kept, Handles
    <3>7. d.alarms[d.handle[Inhibit(p)]].left \in Nat
      BY <1>1, <3>6, RowsAssumption, RowOfTable DEF Kept
    <3>8. t[d.handle[Inhibit(p)]].left >= d.alarms[d.handle[Inhibit(p)]].left - 1
      BY <1>3, <3>6, <3>7
    <3>9. t[d.handle[Inhibit(p)]].left \in Nat
      BY <1>3, <3>6, <3>7
    <3> QED BY <3>1, <3>2, <3>3, <3>5, <3>7, <3>8, <3>9
  <2>6. Inhibited(y, p, since'[p])
    BY <1>4, <2>1, <2>2, <2>5 DEF InOrder, Inhibited
  <2> QED BY <2>3, <2>4, <2>6 DEF InOrder
<1>11. y.csPDO = d.csPDO /\ y.registered = d.registered
  BY <1>4 DEF SameSettings
<1>12. ~y.csPDO => \A p \in TPDOs : Off(y, p) /\ since'[p] = Never
  BY <1>4, <1>9, <1>11 DEF ProducerInvariant, Off
<1> QED BY <1>2, <1>4, <1>6, <1>7, <1>9, <1>10, <1>11, <1>12 DEF ProducerInvariant

\* The content of a PDO is no part of the invariant.
LEMMA ChangeInOrder ==
  ASSUME ProducerInvariant, NEW p \in TPDOs, NEW v \in Values, Change(p, v)
  PROVE  ProducerInvariant'
<1>1. d \in Producers /\ Tidy(d)
  BY DEF ProducerInvariant, Tidy
<1> DEFINE y == [d EXCEPT !.value[p] = v]
<1>2. d' = y /\ since' = since
  BY DEF Change
<1>3. /\ y \in Producers /\ SameTables(d, y) /\ SameParameters(d, y)
      /\ y.csPDO = d.csPDO /\ y.csSYNC = d.csSYNC /\ y.generates = d.generates
      /\ y.Sync_Cycle_Period = d.Sync_Cycle_Period
      /\ y.registered = d.registered /\ y.syncRegistered = d.syncRegistered
  BY <1>1 DEF Producers, SameTables, SameParameters
<1> HIDE DEF y
<1>4. Tidy(y)
  BY <1>1, <1>3, TidyTables
<1>5. SyncInOrder(y)
  BY <1>3 DEF ProducerInvariant, SyncInOrder, SameTables
<1>6. ASSUME NEW q \in TPDOs PROVE InOrder(y, q, since[q]) /\ (Off(d, q) => Off(y, q))
  <2>1. Untouched(d, y, q)
    BY <1>3, SettingsStay DEF SamePDOs
  <2>2. InOrder(d, q, since[q])
    BY DEF ProducerInvariant
  <2> QED BY <1>3, <2>1, <2>2, UntouchedInOrder DEF Off, SameTables
<1>7. y.out = <<>>
  BY <1>3 DEF SameTables, ProducerInvariant
<1> QED BY <1>2, <1>3, <1>4, <1>5, <1>6, <1>7 DEF ProducerInvariant

\* An alarm is called.
LEMMA CallInOrder ==
  ASSUME ProducerInvariant, NEW r \in Rows, CallAlarm(r)
  PROVE  ProducerInvariant'
<1> DEFINE alarm == d.alarms[r].alarm
           called == [d EXCEPT !.alarms = Called(d.alarms, r)]
           new == IF alarm = Sync THEN SyncAlarm(called)
                  ELSE IF alarm = Event(alarm[2]) THEN PDOEventTimerAlarm(called, alarm[2])
                  ELSE PDOInhibitTimerAlarm(called, alarm[2])
<1>1. Due(d.alarms, r)
  BY DEF CallAlarm
<1>2. alarm \in AlarmNames
  <2>1. d.alarms \in Tables(AlarmNames)
    BY FieldsOfProducer DEF ProducerInvariant, Tidy
  <2>2. r \in UsedRows(d.alarms)
    BY <1>1 DEF Due
  <2> QED BY <2>1, <2>2, RowsAssumption, RowOfTable
<1>3. Becomes(new)
  BY DEF CallAlarm
<1>4. Good(new, since)
  <2>1. CASE alarm = Sync
    <3>1. new = SyncAlarm(called)
      BY <2>1
    <3> HIDE DEF new
    <3> QED BY <1>1, <2>1, <3>1, SyncAlarmGood
  <2>2. ASSUME NEW p \in TPDOs, alarm = Event(p) PROVE Good(new, since)
    <3>1. alarm[2] = p /\ alarm # Sync
      BY <2>2, NamesDiffer DEF Event
    <3>2. new = PDOEventTimerAlarm(called, p)
      BY <2>2, <3>1
    <3> HIDE DEF new
    <3> QED BY <1>1, <2>2, <3>2, EventAlarmGood
  <2>3. ASSUME NEW p \in TPDOs, alarm = Inhibit(p) PROVE Good(new, since)
    <3>1. alarm[2] = p
      BY <2>3 DEF Inhibit
    <3>2. alarm # Sync /\ alarm # Event(p)
      BY <2>3, NamesDiffer
    <3>3. new = PDOInhibitTimerAlarm(called, p)
      BY <3>1, <3>2
    <3> HIDE DEF new
    <3> QED BY <1>1, <2>3, <3>3, InhibitAlarmGood
  <2> HIDE DEF new, alarm
  <2> QED BY <1>2, <2>1, <2>2, <2>3, NamesAre
<1> HIDE DEF new
<1> QED BY <1>3, <1>4, BecomesKeeps

\* A request is answered.
LEMMA RequestKeeps ==
  ASSUME ProducerInvariant, NEW p \in TPDOs, Request(p)
  PROVE  ProducerInvariant'
<1> DEFINE new == proceedPDORequest(d, p)
<1>1. d.csPDO /\ Becomes(new)
  BY DEF Request
<1>2. Good(d, since) /\ AllInOrder(d, since)
  BY InvariantIsGood
<1>3. new = proceedPDORequest(d, p)
  OBVIOUS
<1> HIDE DEF new
<1>4. AllInOrder(new, since) /\ OnlyPDO(d, new, p)
  BY <1>1, <1>2, <1>3, RequestInOrder
<1>5. Good(new, since)
  BY <1>1, <1>2, <1>4, InOrderIsGood DEF OnlyPDO
<1> QED BY <1>1, <1>5, BecomesKeeps

\* A parameter of a PDO is written.
LEMMA WritePDOKeeps ==
  ASSUME ProducerInvariant, NEW p \in TPDOs,
         NEW type \in [TPDOs -> Nat], NEW inhibit \in [TPDOs -> 0 .. Longest],
         NEW event \in [TPDOs -> Nat],
         \A q \in TPDOs : q # p => /\ type[q] = d.type[q] /\ inhibit[q] = d.inhibit[q]
                                   /\ event[q] = d.event[q],
         WritePDO(p, WithParameters(d, type, inhibit, event))
  PROVE  ProducerInvariant'
<1> DEFINE x == WithParameters(d, type, inhibit, event)
           new == IF d.registered THEN TPDO_Communication_Parameter_Callback(x, p) ELSE x
<1>1. Becomes(new)
  BY DEF WritePDO, Writes
<1>2. Good(new, since)
  <2>1. x = WithParameters(d, type, inhibit, event)
    OBVIOUS
  <2> HIDE DEF x
  <2> QED BY <2>1, WriteGood
<1> HIDE DEF new
<1> QED BY <1>1, <1>2, BecomesKeeps

\* Bit 31 of a COB-id is written.
LEMMA WriteCOBIDKeeps ==
  ASSUME ProducerInvariant, NEW p \in TPDOs, WriteCOBID(p)
  PROVE  ProducerInvariant'
<1> DEFINE y == [d EXCEPT !.valid[p] = ~d.valid[p]]
<1>1. d \in Producers /\ Tidy(d) /\ Good(d, since)
  BY InvariantIsGood DEF Good
<1>2. Becomes(y)
  BY Zenon DEF WriteCOBID, Writes
<1>3. /\ y \in Producers /\ SameTables(d, y) /\ SameParameters(d, y)
      /\ y.csPDO = d.csPDO /\ y.csSYNC = d.csSYNC /\ y.generates = d.generates
      /\ y.Sync_Cycle_Period = d.Sync_Cycle_Period
      /\ y.registered = d.registered /\ y.syncRegistered = d.syncRegistered
  BY <1>1 DEF Producers, SameTables, SameParameters
<1> HIDE DEF y
<1>4. Tidy(y)
  BY <1>1, <1>3, TidyTables
<1>5. SyncInOrder(y)
  BY <1>1, <1>3 DEF Good, SyncInOrder, SameTables
<1>6. PDOsInOrder(y, since)
  BY <1>1, <1>3, SettingsStay, PDOsStay DEF Good
<1> QED BY <1>2, <1>4, <1>5, <1>6, BecomesKeeps DEF Good

\* Every step.
LEMMA StepInOrder ==
  ASSUME ProducerInvariant, [Next]_vars
  PROVE  ProducerInvariant'
<1>1. d \in Producers /\ Good(d, since)
  BY InvariantIsGood
<1>2. /\ d.type \in [TPDOs -> Nat] /\ d.inhibit \in [TPDOs -> 0 .. Longest]
      /\ d.event \in [TPDOs -> Nat]
  BY <1>1, FieldsOfProducer
<1>3. CASE Tick
  BY <1>3, TickInOrder
<1>4. ASSUME NEW r \in Rows, CallAlarm(r) PROVE ProducerInvariant'
  BY <1>4, CallInOrder
<1>5. ASSUME NEW p \in TPDOs, NEW v \in Values, Change(p, v) PROVE ProducerInvariant'
  BY <1>5, ChangeInOrder
<1>6. CASE Signal
  <2>1. Becomes(AllPDOs(d, 0))
    BY <1>6 DEF Signal, sendPDOevent
  <2> QED BY <1>1, <2>1, AllPDOsGood, BecomesKeeps
<1>7. CASE ReceiveSYNC
  <2>1. Becomes(AllPDOs(d, 1))
    BY <1>7 DEF ReceiveSYNC, proceedSYNC
  <2> QED BY <1>1, <2>1, AllPDOsGood, BecomesKeeps
<1>8. ASSUME NEW p \in TPDOs, Request(p) PROVE ProducerInvariant'
  BY <1>8, RequestKeeps
<1>9. ASSUME NEW state \in {Pre_operational, Operational, Stopped}, setState(state)
      PROVE  ProducerInvariant'
  <2> DEFINE new == Switch([d EXCEPT !.nodeState = state], state)
  <2>1. Becomes(new) /\ new = Switch([d EXCEPT !.nodeState = state], state)
    BY <1>9 DEF setState
  <2> HIDE DEF new
  <2>2. Good(new, since)
    BY <2>1, SwitchGood
  <2> QED BY <2>1, <2>2, BecomesKeeps
<1>10. ASSUME NEW p \in TPDOs, NEW type \in Types, WriteType(p, type)
       PROVE  ProducerInvariant'
  <2> DEFINE new == [d.type EXCEPT ![p] = type]
  <2>1. type \in Nat
    BY ProcessDataAssumption
  <2>2. new \in [TPDOs -> Nat] /\ \A q \in TPDOs : q # p => new[q] = d.type[q]
    BY <1>2, <2>1
  <2>3. [d EXCEPT !.type[p] = type] = WithParameters(d, new, d.inhibit, d.event)
    BY <1>1 DEF Producers, WithParameters
  <2>4. WritePDO(p, WithParameters(d, new, d.inhibit, d.event))
    BY <1>10, <2>3 DEF WriteType
  <2> HIDE DEF new
  <2> QED BY <1>2, <2>2, <2>4, WritePDOKeeps
<1>11. ASSUME NEW p \in TPDOs, NEW time \in InhibitTimes, WriteInhibit(p, time)
       PROVE  ProducerInvariant'
  <2> DEFINE new == [d.inhibit EXCEPT ![p] = time]
  <2>1. time \in 0 .. Longest
    BY ProcessDataAssumption, BoundsAreNumbers
  <2>2. new \in [TPDOs -> 0 .. Longest] /\ \A q \in TPDOs : q # p => new[q] = d.inhibit[q]
    BY <1>2, <2>1
  <2>3. [d EXCEPT !.inhibit[p] = time] = WithParameters(d, d.type, new, d.event)
    BY <1>1 DEF Producers, WithParameters
  <2>4. WritePDO(p, WithParameters(d, d.type, new, d.event))
    BY <1>11, <2>3 DEF WriteInhibit
  <2> HIDE DEF new
  <2>5. new \in [TPDOs -> 0 .. Longest] /\ d.type \in [TPDOs -> Nat]
        /\ d.event \in [TPDOs -> Nat]
    BY <1>2, <2>2
  <2>6. \A q \in TPDOs : q # p => /\ d.type[q] = d.type[q] /\ new[q] = d.inhibit[q]
                                  /\ d.event[q] = d.event[q]
    BY <2>2
  <2> QED BY <2>4, <2>5, <2>6, WritePDOKeeps
<1>12. ASSUME NEW p \in TPDOs, NEW time \in EventTimes, WriteEvent(p, time)
       PROVE  ProducerInvariant'
  <2> DEFINE new == [d.event EXCEPT ![p] = time]
  <2>1. time \in Nat
    BY ProcessDataAssumption
  <2>2. new \in [TPDOs -> Nat] /\ \A q \in TPDOs : q # p => new[q] = d.event[q]
    BY <1>2, <2>1
  <2>3. [d EXCEPT !.event[p] = time] = WithParameters(d, d.type, d.inhibit, new)
    BY <1>1 DEF Producers, WithParameters
  <2>4. WritePDO(p, WithParameters(d, d.type, d.inhibit, new))
    BY <1>12, <2>3 DEF WriteEvent
  <2> HIDE DEF new
  <2> QED BY <1>2, <2>2, <2>4, WritePDOKeeps
<1>13. ASSUME NEW p \in TPDOs, WriteCOBID(p) PROVE ProducerInvariant'
  BY <1>13, WriteCOBIDKeeps
<1>14. ASSUME NEW generates \in BOOLEAN, NEW period \in SyncPeriods,
              WriteSYNC(generates, period)
       PROVE  ProducerInvariant'
  <2> DEFINE x == [d EXCEPT !.generates = generates, !.Sync_Cycle_Period = period]
             new == IF d.syncRegistered THEN OnCOB_ID_SyncUpdate(x) ELSE x
  <2>1. period \in Nat
    BY ProcessDataAssumption
  <2>2. Becomes(new)
    BY <1>14 DEF WriteSYNC, Writes
  <2>3. Good(new, since)
    <3>1. x = [d EXCEPT !.generates = generates, !.Sync_Cycle_Period = period]
      OBVIOUS
    <3> HIDE DEF x
    <3> QED BY <2>1, <3>1, WriteSYNCGood
  <2> HIDE DEF new
  <2> QED BY <2>2, <2>3, BecomesKeeps
<1>15. CASE UNCHANGED vars
  <2>1. d' = d /\ since' = since
    BY <1>15 DEF vars
  <2>2. \A p \in TPDOs : since'[p] = since[p]
    BY <2>1
  <2> QED BY <2>1, <2>2 DEF ProducerInvariant
<1> QED BY <1>3, <1>4, <1>5, <1>6, <1>7, <1>8, <1>9, <1>10, <1>11, <1>12, <1>13, <1>14, <1>15
        DEF Next

(***************************************************************************)
(* Whatever the application signals, masters request and write, SYNCs and  *)
(* timers do, in every order: ProducerInvariant.                           *)
(***************************************************************************)
THEOREM ProducerStaysInOrder == Spec => []ProducerInvariant
<1>1. Init => ProducerInvariant
  BY InitInOrder
<1>2. ProducerInvariant /\ [Next]_vars => ProducerInvariant'
  BY StepInOrder
<1> QED BY <1>1, <1>2, PTL DEF Spec

\* The timers of PDO and SYNC match the handles the dictionary keeps of them.
THEOREM TimersBelongToTheirPDO == Spec => []TimersMatchHandles
<1>1. ProducerInvariant => TimersMatchHandles
  BY DEF ProducerInvariant, Tidy, Matched, TimersMatchHandles
<1> QED BY <1>1, ProducerStaysInOrder, PTL

\* transmit_type_parameter inhibits no PDO without a timer, and counts no cyclic
\* PDO beyond its type.
THEOREM PDOsAreNotStuck == Spec => []NoPDOIsStuck
<1>1. ProducerInvariant => NoPDOIsStuck
  BY DEF ProducerInvariant, InOrder, NotStuck, NoPDOIsStuck
<1> QED BY <1>1, ProducerStaysInOrder, PTL

\* A PDO with an event time is timed, or sent when its inhibition ends.
THEOREM EventTimersGoOn == Spec => []EventTimerGoesOn
<1>1. ProducerInvariant => EventTimerGoesOn
  BY TPDOsAreNumbers DEF ProducerInvariant, InOrder, TimerGoesOn, EventTimerGoesOn
<1> QED BY <1>1, ProducerStaysInOrder, PTL

\* SYNC is generated, and writes of its objects heard of, as the dictionary says.
THEOREM SyncIsGenerated == Spec => []SyncFollowsDictionary
<1>1. ProducerInvariant => SyncFollowsDictionary
  <2> SUFFICES ASSUME ProducerInvariant PROVE SyncFollowsDictionary
    OBVIOUS
  <2>1. d \in Producers /\ SyncInOrder(d)
    BY DEF ProducerInvariant, Tidy
  <2>2. d.syncRegistered \in BOOLEAN /\ d.csSYNC \in BOOLEAN /\ d.generates \in BOOLEAN
    BY <2>1, FieldsOfProducer
  <2> QED BY <2>1, <2>2 DEF SyncInOrder, SyncFollowsDictionary
<1> QED BY <1>1, ProducerStaysInOrder, PTL

\* A PDO that is marked and asked for again is not sent while it is inhibited.
LEMMA InhibitedIsNotForced ==
  ASSUME NEW x \in Producers, x.out = <<>>, NEW p \in TPDOs,
         Flagged(x, p) \/ p \notin Buildable
  PROVE  ~Sends(PDOEventTimerAlarm(x, p), p)
<1> DEFINE z == [x EXCEPT !.handle[Event(p)] = TIMER_NONE,
                          !.last_message[p].cob_id = NoCobId]
<1>1. z.out = x.out /\ z.transmit_type_parameter = x.transmit_type_parameter
  BY DEF Producers
<1>2. PDOEventTimerAlarm(x, p) = sendOnePDOevent(z, p)
  BY DEF PDOEventTimerAlarm
<1> HIDE DEF z
<1>3. Flagged(z, p) \/ p \notin Buildable
  BY <1>1 DEF Flagged
<1>4. PDOEventTimerAlarm(x, p) = z
  BY <1>2, <1>3 DEF sendOnePDOevent
<1>5. DOMAIN z.out = {}
  BY <1>1
<1> QED BY <1>4, <1>5 DEF Sends

\* Between two transmissions of a PDO on event lies its inhibit time.
THEOREM InhibitTimesAreKept == Spec => []InhibitTimeIsKept
<1>1. ProducerInvariant => InhibitTimeIsKept
  <2> SUFFICES ASSUME ProducerInvariant, NEW p \in TPDOs,
                      OnEvent(d, p), since[p] < d.inhibit[p]
               PROVE  /\ ~Sends(sendPDOevent(d), p)
                      /\ ~Sends(PDOEventTimerAlarm(d, p), p)
                      /\ \A r \in Rows : Due(d.alarms, r) => d.alarms[r].alarm # Inhibit(p)
    BY Zenon DEF InhibitTimeIsKept
  <2>1. /\ d \in Producers /\ d.out = <<>> /\ ~Sends(d, p) /\ AllInOrder(d, since)
        /\ InOrder(d, p, since[p])
    BY InvariantIsGood DEF ProducerInvariant
  <2>2. d.inhibit[p] \in 0 .. Longest /\ since[p] \in 0 .. Never
    BY <2>1, FieldsOfProducer DEF ProducerInvariant
  <2>3. since[p] # Never /\ d.inhibit[p] \in Nat /\ since[p] \in Nat
    BY <2>2, BoundsAreNumbers
  <2>4. d.csPDO
    BY <2>3 DEF ProducerInvariant
  <2>5. Flagged(d, p) \/ p \notin Buildable
    BY <2>1 DEF InOrder, Inhibited
  <2>6. ~Sends(sendPDOevent(d), p)
    BY <2>1, <2>4, <2>5, RefusedIsNotSent DEF sendPDOevent
  <2>7. ~Sends(PDOEventTimerAlarm(d, p), p)
    BY <2>1, <2>5, InhibitedIsNotForced
  <2>8. ASSUME NEW r \in Rows, Due(d.alarms, r), d.alarms[r].alarm = Inhibit(p)
        PROVE  FALSE
    <3>1. d.handle[Inhibit(p)] = r /\ r # TIMER_NONE
      BY <2>8, NoneIsNoRow DEF ProducerInvariant, Tidy, Matched, Due
    <3>2. d.alarms[d.handle[Inhibit(p)]].left >= d.inhibit[p] - since[p]
      BY <2>1, <3>1 DEF InOrder, Inhibited
    <3>3. d.alarms[r].left = 0
      BY <2>8 DEF Due
    <3> QED BY <2>3, <3>1, <3>2, <3>3
  <2> QED BY <2>6, <2>7, <2>8
<1> QED BY <1>1, ProducerStaysInOrder, PTL

=============================================================================
