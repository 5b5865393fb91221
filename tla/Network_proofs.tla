---------------------------- MODULE Network_proofs ----------------------------
(***************************************************************************)
(* Proofs about Network: on every node the alarms of life guarding match   *)
(* their handles, and a node somebody believes in is watched, whatever     *)
(* the order of state changes, writes, frames, expirations and crashes.    *)
(*                                                                         *)
(* x is a state of node n before an operation, y the one after it.         *)
(***************************************************************************)
EXTENDS Network, FiniteSetTheorems, WellFoundedInduction, TLAPS

-----------------------------------------------------------------------------
(***************************************************************************)
(* The alarm table: what SetAlarm, DelAlarm, a call and a tick do to a     *)
(* table t and to the handles h that its users N keep of their alarms.     *)
(***************************************************************************)
AlarmRows(N) == [alarm : N \cup {NoAlarm}, left : Nat, interval : Nat]
Tables(N) == [Rows -> AlarmRows(N)]

\* Every handle is of a row that calls its owner, and every used row is held.
Matched(t, h, N) ==
  /\ \A a \in N : h[a] # TIMER_NONE => t[h[a]].alarm = a
  /\ \A r \in UsedRows(t) : h[t[r].alarm] = r

Kept(t, h, N) ==
  /\ t \in Tables(N)
  /\ h \in [N -> Handles]
  /\ Matched(t, h, N)

\* Nothing happens to the alarm of b.
SameAlarm(t, h, new, k, b) == k[b] = h[b] /\ (h[b] # TIMER_NONE => new[h[b]] = t[h[b]])

-----------------------------------------------------------------------------
\* TIMER_NONE is no row.
LEMMA NoneIsNoRow == TIMER_NONE \notin Rows /\ Rows \subseteq Nat
BY AlarmsAssumption DEF TIMER_NONE, Rows

\* SetAlarm finds the first free row.
LEMMA AllocatedIsFree ==
  ASSUME NEW t, UsedRows(t) # Rows
  PROVE  Allocated(t) \in Rows \ UsedRows(t)
<1> DEFINE S == Rows \ UsedRows(t)
<1>1. S \subseteq Nat /\ S # {}
  BY NoneIsNoRow DEF UsedRows
<1>2. IsWellFoundedOn(OpToRel(<, Nat), Nat)
  BY NatLessThanWellFounded, Zenon
<1>3. PICK r \in S : \A q \in S : ~(<<q, r>> \in OpToRel(<, Nat))
  <2> HIDE DEF S
  <2> QED BY <1>1, <1>2, WFMin, Zenon
<1>4. \A q \in S : ~(q < r)
  BY <1>1, <1>3, Zenon DEF OpToRel
<1>5. ASSUME NEW q \in S PROVE r <= q
  <2>1. r \in Nat /\ q \in Nat
    BY <1>1
  <2> QED BY <1>4, <2>1
<1> QED BY <1>5, Zenon DEF Allocated

\* A full table gives no row.
LEMMA NothingAllocated ==
  ASSUME NEW t, UsedRows(t) = Rows
  PROVE  Allocated(t) = TIMER_NONE
BY DEF Allocated

\* A row of a table.
LEMMA RowOfTable ==
  ASSUME NEW N, NoAlarm \notin N, NEW t \in Tables(N), NEW r \in Rows
  PROVE  /\ t[r] \in AlarmRows(N)
         /\ t[r].alarm \in N \cup {NoAlarm} /\ t[r].left \in Nat /\ t[r].interval \in Nat
         /\ r \in UsedRows(t) <=> t[r].alarm \in N
         /\ r \in UsedRows(t) <=> t[r].alarm # NoAlarm
BY DEF Tables, AlarmRows, UsedRows

\* Owners have rows of their own.
LEMMA OwnRows ==
  ASSUME NEW N, NoAlarm \notin N, NEW t, NEW h, Kept(t, h, N), NEW a \in N, h[a] # TIMER_NONE
  PROVE  /\ h[a] \in UsedRows(t) /\ h[a] \in Rows /\ t[h[a]].alarm = a
         /\ \A b \in N : b # a => h[b] # h[a]
<1>1. h[a] \in Rows /\ t[h[a]].alarm = a
  BY DEF Kept, Matched, Handles
<1>2. ASSUME NEW b \in N, b # a PROVE h[b] # h[a]
  BY <1>1, <1>2 DEF Kept, Matched
<1> QED BY <1>1, <1>2 DEF UsedRows

\* Owners whose rows are left alone.
LEMMA OthersKeepRows ==
  ASSUME NEW N, NoAlarm \notin N, NEW t, NEW h, Kept(t, h, N), NEW a \in N,
         NEW new, NEW f, \A r \in UsedRows(t) : r # h[a] => new[r] = t[r],
         NEW b \in N, b # a
  PROVE  SameAlarm(t, h, new, [h EXCEPT ![a] = f], b)
<1>1. [h EXCEPT ![a] = f][b] = h[b]
  BY DEF Kept
<1>2. ASSUME h[b] # TIMER_NONE PROVE new[h[b]] = t[h[b]]
  BY <1>2, OwnRows
<1> QED BY <1>1, <1>2 DEF SameAlarm

\* A new row.
LEMMA NewRowIsARow ==
  ASSUME NEW N, NEW a \in N, NEW value \in Nat, NEW period \in Nat
  PROVE  [alarm |-> a, left |-> value, interval |-> period] \in AlarmRows(N)
BY DEF AlarmRows

\* The free row.
LEMMA FreeRowIsARow ==
  ASSUME NEW N
  PROVE  FreeRow \in AlarmRows(N) /\ FreeRow.alarm = NoAlarm
BY DEF AlarmRows, FreeRow

-----------------------------------------------------------------------------
(***************************************************************************)
(* Operations of the table.                                                *)
(***************************************************************************)
\* SetAlarm, for an owner without an alarm: whether there is a row or not, the
\* handle it returns is right, and no other owner's row changes.
LEMMA SetAlarmKeeps ==
  ASSUME NEW N, NoAlarm \notin N, NEW t, NEW h, Kept(t, h, N),
         NEW a \in N, h[a] = TIMER_NONE, NEW value \in Nat, NEW period \in Nat
  PROVE  /\ Kept(SetAlarm(t, a, value, period), [h EXCEPT ![a] = Allocated(t)], N)
         /\ \A b \in N \ {a} : SameAlarm(t, h, SetAlarm(t, a, value, period),
                                         [h EXCEPT ![a] = Allocated(t)], b)
<1> DEFINE row == [alarm |-> a, left |-> value, interval |-> period]
           new == SetAlarm(t, a, value, period)
           k == [h EXCEPT ![a] = Allocated(t)]
<1>1. t \in Tables(N) /\ h \in [N -> Handles] /\ Matched(t, h, N)
  BY DEF Kept
<1>2. row \in AlarmRows(N) /\ row.alarm = a
  BY NewRowIsARow
<1>3. CASE UsedRows(t) = Rows
  <2>1. Allocated(t) = TIMER_NONE
    BY <1>3, NothingAllocated
  <2>2. new = t
    BY <2>1 DEF SetAlarm
  <2>3. k = h
    <3> HIDE DEF k
    <3> QED BY <1>1, <2>1 DEF k
  <2> QED BY <2>2, <2>3 DEF SameAlarm
<1>4. CASE UsedRows(t) # Rows
  <2> DEFINE f == Allocated(t)
  <2>1. f \in Rows /\ f \notin UsedRows(t)
    BY <1>4, AllocatedIsFree
  <2>2. f # TIMER_NONE
    BY <2>1, NoneIsNoRow
  <2>3. new = [t EXCEPT ![f] = row]
    BY <2>2 DEF SetAlarm
  <2> HIDE DEF row, new, f
  <2>4. new \in Tables(N)
    BY <1>1, <1>2, <2>1, <2>3 DEF Tables
  <2>5. new[f] = row /\ \A r \in Rows : r # f => new[r] = t[r]
    BY <1>1, <2>1, <2>3 DEF Tables
  <2>6. k \in [N -> Handles] /\ k[a] = f /\ \A b \in N : b # a => k[b] = h[b]
    BY <1>1, <2>1 DEF f, Handles
  <2> HIDE DEF k
  <2>7. ASSUME NEW b \in N, k[b] # TIMER_NONE PROVE new[k[b]].alarm = b
    <3>1. CASE b = a
      BY <1>2, <2>5, <2>6, <3>1
    <3>2. CASE b # a
      <4>1. k[b] = h[b] /\ h[b] \in Rows
        BY <1>1, <2>6, <2>7, <3>2 DEF Handles
      <4>2. t[h[b]].alarm = b
        BY <1>1, <2>7, <4>1 DEF Matched
      <4>3. h[b] # f
        BY <2>1, <4>1, <4>2 DEF UsedRows
      <4> QED BY <2>5, <4>1, <4>2, <4>3
    <3> QED BY <3>1, <3>2
  <2>8. ASSUME NEW r \in UsedRows(new) PROVE k[new[r].alarm] = r
    <3>1. r \in Rows /\ new[r].alarm # NoAlarm
      BY DEF UsedRows
    <3>2. CASE r = f
      BY <1>2, <2>5, <2>6, <3>2
    <3>3. CASE r # f
      <4>1. new[r] = t[r]
        BY <2>5, <3>1, <3>3
      <4>2. r \in UsedRows(t)
        BY <3>1, <4>1 DEF UsedRows
      <4>3. h[t[r].alarm] = r /\ t[r].alarm \in N
        BY <1>1, <4>2, <3>1, RowOfTable DEF Matched
      <4>4. t[r].alarm # a
        BY <4>3, <3>1, NoneIsNoRow
      <4> QED BY <2>6, <4>1, <4>3, <4>4
    <3> QED BY <3>2, <3>3
  <2>9. Matched(new, k, N)
    BY <2>7, <2>8 DEF Matched
  <2>10. \A r \in UsedRows(t) : r # h[a] => new[r] = t[r]
    BY <2>1, <2>5 DEF UsedRows
  <2>11. \A b \in N \ {a} : SameAlarm(t, h, new, k, b)
    BY <2>10, OthersKeepRows DEF k
  <2> QED BY <2>4, <2>6, <2>9, <2>11 DEF Kept, new, k
<1> QED BY <1>3, <1>4

\* The row of a new alarm, if there is one.
LEMMA SetAlarmSets ==
  ASSUME NEW N, NEW t \in Tables(N), UsedRows(t) # Rows,
         NEW a \in N, NEW value \in Nat, NEW period \in Nat
  PROVE  /\ Allocated(t) \in Rows /\ Allocated(t) # TIMER_NONE
         /\ SetAlarm(t, a, value, period)[Allocated(t)] =
              [alarm |-> a, left |-> value, interval |-> period]
<1> DEFINE row == [alarm |-> a, left |-> value, interval |-> period]
           f == Allocated(t)
<1>1. f \in Rows /\ f # TIMER_NONE
  BY AllocatedIsFree, NoneIsNoRow
<1>2. SetAlarm(t, a, value, period) = [t EXCEPT ![f] = row]
  BY <1>1 DEF SetAlarm
<1> HIDE DEF row, f
<1>3. [t EXCEPT ![f] = row][f] = row
  BY <1>1 DEF Tables
<1> QED BY <1>1, <1>2, <1>3 DEF row, f

\* DelAlarm by the owner.
LEMMA DelAlarmKeeps ==
  ASSUME NEW N, NoAlarm \notin N, NEW t, NEW h, Kept(t, h, N), NEW a \in N
  PROVE  /\ Kept(DelAlarm(t, h[a]), [h EXCEPT ![a] = TIMER_NONE], N)
         /\ \A b \in N \ {a} : SameAlarm(t, h, DelAlarm(t, h[a]),
                                         [h EXCEPT ![a] = TIMER_NONE], b)
<1> DEFINE new == DelAlarm(t, h[a])
           k == [h EXCEPT ![a] = TIMER_NONE]
           f == h[a]
<1>1. t \in Tables(N) /\ h \in [N -> Handles] /\ Matched(t, h, N)
  BY DEF Kept
<1>2. CASE f = TIMER_NONE
  <2>1. new = t
    BY <1>2 DEF DelAlarm
  <2>2. k = h
    <3> HIDE DEF k
    <3> QED BY <1>1, <1>2 DEF k
  <2> QED BY <2>1, <2>2 DEF SameAlarm
<1>3. CASE f # TIMER_NONE
  <2>1. f \in Rows /\ t[f].alarm = a
    BY <1>1, <1>3 DEF Handles, Matched
  <2>2. new = [t EXCEPT ![f] = FreeRow]
    BY <1>3 DEF DelAlarm
  <2>3. k \in [N -> Handles] /\ k[a] = TIMER_NONE /\ \A b \in N : b # a => k[b] = h[b]
    BY <1>1 DEF Handles
  <2>4. h[a] = f
    OBVIOUS
  <2> HIDE DEF new, k, f
  <2>5. FreeRow \in AlarmRows(N) /\ FreeRow.alarm = NoAlarm
    BY FreeRowIsARow
  <2>6. new \in Tables(N) /\ new[f] = FreeRow /\ \A r \in Rows : r # f => new[r] = t[r]
    BY <1>1, <2>1, <2>2, <2>5 DEF Tables
  <2>7. ASSUME NEW b \in N, k[b] # TIMER_NONE PROVE new[k[b]].alarm = b
    <3>1. b # a /\ k[b] = h[b] /\ h[b] \in Rows
      BY <1>1, <2>3, <2>7 DEF Handles
    <3>2. t[h[b]].alarm = b
      BY <1>1, <2>7, <3>1 DEF Matched
    <3> QED BY <2>1, <2>6, <3>1, <3>2
  <2>8. ASSUME NEW r \in UsedRows(new) PROVE k[new[r].alarm] = r
    <3>1. r \in Rows /\ new[r].alarm # NoAlarm
      BY DEF UsedRows
    <3>2. r # f /\ new[r] = t[r]
      BY <2>5, <2>6, <3>1
    <3>3. r \in UsedRows(t) /\ t[r].alarm \in N
      BY <1>1, <3>1, <3>2, RowOfTable
    <3>4. h[t[r].alarm] = r
      BY <1>1, <3>3 DEF Matched
    <3> QED BY <2>3, <2>4, <3>2, <3>3, <3>4
  <2>9. \A r \in UsedRows(t) : r # h[a] => new[r] = t[r]
    BY <2>4, <2>6 DEF UsedRows
  <2>10. \A b \in N \ {a} : SameAlarm(t, h, new, k, b)
    BY <2>9, OthersKeepRows DEF k
  <2> QED BY <2>3, <2>6, <2>7, <2>8, <2>10, <2>4 DEF Matched, Kept, new, k, f
<1> QED BY <1>2, <1>3

\* A due one-shot alarm is called: its owner drops the handle.
LEMMA CalledOnceKeeps ==
  ASSUME NEW N, NoAlarm \notin N, NEW t, NEW h, Kept(t, h, N),
         NEW r \in UsedRows(t), t[r].interval = 0
  PROVE  /\ t[r].alarm \in N /\ h[t[r].alarm] = r
         /\ Kept(Called(t, r), [h EXCEPT ![t[r].alarm] = TIMER_NONE], N)
         /\ \A b \in N \ {t[r].alarm} :
              SameAlarm(t, h, Called(t, r), [h EXCEPT ![t[r].alarm] = TIMER_NONE], b)
<1>1. t \in Tables(N) /\ r \in Rows
  BY DEF Kept, UsedRows
<1>2. t[r].alarm \in N
  BY <1>1, RowOfTable
<1>3. h[t[r].alarm] = r
  BY DEF Kept, Matched
<1>4. Called(t, r) = DelAlarm(t, h[t[r].alarm])
  BY <1>1, <1>3, NoneIsNoRow DEF Called, DelAlarm
<1>5. /\ Kept(DelAlarm(t, h[t[r].alarm]), [h EXCEPT ![t[r].alarm] = TIMER_NONE], N)
      /\ \A b \in N \ {t[r].alarm} :
           SameAlarm(t, h, DelAlarm(t, h[t[r].alarm]), [h EXCEPT ![t[r].alarm] = TIMER_NONE], b)
  BY <1>2, DelAlarmKeeps
<1> QED BY <1>2, <1>3, <1>4, <1>5, Zenon

\* A due periodic alarm is called and armed again.
LEMMA CalledAgainKeeps ==
  ASSUME NEW N, NoAlarm \notin N, NEW t, NEW h, Kept(t, h, N),
         NEW r \in UsedRows(t), t[r].interval # 0
  PROVE  /\ t[r].alarm \in N /\ h[t[r].alarm] = r
         /\ Kept(Called(t, r), h, N)
         /\ \A b \in N \ {t[r].alarm} : SameAlarm(t, h, Called(t, r), h, b)
         /\ \A q \in Rows : /\ Called(t, r)[q].alarm = t[q].alarm
                            /\ Called(t, r)[q].interval = t[q].interval
<1> DEFINE new == Called(t, r)
           row == [t[r] EXCEPT !.left = t[r].interval]
<1>1. t \in Tables(N) /\ h \in [N -> Handles] /\ Matched(t, h, N) /\ r \in Rows
  BY DEF Kept, UsedRows
<1>2. t[r] \in AlarmRows(N)
  BY <1>1, RowOfTable
<1>3. row \in AlarmRows(N) /\ row.alarm = t[r].alarm /\ row.interval = t[r].interval
  BY <1>2 DEF AlarmRows
<1>4. new = [t EXCEPT ![r] = row]
  BY <1>1 DEF Called
<1> HIDE DEF new, row
<1>5. new \in Tables(N) /\ new[r] = row /\ \A q \in Rows : q # r => new[q] = t[q]
  BY <1>1, <1>3, <1>4 DEF Tables
<1>6. \A q \in Rows : new[q].alarm = t[q].alarm /\ new[q].interval = t[q].interval
  BY <1>3, <1>5
<1>7. UsedRows(new) = UsedRows(t)
  BY <1>6 DEF UsedRows
<1>8. Matched(new, h, N)
  BY <1>1, <1>6, <1>7, NoneIsNoRow DEF Matched, Handles, UsedRows
<1>9. t[r].alarm \in N /\ h[t[r].alarm] = r
  BY <1>1, RowOfTable DEF Matched
<1>10. ASSUME NEW b \in N \ {t[r].alarm} PROVE SameAlarm(t, h, new, h, b)
  <2>1. \A q \in UsedRows(t) : q # h[t[r].alarm] => new[q] = t[q]
    BY <1>5, <1>9 DEF UsedRows
  <2>2. [h EXCEPT ![t[r].alarm] = h[t[r].alarm]] = h
    BY <1>1
  <2> QED BY <1>9, <2>1, <2>2, OthersKeepRows
<1> QED BY <1>1, <1>5, <1>6, <1>8, <1>9, <1>10 DEF Kept, new

\* A tick changes only the time left, and takes one tick of it.
LEMMA TickKeeps ==
  ASSUME NEW N, NoAlarm \notin N, NEW t, NEW h, Kept(t, h, N)
  PROVE  /\ Kept(OneTickLater(t), h, N)
         /\ \A r \in Rows : /\ OneTickLater(t)[r].alarm = t[r].alarm
                            /\ OneTickLater(t)[r].interval = t[r].interval
                            /\ OneTickLater(t)[r].left =
                                 IF t[r].left > 0 THEN t[r].left - 1 ELSE t[r].left
<1> DEFINE new == OneTickLater(t)
<1>1. t \in Tables(N) /\ h \in [N -> Handles] /\ Matched(t, h, N)
  BY DEF Kept
<1>2. ASSUME NEW r \in Rows
      PROVE  /\ new[r] \in AlarmRows(N)
             /\ new[r].alarm = t[r].alarm /\ new[r].interval = t[r].interval
             /\ new[r].left = IF t[r].left > 0 THEN t[r].left - 1 ELSE t[r].left
  <2>1. t[r] \in AlarmRows(N)
    BY <1>1, RowOfTable
  <2>2. new[r] = IF t[r].left > 0 THEN [t[r] EXCEPT !.left = t[r].left - 1] ELSE t[r]
    BY DEF OneTickLater
  <2> HIDE DEF new
  <2>3. CASE t[r].left > 0
    <3>1. new[r] = [t[r] EXCEPT !.left = t[r].left - 1] /\ t[r].left - 1 \in Nat
      BY <2>1, <2>2, <2>3 DEF AlarmRows
    <3> QED BY <2>1, <2>3, <3>1 DEF AlarmRows
  <2>4. CASE ~(t[r].left > 0)
    BY <2>1, <2>2, <2>4
  <2> QED BY <2>3, <2>4
<1>3. new = [r \in Rows |-> new[r]]
  BY DEF OneTickLater
<1> HIDE DEF new
<1>4. new \in Tables(N)
  BY <1>2, <1>3 DEF Tables
<1>5. UsedRows(new) = UsedRows(t)
  BY <1>2 DEF UsedRows
<1>6. Matched(new, h, N)
  BY <1>1, <1>2, <1>5, NoneIsNoRow DEF Matched, Handles, UsedRows
<1> QED BY <1>1, <1>2, <1>4, <1>6 DEF Kept, new

-----------------------------------------------------------------------------
\* An owner without an alarm finds a row, if there is a row for each.
LEMMA RowLeft ==
  ASSUME NEW N, NoAlarm \notin N, IsFiniteSet(N), Cardinality(N) <= MAX_NB_TIMER,
         NEW t, NEW h, Kept(t, h, N), NEW a \in N, h[a] = TIMER_NONE
  PROVE  UsedRows(t) # Rows
<1> SUFFICES ASSUME UsedRows(t) = Rows PROVE FALSE
  OBVIOUS
<1> DEFINE T == N \ {a}
           owner == [r \in Rows |-> t[r].alarm]
<1>1. IsFiniteSet(T) /\ Cardinality(T) = Cardinality(N) - 1 /\ Cardinality(N) \in Nat
  BY FS_RemoveElement, FS_CardinalityType
<1>2. IsFiniteSet(Rows) /\ Cardinality(Rows) = MAX_NB_TIMER
  <2>1. 0 \in Int /\ MAX_NB_TIMER - 1 \in Int /\ ~(0 > MAX_NB_TIMER - 1)
    BY AlarmsAssumption
  <2>2. IsFiniteSet(0 .. MAX_NB_TIMER - 1)
        /\ Cardinality(0 .. MAX_NB_TIMER - 1) = MAX_NB_TIMER - 1 - 0 + 1
    BY <2>1, FS_Interval
  <2> QED BY <2>2, AlarmsAssumption DEF Rows
<1>3. ASSUME NEW r \in Rows PROVE t[r].alarm \in T /\ h[t[r].alarm] = r
  <2>1. t[r].alarm \in N
    BY RowOfTable DEF Kept
  <2>2. h[t[r].alarm] = r
    BY DEF Kept, Matched
  <2> QED BY <2>1, <2>2, NoneIsNoRow
<1>4. owner \in [Rows -> T]
  BY <1>3
<1>5. Cardinality(T) < Cardinality(Rows)
  BY <1>1, <1>2, AlarmsAssumption
<1>6. PICK x \in Rows, y \in Rows : x # y /\ owner[x] = owner[y]
  <2> HIDE DEF T, owner
  <2> QED BY <1>1, <1>2, <1>4, <1>5, FS_PigeonHole
<1> QED BY <1>3, <1>6

-----------------------------------------------------------------------------
(***************************************************************************)
(* Loops.                                                                  *)
(***************************************************************************)
\* Induction over a loop that counts up to n.
LEMMA LoopInduction ==
  ASSUME NEW n \in Nat, NEW T, 0 \in T, \A k \in 1 .. n : k - 1 \in T => k \in T
  PROVE  \A k \in 0 .. n : k \in T
<1> DEFINE S == (0 .. n) \ T
<1> SUFFICES ASSUME S # {} PROVE FALSE
  OBVIOUS
<1>1. S \subseteq Nat
  OBVIOUS
<1>2. IsWellFoundedOn(OpToRel(<, Nat), Nat)
  BY NatLessThanWellFounded, Zenon
<1>3. PICK k \in S : \A q \in S : ~(<<q, k>> \in OpToRel(<, Nat))
  <2> HIDE DEF S
  <2> QED BY <1>1, <1>2, WFMin, Zenon
<1>4. \A q \in S : ~(q < k)
  BY <1>1, <1>3, Zenon DEF OpToRel
<1>5. k \in 1 .. n /\ k - 1 \in 0 .. n
  <2>1. k \in 0 .. n /\ k # 0
    BY <1>3
  <2> HIDE DEF S
  <2> QED BY <2>1
<1>6. k - 1 \notin S
  BY <1>4, <1>5
<1> QED BY <1>3, <1>5, <1>6

\* A loop of n steps within S: F[i] is its i-th.
Steps(F, n, S) == n \in Nat /\ F \in [1 .. n -> [S -> S]]

\* The states it takes x through.
Run(F, n, S, x) ==
  \E g \in [0 .. n -> S] : g[0] = x /\ \A i \in 1 .. n : g[i] = F[i][g[i - 1]]

\* There are such states.
LEMMA LoopIsDefined ==
  ASSUME NEW n, NEW S, NEW x \in S, NEW F, Steps(F, n, S)
  PROVE  Run(F, n, S, x)
<1>0. n \in Nat /\ F \in [1 .. n -> [S -> S]]
  BY DEF Steps
<1> DEFINE T == {k \in 0 .. n : \E g \in [0 .. k -> S] :
                   g[0] = x /\ \A i \in 1 .. k : g[i] = F[i][g[i - 1]]}
<1>1. 0 \in T
  <2> DEFINE g == [i \in 0 .. 0 |-> x]
  <2>1. g \in [0 .. 0 -> S] /\ g[0] = x /\ \A i \in 1 .. 0 : g[i] = F[i][g[i - 1]]
    OBVIOUS
  <2> HIDE DEF g
  <2> QED BY <1>0, <2>1
<1>2. ASSUME NEW k \in 1 .. n, k - 1 \in T PROVE k \in T
  <2>1. PICK g \in [0 .. k - 1 -> S] :
          g[0] = x /\ \A i \in 1 .. k - 1 : g[i] = F[i][g[i - 1]]
    BY <1>2
  <2> DEFINE h == [i \in 0 .. k |-> IF i = k THEN F[k][g[k - 1]] ELSE g[i]]
  <2>2. g[k - 1] \in S /\ F[k] \in [S -> S]
    <3>1. k - 1 \in 0 .. k - 1
      OBVIOUS
    <3> QED BY <1>0, <2>1, <3>1
  <2>3. h \in [0 .. k -> S]
    <3>1. ASSUME NEW i \in 0 .. k, i # k PROVE g[i] \in S
      <4>1. i \in 0 .. k - 1
        BY <3>1
      <4> QED BY <2>1, <4>1
    <3> QED BY <2>2, <3>1
  <2>4. h[0] = x
    BY <2>1
  <2>5. ASSUME NEW i \in 1 .. k PROVE h[i] = F[i][h[i - 1]]
    <3>1. h[i - 1] = g[i - 1]
      OBVIOUS
    <3>2. CASE i = k
      BY <3>1, <3>2
    <3>3. CASE i # k
      <4>1. i \in 1 .. k - 1 /\ h[i] = g[i]
        BY <3>3
      <4> HIDE DEF h
      <4> QED BY <2>1, <3>1, <4>1
    <3> QED BY <3>2, <3>3
  <2> HIDE DEF h
  <2>6. \E f \in [0 .. k -> S] : f[0] = x /\ \A i \in 1 .. k : f[i] = F[i][f[i - 1]]
    BY <2>3, <2>4, <2>5
  <2>7. k \in 0 .. n
    BY <1>0
  <2> QED BY <2>6, <2>7
<1>3. n \in T
  <2> HIDE DEF T
  <2>1. \A k \in 1 .. n : k - 1 \in T => k \in T
    BY <1>2
  <2>2. \A k \in 0 .. n : k \in T
    BY <1>0, <1>1, <2>1, LoopInduction
  <2>3. n \in 0 .. n
    BY <1>0
  <2> QED BY <2>2, <2>3
<1> QED BY <1>3 DEF Run

-----------------------------------------------------------------------------
States ==
  {Unknown_state, Initialisation, Pre_operational, Operational, Stopped, Disconnected}
Protocols == {"Boot_Up", "SDO", "Emergency", "SYNC", "LifeGuard", "PDO", "LSS"}

Frames ==
  [proto : {"NMT"}, node : Nat, rtr : {FALSE}, arg : Commands]
    \cup [proto : {"NODE_GUARD"}, node : Nat, rtr : BOOLEAN, arg : States]
Delayed == [frame : Frames, age : Nat]

NodeStates(n) ==
  [nodeState : States, communication : SUBSET Protocols, NMTable : [Nodes -> States],
   nodeGuardStatus : [Nodes -> 0 .. MaxUNS8],
   alarms : Tables(AlarmNames(n)), handle : [AlarmNames(n) -> Handles],
   registered : BOOLEAN, out : Seq(Frames),
   ProducerHeartBeatTime : Nat, GuardTime : Nat, LifeTimeFactor : 0 .. MaxUNS8]

\* The alarms that SetAlarm repeats.
Periodic == {Producer, Guard}

Tidy(n, x) ==
  /\ x \in NodeStates(n)
  /\ Matched(x.alarms, x.handle, AlarmNames(n))
  /\ \A a \in AlarmNames(n) : x.handle[a] # TIMER_NONE =>
       (x.alarms[x.handle[a]].interval # 0 <=> a \in Periodic)

NoAlarms(n, x) == \A a \in AlarmNames(n) : x.handle[a] = TIMER_NONE

Feared(x, p) == x.NMTable[p] \in {Unknown_state, Disconnected}

Watching(n, x) ==
  \A i \in Entries(n) :
    \/ ConsumerHeartbeatEntries[n][i].time = 0
    \/ Feared(x, ConsumerHeartbeatEntries[n][i].node)
    \/ x.handle[Consumer(i)] # TIMER_NONE

\* Node n between two steps: it is down, or it guards.
InOrder(n, x) ==
  /\ Tidy(n, x)
  /\ x.nodeState = Unknown_state => NoAlarms(n, x) /\ x.communication = {}
  /\ x.nodeState # Unknown_state => Watching(n, x) /\ "LifeGuard" \in x.communication

NetworkInvariant ==
  /\ node = [n \in Nodes |-> node[n]]
  /\ inbox \in [Nodes -> Seq(Delayed)]
  /\ \A n \in Nodes : InOrder(n, node[n]) /\ node[n].out = <<>>

-----------------------------------------------------------------------------
(***************************************************************************)
(* Names and entries.                                                      *)
(***************************************************************************)
\* What 0x1016 holds.
LEMMA EntriesAre ==
  ASSUME NEW n \in Nodes
  PROVE  /\ ConsumerHeartbeatCount(n) \in Nat
         /\ \A i \in Entries(n) : /\ ConsumerHeartbeatEntries[n][i].node \in Nodes
                                  /\ ConsumerHeartbeatEntries[n][i].time \in Nat
<1>1. ConsumerHeartbeatEntries[n] \in Seq([node : Nodes, time : Nat])
  BY LifeGuardAssumption
<1>2. ConsumerHeartbeatCount(n) \in Nat
  BY <1>1 DEF ConsumerHeartbeatCount
<1>3. ASSUME NEW i \in Entries(n)
      PROVE  ConsumerHeartbeatEntries[n][i] \in [node : Nodes, time : Nat]
  <2> DEFINE R == [node : Nodes, time : Nat]
             entries == ConsumerHeartbeatEntries[n]
  <2>1. entries \in Seq(R) /\ i \in 1 .. Len(entries)
    BY <1>1 DEF Entries, ConsumerHeartbeatCount
  <2> HIDE DEF R, entries
  <2>2. entries[i] \in R
    BY <2>1
  <2> QED BY <2>2 DEF R, entries
<1> QED BY <1>2, <1>3

\* Every alarm has a name of its own.
LEMMA NamesDiffer ==
  ASSUME NEW n
  PROVE  /\ Producer \in AlarmNames(n) /\ Guard \in AlarmNames(n) /\ Producer # Guard
         /\ \A i \in Entries(n) : /\ Consumer(i) \in AlarmNames(n)
                                  /\ Consumer(i) \notin Periodic
                                  /\ \A j \in Entries(n) : j # i => Consumer(j) # Consumer(i)
         /\ \A a \in AlarmNames(n) : a \in Periodic \/ \E i \in Entries(n) : a = Consumer(i)
BY DEF AlarmNames, Periodic, Consumer, Producer, Guard

\* The names are as many as there are.
LEMMA NamesAreFinite ==
  ASSUME NEW n \in Nodes
  PROVE  IsFiniteSet(AlarmNames(n))
<1> DEFINE C == {Consumer(i) : i \in Entries(n)}
<1>1. IsFiniteSet(Entries(n))
  BY EntriesAre, FS_Interval DEF Entries
<1>2. IsFiniteSet(C)
  <2>1. [i \in Entries(n) |-> Consumer(i)] \in Surjection(Entries(n), C)
    BY DEF Surjection
  <2> HIDE DEF C
  <2> QED BY <1>1, <2>1, FS_Surjection
<1>3. IsFiniteSet({Producer}) /\ IsFiniteSet({Guard})
  BY FS_Singleton
<1>4. IsFiniteSet({Producer} \cup {Guard})
  BY <1>3, FS_Union
<1> HIDE DEF C
<1>5. IsFiniteSet(C \cup ({Producer} \cup {Guard}))
  BY <1>2, <1>4, FS_Union
<1>6. C \cup ({Producer} \cup {Guard}) = C \cup {Producer, Guard}
  OBVIOUS
<1> QED BY <1>5, <1>6 DEF AlarmNames, C

\* An owner without an alarm finds a row.
LEMMA RowIsThere ==
  ASSUME NEW n \in Nodes, NEW x, Tidy(n, x), NEW a \in AlarmNames(n),
         x.handle[a] = TIMER_NONE
  PROVE  UsedRows(x.alarms) # Rows
<1>1. Kept(x.alarms, x.handle, AlarmNames(n))
  BY DEF Tidy, Kept, NodeStates
<1> QED BY <1>1, NamesAreFinite, RowsAssumption, RowLeft

-----------------------------------------------------------------------------
(***************************************************************************)
(* Assignments.                                                            *)
(***************************************************************************)
WithAlarms(x, t, h) == [x EXCEPT !.alarms = t, !.handle = h]

\* Nothing but alarms, handles and frames to send differs.
SameSettings(x, y) ==
  /\ y.nodeState = x.nodeState /\ y.communication = x.communication
  /\ y.NMTable = x.NMTable
  /\ y.ProducerHeartBeatTime = x.ProducerHeartBeatTime
  /\ y.GuardTime = x.GuardTime /\ y.LifeTimeFactor = x.LifeTimeFactor

\* New alarms and handles.
LEMMA AlarmsSet ==
  ASSUME NEW n, NEW x \in NodeStates(n),
         NEW t \in Tables(AlarmNames(n)), NEW h \in [AlarmNames(n) -> Handles]
  PROVE  /\ WithAlarms(x, t, h) \in NodeStates(n)
         /\ SameSettings(x, WithAlarms(x, t, h))
         /\ WithAlarms(x, t, h).alarms = t /\ WithAlarms(x, t, h).handle = h
         /\ WithAlarms(x, t, h).nodeGuardStatus = x.nodeGuardStatus
BY DEF NodeStates, WithAlarms, SameSettings

\* The parts of a node.
LEMMA FieldsOfNode ==
  ASSUME NEW n, NEW x \in NodeStates(n)
  PROVE  /\ x.NMTable \in [Nodes -> States]
         /\ x.nodeGuardStatus \in [Nodes -> 0 .. MaxUNS8]
         /\ x.alarms \in Tables(AlarmNames(n)) /\ x.handle \in [AlarmNames(n) -> Handles]
         /\ x.out \in Seq(Frames) /\ x.ProducerHeartBeatTime \in Nat
         /\ x.GuardTime \in Nat /\ x.LifeTimeFactor \in 0 .. MaxUNS8
         /\ x.nodeState \in States /\ x.communication \subseteq Protocols
BY DEF NodeStates

\* A frame more to send.
LEMMA SendOf ==
  ASSUME NEW n, NEW x, Tidy(n, x), NEW frame \in Frames, NEW y, y = Send(x, frame)
  PROVE  /\ Tidy(n, y) /\ SameSettings(x, y) /\ y.handle = x.handle /\ y.alarms = x.alarms
<1>1. x \in NodeStates(n)
  BY DEF Tidy
<1>2. Append(x.out, frame) \in Seq(Frames)
  BY <1>1, FieldsOfNode
<1>3. y \in NodeStates(n) /\ SameSettings(x, y) /\ y.handle = x.handle /\ y.alarms = x.alarms
  BY <1>1, <1>2 DEF NodeStates, Send, SameSettings
<1> QED BY <1>3 DEF Tidy

\* handle = DelAlarm(handle).
LEMMA DelOf ==
  ASSUME NEW n \in Nodes, NEW x, Tidy(n, x), NEW a \in AlarmNames(n), NEW y, y = Del(x, a)
  PROVE  /\ Tidy(n, y) /\ SameSettings(x, y) /\ y.handle[a] = TIMER_NONE
         /\ \A b \in AlarmNames(n) \ {a} : y.handle[b] = x.handle[b]
<1> DEFINE t == DelAlarm(x.alarms, x.handle[a])
           h == [x.handle EXCEPT ![a] = TIMER_NONE]
<1>1. x \in NodeStates(n) /\ Kept(x.alarms, x.handle, AlarmNames(n))
  BY DEF Tidy, Kept, NodeStates
<1>2. /\ Kept(t, h, AlarmNames(n))
      /\ \A b \in AlarmNames(n) \ {a} : SameAlarm(x.alarms, x.handle, t, h, b)
  BY <1>1, DelAlarmKeeps, RowsAssumption
<1>3. h[a] = TIMER_NONE
  BY <1>1 DEF Kept
<1>4. y = WithAlarms(x, t, h)
  BY <1>1 DEF Del, WithAlarms, NodeStates
<1> HIDE DEF t, h
<1>5. y \in NodeStates(n) /\ SameSettings(x, y) /\ y.alarms = t /\ y.handle = h
  BY <1>1, <1>2, <1>4, AlarmsSet DEF Kept
<1> QED BY <1>2, <1>3, <1>5 DEF Tidy, Kept, SameAlarm

\* handle = SetAlarm(...), of an owner without an alarm.
LEMMA SetOf ==
  ASSUME NEW n \in Nodes, NEW x, Tidy(n, x), NEW a \in AlarmNames(n),
         x.handle[a] = TIMER_NONE, NEW value \in Nat, NEW period \in Nat,
         period # 0 <=> a \in Periodic, NEW y, y = Set(x, a, value, period)
  PROVE  /\ Tidy(n, y) /\ SameSettings(x, y) /\ y.handle[a] # TIMER_NONE
         /\ \A b \in AlarmNames(n) \ {a} : y.handle[b] = x.handle[b]
<1> DEFINE t == SetAlarm(x.alarms, a, value, period)
           h == [x.handle EXCEPT ![a] = Allocated(x.alarms)]
<1>1. x \in NodeStates(n) /\ Kept(x.alarms, x.handle, AlarmNames(n))
  BY DEF Tidy, Kept, NodeStates
<1>2. /\ Kept(t, h, AlarmNames(n))
      /\ \A b \in AlarmNames(n) \ {a} : SameAlarm(x.alarms, x.handle, t, h, b)
  BY <1>1, SetAlarmKeeps, RowsAssumption
<1>3. h[a] = Allocated(x.alarms)
  BY <1>1 DEF Kept
<1>4. /\ h[a] # TIMER_NONE
      /\ t[h[a]] = [alarm |-> a, left |-> value, interval |-> period]
  <2>1. x.alarms \in Tables(AlarmNames(n)) /\ UsedRows(x.alarms) # Rows
    BY <1>1, RowIsThere DEF Kept
  <2> QED BY <1>1, <1>3, <2>1, SetAlarmSets
<1>5. y = WithAlarms(x, t, h)
  BY <1>1 DEF Set, WithAlarms, NodeStates
<1> HIDE DEF t, h
<1>6. y \in NodeStates(n) /\ SameSettings(x, y) /\ y.alarms = t /\ y.handle = h
  BY <1>1, <1>2, <1>5, AlarmsSet DEF Kept
<1>7. t[h[a]].interval = period
  BY <1>4
<1> QED BY <1>2, <1>4, <1>6, <1>7 DEF Tidy, Kept, SameAlarm

-----------------------------------------------------------------------------
(***************************************************************************)
(* The loops over the entries of 0x1016 and over the nodes.                *)
(***************************************************************************)
\* Whoever sets or deletes alarms: a node remains a node.
LEMMA SetIsANode ==
  ASSUME NEW n, NEW x \in NodeStates(n), NEW a \in AlarmNames(n),
         NEW value \in Nat, NEW period \in Nat
  PROVE  Set(x, a, value, period) \in NodeStates(n) /\ Del(x, a) \in NodeStates(n)
<1> DEFINE t == SetAlarm(x.alarms, a, value, period)
           h == [x.handle EXCEPT ![a] = Allocated(x.alarms)]
           u == DelAlarm(x.alarms, x.handle[a])
           k == [x.handle EXCEPT ![a] = TIMER_NONE]
<1>1. x.alarms \in Tables(AlarmNames(n)) /\ x.handle \in [AlarmNames(n) -> Handles]
  BY FieldsOfNode
<1>2. Allocated(x.alarms) \in Handles
  BY AllocatedIsFree, NothingAllocated DEF Handles
<1>3. t \in Tables(AlarmNames(n))
  <2>1. [alarm |-> a, left |-> value, interval |-> period] \in AlarmRows(AlarmNames(n))
    BY NewRowIsARow
  <2> QED BY <1>1, <2>1 DEF SetAlarm, Tables
<1>4. u \in Tables(AlarmNames(n))
  <2>1. FreeRow \in AlarmRows(AlarmNames(n))
    BY FreeRowIsARow
  <2> QED BY <1>1, <2>1 DEF DelAlarm, Tables
<1>5. h \in [AlarmNames(n) -> Handles] /\ k \in [AlarmNames(n) -> Handles]
  BY <1>1, <1>2 DEF Handles
<1>6. Set(x, a, value, period) = WithAlarms(x, t, h) /\ Del(x, a) = WithAlarms(x, u, k)
  BY DEF Set, Del, WithAlarms, NodeStates
<1> HIDE DEF t, h, u, k
<1> QED BY <1>3, <1>4, <1>5, <1>6, AlarmsSet

\* heartbeatInit, step by step.
LEMMA LoopOfInit ==
  ASSUME NEW n \in Nodes, NEW x \in NodeStates(n)
  PROVE  \E f : /\ f[0] = [x EXCEPT !.registered = TRUE]
                /\ \A i \in Entries(n) : f[i] = StartConsumer(n, f[i - 1], i)
                /\ heartbeatInit(n, x) = StartProducer(f[ConsumerHeartbeatCount(n)])
<1> DEFINE N == ConsumerHeartbeatCount(n)
           S == NodeStates(n)
           start == [x EXCEPT !.registered = TRUE]
           F == [i \in 1 .. N |-> [s \in S |-> StartConsumer(n, s, i)]]
           upTo[i \in 0 .. N] == IF i = 0 THEN start ELSE StartConsumer(n, upTo[i - 1], i)
<1>1. N \in Nat /\ Entries(n) = 1 .. N
  BY EntriesAre DEF Entries
<1>2. start \in S
  BY DEF NodeStates
<1>3. ASSUME NEW i \in 1 .. N, NEW s \in S PROVE StartConsumer(n, s, i) \in S
  <2>1. Consumer(i) \in AlarmNames(n) /\ ConsumerHeartbeatEntries[n][i].time \in Nat
    BY <1>1, EntriesAre, NamesDiffer
  <2> QED BY <2>1, SetIsANode DEF StartConsumer
<1> HIDE DEF S, N, start
<1>4. PICK g \in [0 .. N -> S] : g[0] = start /\ \A i \in 1 .. N : g[i] = F[i][g[i - 1]]
  <2>1. Steps(F, N, S)
    BY <1>1, <1>3 DEF Steps
  <2> HIDE DEF F, upTo
  <2>2. Run(F, N, S, start)
    BY <1>2, <2>1, LoopIsDefined
  <2> QED BY <2>2 DEF Run
<1>5. g = [i \in 0 .. N |-> IF i = 0 THEN start ELSE StartConsumer(n, g[i - 1], i)]
  <2>1. ASSUME NEW i \in 0 .. N, i # 0 PROVE g[i] = StartConsumer(n, g[i - 1], i)
    <3>1. i \in 1 .. N /\ i - 1 \in 0 .. N
      BY <1>1, <2>1
    <3> QED BY <1>4, <3>1
  <2> QED BY <1>4, <2>1
<1>6. upTo = [i \in 0 .. N |-> IF i = 0 THEN start ELSE StartConsumer(n, upTo[i - 1], i)]
  BY <1>5, Zenon
<1>7. heartbeatInit(n, x) = StartProducer(upTo[N])
  BY DEF heartbeatInit, N, start
<1> HIDE DEF upTo
<1>8. upTo[0] = start
  BY <1>1, <1>6
<1>9. ASSUME NEW i \in 1 .. N PROVE upTo[i] = StartConsumer(n, upTo[i - 1], i)
  <2>1. i \in 0 .. N /\ i # 0
    OBVIOUS
  <2> QED BY <1>6, <2>1
<1> QED BY <1>1, <1>7, <1>8, <1>9 DEF N, start

\* heartbeatStop, step by step.
LEMMA LoopOfStop ==
  ASSUME NEW n \in Nodes, NEW x \in NodeStates(n)
  PROVE  \E f : /\ f[0] = x
                /\ \A i \in Entries(n) : f[i] = Del(f[i - 1], Consumer(i))
                /\ heartbeatStop(n, x) = Del(f[ConsumerHeartbeatCount(n)], Producer)
<1> DEFINE N == ConsumerHeartbeatCount(n)
           S == NodeStates(n)
           F == [i \in 1 .. N |-> [s \in S |-> Del(s, Consumer(i))]]
           upTo[i \in 0 .. N] == IF i = 0 THEN x ELSE Del(upTo[i - 1], Consumer(i))
<1>1. N \in Nat /\ Entries(n) = 1 .. N
  BY EntriesAre DEF Entries
<1>2. ASSUME NEW i \in 1 .. N, NEW s \in S PROVE Del(s, Consumer(i)) \in S
  BY <1>1, NamesDiffer, SetIsANode
<1> HIDE DEF S, N
<1>3. PICK g \in [0 .. N -> S] : g[0] = x /\ \A i \in 1 .. N : g[i] = F[i][g[i - 1]]
  <2>1. Steps(F, N, S)
    BY <1>1, <1>2 DEF Steps
  <2>2. x \in S
    BY DEF S
  <2> HIDE DEF F, upTo
  <2>3. Run(F, N, S, x)
    BY <2>1, <2>2, LoopIsDefined
  <2> QED BY <2>3 DEF Run
<1>4. g = [i \in 0 .. N |-> IF i = 0 THEN x ELSE Del(g[i - 1], Consumer(i))]
  <2>1. ASSUME NEW i \in 0 .. N, i # 0 PROVE g[i] = Del(g[i - 1], Consumer(i))
    <3>1. i \in 1 .. N /\ i - 1 \in 0 .. N
      BY <1>1, <2>1
    <3> QED BY <1>3, <3>1
  <2> QED BY <1>3, <2>1
<1>5. upTo = [i \in 0 .. N |-> IF i = 0 THEN x ELSE Del(upTo[i - 1], Consumer(i))]
  BY <1>4, Zenon
<1>6. heartbeatStop(n, x) = Del(upTo[N], Producer)
  BY DEF heartbeatStop, N
<1> HIDE DEF upTo
<1>7. upTo[0] = x
  BY <1>1, <1>5
<1>8. ASSUME NEW i \in 1 .. N PROVE upTo[i] = Del(upTo[i - 1], Consumer(i))
  <2>1. i \in 0 .. N /\ i # 0
    OBVIOUS
  <2> QED BY <1>5, <2>1
<1> QED BY <1>1, <1>6, <1>7, <1>8 DEF N

\* The renewal of alarms, step by step.
LEMMA LoopOfRenewal ==
  ASSUME NEW n \in Nodes, NEW x \in NodeStates(n), NEW p
  PROVE  \E f : /\ f[0] = x
                /\ \A i \in Entries(n) : f[i] = Renewed(n, f[i - 1], i, p)
                /\ RenewAll(n, x, p) = f[ConsumerHeartbeatCount(n)]
<1> DEFINE N == ConsumerHeartbeatCount(n)
           S == NodeStates(n)
           F == [i \in 1 .. N |-> [s \in S |-> Renewed(n, s, i, p)]]
           upTo[i \in 0 .. N] == IF i = 0 THEN x ELSE Renewed(n, upTo[i - 1], i, p)
<1>1. N \in Nat /\ Entries(n) = 1 .. N
  BY EntriesAre DEF Entries
<1>2. ASSUME NEW i \in 1 .. N, NEW s \in S PROVE Renewed(n, s, i, p) \in S
  <2>1. Consumer(i) \in AlarmNames(n) /\ ConsumerHeartbeatEntries[n][i].time \in Nat
    BY <1>1, EntriesAre, NamesDiffer
  <2>2. Del(s, Consumer(i)) \in S
    BY <2>1, SetIsANode
  <2>3. Set(Del(s, Consumer(i)), Consumer(i), ConsumerHeartbeatEntries[n][i].time, 0) \in S
    BY <2>1, <2>2, SetIsANode
  <2> QED BY <2>3 DEF Renewed
<1> HIDE DEF S, N
<1>3. PICK g \in [0 .. N -> S] : g[0] = x /\ \A i \in 1 .. N : g[i] = F[i][g[i - 1]]
  <2>1. Steps(F, N, S)
    BY <1>1, <1>2 DEF Steps
  <2>2. x \in S
    BY DEF S
  <2> HIDE DEF F, upTo
  <2>3. Run(F, N, S, x)
    BY <2>1, <2>2, LoopIsDefined
  <2> QED BY <2>3 DEF Run
<1>4. g = [i \in 0 .. N |-> IF i = 0 THEN x ELSE Renewed(n, g[i - 1], i, p)]
  <2>1. ASSUME NEW i \in 0 .. N, i # 0 PROVE g[i] = Renewed(n, g[i - 1], i, p)
    <3>1. i \in 1 .. N /\ i - 1 \in 0 .. N
      BY <1>1, <2>1
    <3> QED BY <1>3, <3>1
  <2> QED BY <1>3, <2>1
<1>5. upTo = [i \in 0 .. N |-> IF i = 0 THEN x ELSE Renewed(n, upTo[i - 1], i, p)]
  BY <1>4, Zenon
<1>6. RenewAll(n, x, p) = upTo[N]
  BY DEF RenewAll, N
<1> HIDE DEF upTo
<1>7. upTo[0] = x
  BY <1>1, <1>5
<1>8. ASSUME NEW i \in 1 .. N PROVE upTo[i] = Renewed(n, upTo[i - 1], i, p)
  <2>1. i \in 0 .. N /\ i # 0
    OBVIOUS
  <2> QED BY <1>5, <2>1
<1> QED BY <1>1, <1>6, <1>7, <1>8 DEF N

\* The counters of GuardTimeAlarm.
LEMMA CountDownIsANode ==
  ASSUME NEW n, NEW x \in NodeStates(n), NEW y, y = CountDown(n, x)
  PROVE  /\ y \in NodeStates(n)
         /\ y.nodeState = x.nodeState /\ y.communication = x.communication
         /\ y.ProducerHeartBeatTime = x.ProducerHeartBeatTime
         /\ y.alarms = x.alarms /\ y.handle = x.handle
         /\ \A p \in Nodes : Feared(x, p) => Feared(y, p)
<1> DEFINE table == [p \in Nodes |-> IF p \in GuardExpired(n, x) THEN Disconnected
                                     ELSE x.NMTable[p]]
           status == [p \in Nodes |-> IF p \in Guarded(n, x) THEN OneLess(x.nodeGuardStatus[p])
                                      ELSE x.nodeGuardStatus[p]]
<1>1. x.NMTable \in [Nodes -> States] /\ x.nodeGuardStatus \in [Nodes -> 0 .. MaxUNS8]
  BY FieldsOfNode
<1>2. table \in [Nodes -> States]
  BY <1>1 DEF States
<1>3. status \in [Nodes -> 0 .. MaxUNS8]
  <2>1. ASSUME NEW c \in 0 .. MaxUNS8 PROVE OneLess(c) \in 0 .. MaxUNS8
    <3>1. MaxUNS8 \in Nat
      BY LifeGuardAssumption
    <3>2. c - 1 \in Int /\ MaxUNS8 + 1 \in Nat /\ MaxUNS8 + 1 > 0
      BY <3>1
    <3>3. (c - 1) % (MaxUNS8 + 1) \in 0 .. (MaxUNS8 + 1) - 1
      BY <3>2
    <3> QED BY <3>1, <3>3 DEF OneLess
  <2> QED BY <1>1, <2>1
<1>4. y = [x EXCEPT !.NMTable = table, !.nodeGuardStatus = status]
  BY DEF CountDown
<1>5. \A p \in Nodes : table[p] = x.NMTable[p] \/ table[p] = Disconnected
  OBVIOUS
<1> HIDE DEF table, status
<1>6. /\ y \in NodeStates(n) /\ y.NMTable = table
      /\ y.nodeState = x.nodeState /\ y.communication = x.communication
      /\ y.ProducerHeartBeatTime = x.ProducerHeartBeatTime
      /\ y.alarms = x.alarms /\ y.handle = x.handle
  BY <1>2, <1>3, <1>4 DEF NodeStates
<1> QED BY <1>5, <1>6 DEF Feared

\* A request to a node.
LEMMA RequestIsAFrame ==
  ASSUME NEW p \in Nat
  PROVE  NodeGuardRequest(p) \in Frames
BY DEF NodeGuardRequest, Frames, States

\* GuardTimeAlarm, step by step.
LEMMA LoopOfGuards ==
  ASSUME NEW n \in Nodes, NEW x \in NodeStates(n), x.GuardTime # 0
  PROVE  \E f : /\ f[0] = CountDown(n, x)
                /\ \A p \in 1 .. NMT_MAX_NODE_ID - 1 : f[p] = SendIfGuarded(n, x, p, f[p - 1])
                /\ GuardTimeAlarm(n, x) = f[NMT_MAX_NODE_ID - 1]
                /\ NMT_MAX_NODE_ID - 1 \in Nat
<1> DEFINE N == NMT_MAX_NODE_ID - 1
           S == NodeStates(n)
           start == CountDown(n, x)
           F == [p \in 1 .. N |-> [s \in S |-> SendIfGuarded(n, x, p, s)]]
           upTo[p \in 0 .. N] == IF p = 0 THEN start ELSE SendIfGuarded(n, x, p, upTo[p - 1])
<1>1. N \in Nat
  BY LifeGuardAssumption
<1>2. start \in S
  BY CountDownIsANode
<1>3. ASSUME NEW p \in 1 .. N, NEW s \in S PROVE SendIfGuarded(n, x, p, s) \in S
  <2>1. Append(s.out, NodeGuardRequest(p)) \in Seq(Frames)
    BY RequestIsAFrame, FieldsOfNode
  <2> QED BY <2>1 DEF NodeStates, SendIfGuarded, masterSendNMTnodeguard, Send
<1> HIDE DEF S, N, start
<1>4. PICK g \in [0 .. N -> S] : g[0] = start /\ \A p \in 1 .. N : g[p] = F[p][g[p - 1]]
  <2>1. Steps(F, N, S)
    BY <1>1, <1>3 DEF Steps
  <2> HIDE DEF F, upTo
  <2>2. Run(F, N, S, start)
    BY <1>2, <2>1, LoopIsDefined
  <2> QED BY <2>2 DEF Run
<1>5. g = [p \in 0 .. N |-> IF p = 0 THEN start ELSE SendIfGuarded(n, x, p, g[p - 1])]
  <2>1. ASSUME NEW p \in 0 .. N, p # 0 PROVE g[p] = SendIfGuarded(n, x, p, g[p - 1])
    <3>1. p \in 1 .. N /\ p - 1 \in 0 .. N
      BY <1>1, <2>1
    <3> QED BY <1>4, <3>1
  <2> QED BY <1>4, <2>1
<1>6. upTo = [p \in 0 .. N |-> IF p = 0 THEN start ELSE SendIfGuarded(n, x, p, upTo[p - 1])]
  BY <1>5, Zenon
<1>7. GuardTimeAlarm(n, x) = upTo[N]
  BY DEF GuardTimeAlarm, N, start
<1> HIDE DEF upTo
<1>8. upTo[0] = start
  BY <1>1, <1>6
<1>9. ASSUME NEW p \in 1 .. N PROVE upTo[p] = SendIfGuarded(n, x, p, upTo[p - 1])
  <2>1. p \in 0 .. N /\ p # 0
    OBVIOUS
  <2> QED BY <1>6, <2>1
<1> QED BY <1>1, <1>7, <1>8, <1>9 DEF N, start

-----------------------------------------------------------------------------
(***************************************************************************)
(* Life guarding is started and stopped.                                   *)
(***************************************************************************)
\* The first k consumers are started.
Started(n, x, y, k) ==
  /\ Tidy(n, y) /\ SameSettings(x, y)
  /\ y.handle[Producer] = TIMER_NONE /\ y.handle[Guard] = TIMER_NONE
  /\ \A i \in Entries(n) :
       /\ i > k => y.handle[Consumer(i)] = TIMER_NONE
       /\ i <= k /\ ConsumerHeartbeatEntries[n][i].time # 0 =>
            y.handle[Consumer(i)] # TIMER_NONE

\* One more is.
LEMMA StartOne ==
  ASSUME NEW n \in Nodes, NEW x, NEW k \in Entries(n), NEW u, Started(n, x, u, k - 1),
         NEW y, y = StartConsumer(n, u, k)
  PROVE  Started(n, x, y, k)
<1> DEFINE time == ConsumerHeartbeatEntries[n][k].time
<1>1. time \in Nat /\ k \in Nat /\ \A i \in Entries(n) : i \in Nat
  BY EntriesAre DEF Entries
<1>2. /\ Consumer(k) \in AlarmNames(n) /\ Consumer(k) \notin Periodic
      /\ Producer \in AlarmNames(n) \ {Consumer(k)} /\ Guard \in AlarmNames(n) \ {Consumer(k)}
      /\ \A i \in Entries(n) : i # k => Consumer(i) \in AlarmNames(n) \ {Consumer(k)}
  BY NamesDiffer DEF Periodic
<1>3. u.handle[Consumer(k)] = TIMER_NONE /\ Tidy(n, u) /\ SameSettings(x, u)
  BY <1>1 DEF Started
<1>4. CASE time = 0
  <2>1. y = u
    BY <1>4 DEF StartConsumer
  <2> QED BY <1>1, <1>4, <2>1 DEF Started
<1>5. CASE time # 0
  <2>1. y = Set(u, Consumer(k), time, 0)
    BY <1>5 DEF StartConsumer
  <2> HIDE DEF time
  <2>2. /\ Tidy(n, y) /\ SameSettings(u, y) /\ y.handle[Consumer(k)] # TIMER_NONE
        /\ \A b \in AlarmNames(n) \ {Consumer(k)} : y.handle[b] = u.handle[b]
    BY <1>1, <1>2, <1>3, <2>1, SetOf
  <2>3. SameSettings(x, y)
    BY <1>3, <2>2 DEF SameSettings
  <2>4. ASSUME NEW i \in Entries(n)
        PROVE  /\ i > k => y.handle[Consumer(i)] = TIMER_NONE
               /\ i <= k /\ ConsumerHeartbeatEntries[n][i].time # 0 =>
                    y.handle[Consumer(i)] # TIMER_NONE
    <3>1. CASE i = k
      BY <1>1, <2>2, <3>1
    <3>2. CASE i # k
      <4>1. y.handle[Consumer(i)] = u.handle[Consumer(i)]
        BY <1>2, <2>2, <3>2
      <4>2. (i > k => i > k - 1) /\ (i <= k => i <= k - 1)
        BY <1>1, <3>2
      <4> QED BY <4>1, <4>2 DEF Started
    <3> QED BY <3>1, <3>2
  <2> QED BY <1>2, <2>2, <2>3, <2>4 DEF Started
<1> QED BY <1>4, <1>5

\* heartbeatInit starts them all.
LEMMA HeartbeatsStart ==
  ASSUME NEW n \in Nodes, NEW x, Tidy(n, x), NoAlarms(n, x), NEW y, y = heartbeatInit(n, x)
  PROVE  /\ Tidy(n, y) /\ SameSettings(x, y) /\ y.handle[Guard] = TIMER_NONE
         /\ Watching(n, y)
<1> DEFINE N == ConsumerHeartbeatCount(n)
<1>1. N \in Nat /\ Entries(n) = 1 .. N
  BY EntriesAre DEF Entries
<1>2. x \in NodeStates(n)
  BY DEF Tidy
<1>3. PICK f : /\ f[0] = [x EXCEPT !.registered = TRUE]
               /\ \A i \in Entries(n) : f[i] = StartConsumer(n, f[i - 1], i)
               /\ y = StartProducer(f[N])
  BY <1>2, LoopOfInit
<1> HIDE DEF N
<1> DEFINE T == {k \in 0 .. N : Started(n, x, f[k], k)}
<1>4. 0 \in T
  <2>1. /\ f[0] \in NodeStates(n) /\ SameSettings(x, f[0])
        /\ f[0].alarms = x.alarms /\ f[0].handle = x.handle
    BY <1>2, <1>3 DEF NodeStates, SameSettings
  <2>2. Tidy(n, f[0])
    BY <2>1 DEF Tidy
  <2>3. \A i \in Entries(n) : ~(i <= 0)
    BY <1>1
  <2>4. Started(n, x, f[0], 0)
    BY <2>1, <2>2, <2>3, NamesDiffer DEF Started, NoAlarms
  <2> QED BY <1>1, <2>4
<1>5. ASSUME NEW k \in 1 .. N, k - 1 \in T PROVE k \in T
  <2>1. Started(n, x, f[k - 1], k - 1) /\ k \in 0 .. N
    BY <1>1, <1>5
  <2>2. Started(n, x, f[k], k)
    BY <1>1, <1>3, <2>1, StartOne
  <2> QED BY <2>1, <2>2
<1>6. Started(n, x, f[N], N)
  <2>1. \A k \in 0 .. N : k \in T
    <3> HIDE DEF T
    <3> QED BY <1>1, <1>4, <1>5, LoopInduction
  <2> QED BY <1>1, <2>1
<1> DEFINE u == f[N]
<1> HIDE DEF T
<1>7. /\ Tidy(n, u) /\ SameSettings(x, u)
      /\ u.handle[Producer] = TIMER_NONE /\ u.handle[Guard] = TIMER_NONE
      /\ \A i \in Entries(n) : ConsumerHeartbeatEntries[n][i].time # 0 =>
           u.handle[Consumer(i)] # TIMER_NONE
  BY <1>1, <1>6 DEF Started
<1>8. y = StartProducer(u)
  BY <1>3
<1> HIDE DEF u
<1>9. CASE u.ProducerHeartBeatTime = 0
  BY <1>7, <1>8, <1>9 DEF StartProducer, Watching
<1>10. CASE u.ProducerHeartBeatTime # 0
  <2> DEFINE time == u.ProducerHeartBeatTime
  <2>1. y = Set(u, Producer, time, time) /\ time # 0
    BY <1>8, <1>10 DEF StartProducer
  <2>2. time \in Nat
    BY <1>7, FieldsOfNode DEF Tidy
  <2> HIDE DEF time
  <2>3. Producer \in AlarmNames(n) /\ Producer \in Periodic
    BY NamesDiffer DEF Periodic
  <2>4. /\ Tidy(n, y) /\ SameSettings(u, y)
        /\ \A b \in AlarmNames(n) \ {Producer} : y.handle[b] = u.handle[b]
    BY <1>7, <2>1, <2>2, <2>3, SetOf
  <2>5. /\ Guard \in AlarmNames(n) \ {Producer}
        /\ \A i \in Entries(n) : Consumer(i) \in AlarmNames(n) \ {Producer}
    BY NamesDiffer DEF Periodic
  <2>6. SameSettings(x, y)
    BY <1>7, <2>4 DEF SameSettings
  <2> QED BY <1>7, <2>4, <2>5, <2>6 DEF Watching
<1> QED BY <1>9, <1>10

\* nodeguardInit sets its alarm, and no other.
LEMMA GuardStarts ==
  ASSUME NEW n \in Nodes, NEW x, Tidy(n, x), x.handle[Guard] = TIMER_NONE,
         NEW y, y = nodeguardInit(n, x)
  PROVE  /\ Tidy(n, y) /\ SameSettings(x, y)
         /\ \A b \in AlarmNames(n) \ {Guard} : y.handle[b] = x.handle[b]
<1>1. x \in NodeStates(n)
  BY DEF Tidy
<1>2. CASE x.GuardTime = 0 \/ x.LifeTimeFactor = 0
  BY <1>2 DEF nodeguardInit, SameSettings
<1>3. CASE ~(x.GuardTime = 0 \/ x.LifeTimeFactor = 0)
  <2> DEFINE time == x.GuardTime
             z == Set(x, Guard, time, time)
             status == [p \in Nodes |-> IF p \in Guarded(n, x) THEN x.LifeTimeFactor
                                        ELSE z.nodeGuardStatus[p]]
  <2>1. y = [z EXCEPT !.nodeGuardStatus = status]
    BY <1>3 DEF nodeguardInit
  <2>2. time \in Nat /\ time # 0 /\ x.LifeTimeFactor \in 0 .. MaxUNS8
    BY <1>1, <1>3, FieldsOfNode
  <2>3. Guard \in AlarmNames(n) /\ Guard \in Periodic
    BY NamesDiffer DEF Periodic
  <2>4. z = Set(x, Guard, time, time)
    OBVIOUS
  <2> HIDE DEF time, z
  <2>5. /\ Tidy(n, z) /\ SameSettings(x, z)
        /\ \A b \in AlarmNames(n) \ {Guard} : z.handle[b] = x.handle[b]
    BY <2>2, <2>3, <2>4, SetOf
  <2>6. z \in NodeStates(n)
    BY <2>5 DEF Tidy
  <2>7. status \in [Nodes -> 0 .. MaxUNS8]
    BY <2>2, <2>6, FieldsOfNode
  <2> HIDE DEF status
  <2>8. y \in NodeStates(n) /\ SameSettings(z, y) /\ y.handle = z.handle /\ y.alarms = z.alarms
    BY <2>1, <2>6, <2>7 DEF NodeStates, SameSettings
  <2> QED BY <2>5, <2>8 DEF Tidy, SameSettings
<1> QED BY <1>2, <1>3

\* lifeGuardInit of a node without alarms makes it watch everybody on its list.
LEMMA LifeGuardStarts ==
  ASSUME NEW n \in Nodes, NEW x, Tidy(n, x), NoAlarms(n, x), NEW y, y = lifeGuardInit(n, x)
  PROVE  Tidy(n, y) /\ SameSettings(x, y) /\ Watching(n, y)
<1> DEFINE z == heartbeatInit(n, x)
<1>1. z = heartbeatInit(n, x) /\ y = nodeguardInit(n, z)
  BY DEF lifeGuardInit
<1> HIDE DEF z
<1>2. /\ Tidy(n, z) /\ SameSettings(x, z) /\ z.handle[Guard] = TIMER_NONE
      /\ Watching(n, z)
  BY <1>1, HeartbeatsStart
<1>3. /\ Tidy(n, y) /\ SameSettings(z, y)
      /\ \A b \in AlarmNames(n) \ {Guard} : y.handle[b] = z.handle[b]
  BY <1>1, <1>2, GuardStarts
<1>4. \A i \in Entries(n) : Consumer(i) \in AlarmNames(n) \ {Guard}
  BY NamesDiffer DEF Periodic
<1>5. SameSettings(x, y)
  BY <1>2, <1>3 DEF SameSettings
<1> QED BY <1>2, <1>3, <1>4, <1>5 DEF Watching, Feared, SameSettings

\* The first k consumers are stopped.
StoppedUpTo(n, x, y, k) ==
  /\ Tidy(n, y) /\ SameSettings(x, y)
  /\ \A i \in Entries(n) : i <= k => y.handle[Consumer(i)] = TIMER_NONE

\* lifeGuardStop leaves no alarm.
LEMMA LifeGuardStops ==
  ASSUME NEW n \in Nodes, NEW x, Tidy(n, x), NEW y, y = lifeGuardStop(n, x)
  PROVE  Tidy(n, y) /\ SameSettings(x, y) /\ NoAlarms(n, y)
<1> DEFINE N == ConsumerHeartbeatCount(n)
           z == heartbeatStop(n, x)
<1>1. N \in Nat /\ Entries(n) = 1 .. N
  BY EntriesAre DEF Entries
<1>2. x \in NodeStates(n)
  BY DEF Tidy
<1>3. PICK f : /\ f[0] = x
               /\ \A i \in Entries(n) : f[i] = Del(f[i - 1], Consumer(i))
               /\ z = Del(f[N], Producer)
  BY <1>2, LoopOfStop
<1>4. y = Del(z, Guard)
  BY DEF lifeGuardStop, nodeguardStop
<1> HIDE DEF N, z
<1> DEFINE T == {k \in 0 .. N : StoppedUpTo(n, x, f[k], k)}
<1>5. 0 \in T
  <2>1. \A i \in Entries(n) : ~(i <= 0)
    BY <1>1
  <2>2. StoppedUpTo(n, x, f[0], 0)
    BY <1>3, <2>1 DEF StoppedUpTo, SameSettings
  <2> QED BY <1>1, <2>2
<1>6. ASSUME NEW k \in 1 .. N, k - 1 \in T PROVE k \in T
  <2>1. StoppedUpTo(n, x, f[k - 1], k - 1) /\ k \in 0 .. N
    BY <1>1, <1>6
  <2>2. f[k] = Del(f[k - 1], Consumer(k)) /\ Consumer(k) \in AlarmNames(n)
    BY <1>1, <1>3, NamesDiffer
  <2>3. /\ Tidy(n, f[k]) /\ SameSettings(f[k - 1], f[k])
        /\ f[k].handle[Consumer(k)] = TIMER_NONE
        /\ \A b \in AlarmNames(n) \ {Consumer(k)} : f[k].handle[b] = f[k - 1].handle[b]
    BY <2>1, <2>2, DelOf DEF StoppedUpTo
  <2>4. ASSUME NEW i \in Entries(n), i <= k PROVE f[k].handle[Consumer(i)] = TIMER_NONE
    <3>1. CASE i = k
      BY <2>3, <3>1
    <3>2. CASE i # k
      <4>1. i <= k - 1
        BY <1>1, <2>4, <3>2
      <4>2. Consumer(i) \in AlarmNames(n) \ {Consumer(k)}
        BY <1>1, <3>2, NamesDiffer
      <4> QED BY <2>1, <2>3, <4>1, <4>2 DEF StoppedUpTo
    <3> QED BY <3>1, <3>2
  <2>5. SameSettings(x, f[k])
    BY <2>1, <2>3 DEF StoppedUpTo, SameSettings
  <2>6. StoppedUpTo(n, x, f[k], k)
    BY <2>3, <2>4, <2>5 DEF StoppedUpTo
  <2> QED BY <2>1, <2>6
<1>7. StoppedUpTo(n, x, f[N], N)
  <2>1. \A k \in 0 .. N : k \in T
    <3> HIDE DEF T
    <3> QED BY <1>1, <1>5, <1>6, LoopInduction
  <2> QED BY <1>1, <2>1
<1> HIDE DEF T
<1>8. /\ Tidy(n, z) /\ SameSettings(x, z) /\ z.handle[Producer] = TIMER_NONE
      /\ \A i \in Entries(n) : z.handle[Consumer(i)] = TIMER_NONE
  <2>1. Tidy(n, f[N]) /\ SameSettings(x, f[N])
        /\ \A i \in Entries(n) : f[N].handle[Consumer(i)] = TIMER_NONE
    BY <1>1, <1>7 DEF StoppedUpTo
  <2>2. /\ Producer \in AlarmNames(n)
        /\ \A i \in Entries(n) : Consumer(i) \in AlarmNames(n) \ {Producer}
    BY NamesDiffer DEF Periodic
  <2>3. /\ Tidy(n, z) /\ SameSettings(f[N], z) /\ z.handle[Producer] = TIMER_NONE
        /\ \A b \in AlarmNames(n) \ {Producer} : z.handle[b] = f[N].handle[b]
    BY <1>3, <2>1, <2>2, DelOf
  <2> QED BY <2>1, <2>2, <2>3 DEF SameSettings
<1>9. /\ Tidy(n, y) /\ SameSettings(z, y) /\ y.handle[Guard] = TIMER_NONE
      /\ \A b \in AlarmNames(n) \ {Guard} : y.handle[b] = z.handle[b]
  BY <1>4, <1>8, NamesDiffer, DelOf
<1>10. SameSettings(x, y)
  BY <1>8, <1>9 DEF SameSettings
<1>11. NoAlarms(n, y)
  <2> SUFFICES ASSUME NEW a \in AlarmNames(n) PROVE y.handle[a] = TIMER_NONE
    BY DEF NoAlarms
  <2>1. a = Guard \/ (a \in AlarmNames(n) \ {Guard} /\ z.handle[a] = TIMER_NONE)
    BY <1>8, NamesDiffer DEF Periodic
  <2> QED BY <1>9, <2>1
<1> QED BY <1>9, <1>10, <1>11

-----------------------------------------------------------------------------
(***************************************************************************)
(* Frames and alarms.                                                      *)
(***************************************************************************)
\* Of no consumer the alarm is given up.
StillWatching(n, x, y) ==
  \A i \in Entries(n) :
    x.handle[Consumer(i)] # TIMER_NONE => y.handle[Consumer(i)] # TIMER_NONE

\* An operation that changes nothing but alarms and frames, and gives up no consumer.
LEMMA StaysInOrder ==
  ASSUME NEW n, NEW x, InOrder(n, x), x.nodeState # Unknown_state, NEW y, Tidy(n, y),
         y.nodeState = x.nodeState, y.communication = x.communication,
         \A p \in Nodes : Feared(x, p) => Feared(y, p),
         n \in Nodes, StillWatching(n, x, y)
  PROVE  InOrder(n, y)
<1>1. Watching(n, y)
  <2> SUFFICES ASSUME NEW i \in Entries(n)
               PROVE  \/ ConsumerHeartbeatEntries[n][i].time = 0
                      \/ Feared(y, ConsumerHeartbeatEntries[n][i].node)
                      \/ y.handle[Consumer(i)] # TIMER_NONE
    BY DEF Watching
  <2>1. ConsumerHeartbeatEntries[n][i].node \in Nodes
    BY EntriesAre
  <2>2. \/ ConsumerHeartbeatEntries[n][i].time = 0
        \/ Feared(x, ConsumerHeartbeatEntries[n][i].node)
        \/ x.handle[Consumer(i)] # TIMER_NONE
    BY DEF InOrder, Watching
  <2> QED BY <2>1, <2>2 DEF StillWatching
<1> QED BY <1>1 DEF InOrder

\* The alarms of the first k entries of node p are renewed.
RenewedUpTo(n, x, p, y, k) ==
  /\ Tidy(n, y) /\ SameSettings(x, y) /\ StillWatching(n, x, y)
  /\ \A i \in Entries(n) : i <= k /\ ConsumerHeartbeatEntries[n][i].node = p =>
       y.handle[Consumer(i)] # TIMER_NONE

\* One more is.
LEMMA RenewOne ==
  ASSUME NEW n \in Nodes, NEW x, NEW p, NEW k \in Entries(n), NEW u,
         RenewedUpTo(n, x, p, u, k - 1), NEW y, y = Renewed(n, u, k, p)
  PROVE  RenewedUpTo(n, x, p, y, k)
<1> DEFINE entry == ConsumerHeartbeatEntries[n][k]
<1>1. entry.time \in Nat /\ k \in Nat /\ \A i \in Entries(n) : i \in Nat
  BY EntriesAre DEF Entries
<1>2. /\ Consumer(k) \in AlarmNames(n) /\ Consumer(k) \notin Periodic
      /\ \A i \in Entries(n) : i # k => Consumer(i) \in AlarmNames(n) \ {Consumer(k)}
  BY NamesDiffer
<1>3. Tidy(n, u) /\ SameSettings(x, u) /\ StillWatching(n, x, u)
  BY DEF RenewedUpTo
<1>4. CASE entry.node # p
  <2>1. y = u
    BY <1>4 DEF Renewed
  <2>2. \A i \in Entries(n) : i <= k /\ ConsumerHeartbeatEntries[n][i].node = p => i <= k - 1
    BY <1>1, <1>4
  <2> QED BY <2>1, <2>2 DEF RenewedUpTo
<1>5. CASE entry.node = p
  <2> DEFINE z == Del(u, Consumer(k))
             time == entry.time
  <2>1. z = Del(u, Consumer(k)) /\ y = Set(z, Consumer(k), time, 0) /\ time \in Nat
    BY <1>1, <1>5 DEF Renewed
  <2> HIDE DEF z, time
  <2>2. /\ Tidy(n, z) /\ SameSettings(u, z) /\ z.handle[Consumer(k)] = TIMER_NONE
        /\ \A b \in AlarmNames(n) \ {Consumer(k)} : z.handle[b] = u.handle[b]
    BY <1>2, <1>3, <2>1, DelOf
  <2>3. /\ Tidy(n, y) /\ SameSettings(z, y) /\ y.handle[Consumer(k)] # TIMER_NONE
        /\ \A b \in AlarmNames(n) \ {Consumer(k)} : y.handle[b] = z.handle[b]
    BY <1>2, <2>1, <2>2, SetOf
  <2>4. SameSettings(x, y)
    BY <1>3, <2>2, <2>3 DEF SameSettings
  <2>5. \A i \in Entries(n) : i # k => y.handle[Consumer(i)] = u.handle[Consumer(i)]
    BY <1>2, <2>2, <2>3
  <2>6. StillWatching(n, x, y)
    BY <1>3, <2>3, <2>5 DEF StillWatching
  <2>7. ASSUME NEW i \in Entries(n), i <= k, ConsumerHeartbeatEntries[n][i].node = p
        PROVE  y.handle[Consumer(i)] # TIMER_NONE
    <3>1. i # k => i <= k - 1
      <4>1. i \in Nat /\ k \in Nat /\ i <= k
        BY <1>1, <2>7
      <4> QED BY <4>1
    <3> QED BY <2>3, <2>5, <2>7, <3>1 DEF RenewedUpTo
  <2> QED BY <2>3, <2>4, <2>6, <2>7 DEF RenewedUpTo
<1> QED BY <1>4, <1>5

\* All of them.
LEMMA AllRenewed ==
  ASSUME NEW n \in Nodes, NEW x, Tidy(n, x), NEW p, NEW y, y = RenewAll(n, x, p)
  PROVE  /\ Tidy(n, y) /\ SameSettings(x, y) /\ StillWatching(n, x, y)
         /\ \A i \in Entries(n) : ConsumerHeartbeatEntries[n][i].node = p =>
              y.handle[Consumer(i)] # TIMER_NONE
<1> DEFINE N == ConsumerHeartbeatCount(n)
<1>1. N \in Nat /\ Entries(n) = 1 .. N
  BY EntriesAre DEF Entries
<1>2. PICK f : /\ f[0] = x
               /\ \A i \in Entries(n) : f[i] = Renewed(n, f[i - 1], i, p)
               /\ y = f[N]
  BY LoopOfRenewal DEF Tidy
<1> HIDE DEF N
<1> DEFINE T == {k \in 0 .. N : RenewedUpTo(n, x, p, f[k], k)}
<1>3. 0 \in T
  <2>1. \A i \in Entries(n) : ~(i <= 0)
    BY <1>1
  <2>2. RenewedUpTo(n, x, p, f[0], 0)
    BY <1>2, <2>1 DEF RenewedUpTo, SameSettings, StillWatching
  <2> QED BY <1>1, <2>2
<1>4. ASSUME NEW k \in 1 .. N, k - 1 \in T PROVE k \in T
  <2>1. RenewedUpTo(n, x, p, f[k - 1], k - 1) /\ k \in 0 .. N
    BY <1>1, <1>4
  <2>2. RenewedUpTo(n, x, p, f[k], k)
    BY <1>1, <1>2, <2>1, RenewOne
  <2> QED BY <2>1, <2>2
<1>5. RenewedUpTo(n, x, p, f[N], N)
  <2>1. \A k \in 0 .. N : k \in T
    <3> HIDE DEF T
    <3> QED BY <1>1, <1>3, <1>4, LoopInduction
  <2> QED BY <1>1, <2>1
<1> QED BY <1>1, <1>2, <1>5 DEF RenewedUpTo

\* What a frame of a node says is noted.
LEMMA HeardOf ==
  ASSUME NEW n, NEW x, Tidy(n, x), NEW m, m.arg \in States, NEW y, y = Heard(x, m)
  PROVE  /\ Tidy(n, y) /\ y.handle = x.handle
         /\ y.nodeState = x.nodeState /\ y.communication = x.communication
         /\ \A p \in Nodes : y.NMTable[p] = IF p = m.node THEN m.arg ELSE x.NMTable[p]
<1> DEFINE table == [x.NMTable EXCEPT ![m.node] = m.arg]
           status == [x.nodeGuardStatus EXCEPT ![m.node] = x.LifeTimeFactor]
<1>1. x \in NodeStates(n)
  BY DEF Tidy
<1>2. x.NMTable \in [Nodes -> States] /\ x.nodeGuardStatus \in [Nodes -> 0 .. MaxUNS8]
      /\ x.LifeTimeFactor \in 0 .. MaxUNS8
  BY <1>1, FieldsOfNode
<1>3. table \in [Nodes -> States] /\ status \in [Nodes -> 0 .. MaxUNS8]
  BY <1>2
<1>4. \A p \in Nodes : table[p] = IF p = m.node THEN m.arg ELSE x.NMTable[p]
  BY <1>2
<1>5. y = [x EXCEPT !.nodeGuardStatus = status, !.NMTable = table]
  BY <1>1 DEF Heard, NodeStates
<1> HIDE DEF table, status
<1>6. /\ y \in NodeStates(n) /\ y.handle = x.handle /\ y.alarms = x.alarms
      /\ y.nodeState = x.nodeState /\ y.communication = x.communication /\ y.NMTable = table
  BY <1>1, <1>3, <1>5 DEF NodeStates
<1> QED BY <1>4, <1>6 DEF Tidy

\* A node that hears of another watches it from then on.
LEMMA NodeGuardInOrder ==
  ASSUME NEW n \in Nodes, NEW x, InOrder(n, x), x.nodeState # Unknown_state,
         NEW m \in Frames, m.proto = "NODE_GUARD", NEW y, y = proceedNODE_GUARD(n, x, m)
  PROVE  InOrder(n, y)
<1>1. Tidy(n, x) /\ x \in NodeStates(n) /\ m.arg \in States
  BY DEF InOrder, Tidy, Frames
<1>2. CASE m.rtr
  <2>1. CASE m.node = n
    <3> DEFINE frame == NodeGuardFrame(n, x.nodeState)
    <3>1. frame \in Frames
      <4>1. n \in Nat
        BY LifeGuardAssumption
      <4> QED BY <1>1, <4>1, FieldsOfNode DEF NodeGuardFrame, Frames
    <3>2. y = Send(x, frame)
      BY <1>2, <2>1 DEF proceedNODE_GUARD
    <3> HIDE DEF frame
    <3>3. Tidy(n, y) /\ SameSettings(x, y) /\ y.handle = x.handle
      BY <1>1, <3>1, <3>2, SendOf
    <3> QED BY <3>3, StaysInOrder DEF SameSettings, Feared, StillWatching
  <2>2. CASE m.node # n
    BY <1>2, <2>2 DEF proceedNODE_GUARD
  <2> QED BY <2>1, <2>2
<1>3. CASE ~m.rtr
  <2> DEFINE z == Heard(x, m)
  <2>1. z = Heard(x, m)
    OBVIOUS
  <2>2. y = IF m.arg = Unknown_state THEN z ELSE RenewAll(n, z, m.node)
    BY <1>3 DEF proceedNODE_GUARD
  <2> HIDE DEF z
  <2>3. /\ Tidy(n, z) /\ z.handle = x.handle
        /\ z.nodeState = x.nodeState /\ z.communication = x.communication
        /\ \A p \in Nodes : z.NMTable[p] = IF p = m.node THEN m.arg ELSE x.NMTable[p]
    BY <1>1, <2>1, HeardOf
  <2>4. CASE m.arg = Unknown_state
    <3>1. \A p \in Nodes : Feared(x, p) => Feared(z, p)
      BY <2>3, <2>4 DEF Feared
    <3> QED BY <2>2, <2>3, <2>4, <3>1, StaysInOrder DEF StillWatching
  <2>5. CASE m.arg # Unknown_state
    <3>1. y = RenewAll(n, z, m.node)
      BY <2>2, <2>5
    <3>2. /\ Tidy(n, y) /\ SameSettings(z, y) /\ StillWatching(n, z, y)
          /\ \A i \in Entries(n) : ConsumerHeartbeatEntries[n][i].node = m.node =>
               y.handle[Consumer(i)] # TIMER_NONE
      BY <2>3, <3>1, AllRenewed
    <3>3. Watching(n, y)
      <4> SUFFICES ASSUME NEW i \in Entries(n)
                   PROVE  \/ ConsumerHeartbeatEntries[n][i].time = 0
                          \/ Feared(y, ConsumerHeartbeatEntries[n][i].node)
                          \/ y.handle[Consumer(i)] # TIMER_NONE
        BY DEF Watching
      <4> DEFINE p == ConsumerHeartbeatEntries[n][i].node
      <4>1. p \in Nodes
        BY EntriesAre
      <4>2. CASE p = m.node
        BY <3>2, <4>2
      <4>3. CASE p # m.node
        <5>1. y.NMTable[p] = x.NMTable[p]
          BY <2>3, <3>2, <4>1, <4>3 DEF SameSettings
        <5>2. x.handle[Consumer(i)] # TIMER_NONE => y.handle[Consumer(i)] # TIMER_NONE
          BY <2>3, <3>2 DEF StillWatching
        <5> QED BY <5>1, <5>2 DEF InOrder, Watching, Feared
      <4> QED BY <4>2, <4>3
    <3> QED BY <2>3, <3>2, <3>3 DEF InOrder, SameSettings
  <2> QED BY <2>4, <2>5
<1> QED BY <1>2, <1>3

\* Requests are sent to those that are guarded; silent ones are feared for.
LEMMA GuardsAreCounted ==
  ASSUME NEW n \in Nodes, NEW x, InOrder(n, x), x.nodeState # Unknown_state,
         x.GuardTime # 0, NEW y, y = GuardTimeAlarm(n, x)
  PROVE  InOrder(n, y)
<1> DEFINE N == NMT_MAX_NODE_ID - 1
           z == CountDown(n, x)
<1>1. Tidy(n, x) /\ x \in NodeStates(n)
  BY DEF InOrder, Tidy
<1>2. PICK f : /\ f[0] = z
               /\ \A p \in 1 .. N : f[p] = SendIfGuarded(n, x, p, f[p - 1])
               /\ y = f[N]
               /\ N \in Nat
  BY <1>1, LoopOfGuards
<1>3. /\ z \in NodeStates(n)
      /\ z.nodeState = x.nodeState /\ z.communication = x.communication
      /\ z.alarms = x.alarms /\ z.handle = x.handle
      /\ \A p \in Nodes : Feared(x, p) => Feared(z, p)
  BY <1>1, CountDownIsANode
<1>4. Tidy(n, z)
  BY <1>1, <1>3 DEF Tidy
<1> HIDE DEF N, z
<1> DEFINE T == {k \in 0 .. N : Tidy(n, f[k]) /\ SameSettings(z, f[k]) /\ f[k].handle = z.handle}
<1>5. 0 \in T
  BY <1>2, <1>4 DEF SameSettings
<1>6. ASSUME NEW k \in 1 .. N, k - 1 \in T PROVE k \in T
  <2>1. /\ Tidy(n, f[k - 1]) /\ SameSettings(z, f[k - 1]) /\ f[k - 1].handle = z.handle
        /\ k \in 0 .. N /\ k \in Nat
    BY <1>2, <1>6
  <2>2. f[k] = f[k - 1] \/ f[k] = Send(f[k - 1], NodeGuardRequest(k))
    BY <1>2 DEF SendIfGuarded, masterSendNMTnodeguard
  <2>3. Tidy(n, f[k]) /\ SameSettings(f[k - 1], f[k]) /\ f[k].handle = f[k - 1].handle
    <3>1. CASE f[k] = f[k - 1]
      BY <2>1, <3>1 DEF SameSettings
    <3>2. CASE f[k] = Send(f[k - 1], NodeGuardRequest(k))
      BY <2>1, <3>2, RequestIsAFrame, SendOf
    <3> QED BY <2>2, <3>1, <3>2
  <2>4. SameSettings(z, f[k])
    BY <2>1, <2>3 DEF SameSettings
  <2> QED BY <2>1, <2>3, <2>4
<1>7. Tidy(n, y) /\ SameSettings(z, y) /\ y.handle = z.handle
  <2>1. \A k \in 0 .. N : k \in T
    <3> HIDE DEF T
    <3> QED BY <1>2, <1>5, <1>6, LoopInduction
  <2> QED BY <1>2, <2>1
<1> HIDE DEF T
<1>8. \A p \in Nodes : Feared(x, p) => Feared(y, p)
  BY <1>3, <1>7 DEF Feared, SameSettings
<1> QED BY <1>3, <1>7, <1>8, StaysInOrder DEF SameSettings, StillWatching

-----------------------------------------------------------------------------
(***************************************************************************)
(* States.                                                                 *)
(***************************************************************************)
\* The states' names differ, and so do the protocols they switch on.
LEMMA StatesAre ==
  /\ Unknown_state \notin {Initialisation, Pre_operational, Operational, Stopped, Disconnected}
  /\ Initialisation \notin {Pre_operational, Operational, Stopped, Disconnected}
  /\ CommunicationState(Initialisation) = {"Boot_Up"}
  /\ \A state \in {Pre_operational, Operational, Stopped} :
       "LifeGuard" \in CommunicationState(state)
  /\ "LifeGuard" \notin CommunicationState(Initialisation)
  /\ \A state : CommunicationState(state) \subseteq Protocols
BY DEF Unknown_state, Initialisation, Pre_operational, Operational, Stopped, Disconnected,
       CommunicationState, Protocols

WithState(x, state) == [x EXCEPT !.nodeState = state]
WithCommunication(x, new) == [x EXCEPT !.communication = new]

\* A new state, or new protocols.
LEMMA StateSet ==
  ASSUME NEW n, NEW x, Tidy(n, x), NEW state \in States, NEW new \in SUBSET Protocols
  PROVE  /\ Tidy(n, WithState(x, state)) /\ WithState(x, state).nodeState = state
         /\ WithState(x, state).communication = x.communication
         /\ WithState(x, state).NMTable = x.NMTable
         /\ WithState(x, state).handle = x.handle
         /\ Tidy(n, WithCommunication(x, new)) /\ WithCommunication(x, new).communication = new
         /\ WithCommunication(x, new).nodeState = x.nodeState
         /\ WithCommunication(x, new).NMTable = x.NMTable
         /\ WithCommunication(x, new).handle = x.handle
<1>1. x \in NodeStates(n)
  BY DEF Tidy
<1>2. /\ WithState(x, state) \in NodeStates(n) /\ WithState(x, state).nodeState = state
      /\ WithState(x, state).communication = x.communication
      /\ WithState(x, state).NMTable = x.NMTable
      /\ WithState(x, state).handle = x.handle /\ WithState(x, state).alarms = x.alarms
  BY <1>1 DEF NodeStates, WithState
<1>3. /\ WithCommunication(x, new) \in NodeStates(n)
      /\ WithCommunication(x, new).communication = new
      /\ WithCommunication(x, new).nodeState = x.nodeState
      /\ WithCommunication(x, new).NMTable = x.NMTable
      /\ WithCommunication(x, new).handle = x.handle
      /\ WithCommunication(x, new).alarms = x.alarms
  BY <1>1 DEF NodeStates, WithCommunication
<1> QED BY <1>2, <1>3 DEF Tidy

\* Life guarding is switched on or off and has the alarms it should have.
Switched(n, x) ==
  IF "LifeGuard" \in x.communication THEN Watching(n, x) ELSE NoAlarms(n, x)

\* A frame of the node itself.
LEMMA OwnFrameIsAFrame ==
  ASSUME NEW n \in Nodes, NEW state \in States
  PROVE  NodeGuardFrame(n, state) \in Frames
<1>1. n \in Nat
  BY LifeGuardAssumption
<1> QED BY <1>1 DEF NodeGuardFrame, Frames

\* setState, up to the user's callback.
LEMMA EntersInOrder ==
  ASSUME NEW n \in Nodes, NEW x, Tidy(n, x), Switched(n, x),
         NEW state \in {Initialisation, Pre_operational, Operational, Stopped},
         NEW y, y = Enters(n, x, state)
  PROVE  /\ Tidy(n, y) /\ Switched(n, y) /\ y.nodeState = state
         /\ y.communication = CommunicationState(state)
<1> DEFINE d == WithState(x, state)
           new == CommunicationState(state)
           guarding == IF "LifeGuard" \in new \ d.communication THEN lifeGuardInit(n, d)
                       ELSE IF "LifeGuard" \in d.communication \ new THEN lifeGuardStop(n, d)
                       ELSE d
           booted == IF "Boot_Up" \in d.communication \ new THEN slaveSendBootUp(n, guarding)
                     ELSE guarding
<1>1. y = WithCommunication(booted, new)
  BY DEF Enters, switchCommunicationState, WithState, WithCommunication
<1>2. state \in States /\ new \subseteq Protocols
  BY StatesAre DEF States
<1>3. /\ Tidy(n, d) /\ d.nodeState = state /\ d.communication = x.communication
      /\ d.NMTable = x.NMTable /\ d.handle = x.handle
  BY <1>2, StateSet
<1>4. guarding = IF "LifeGuard" \in new \ d.communication THEN lifeGuardInit(n, d)
                 ELSE IF "LifeGuard" \in d.communication \ new THEN lifeGuardStop(n, d)
                 ELSE d
  OBVIOUS
<1>5. booted = guarding \/ booted = slaveSendBootUp(n, guarding)
  OBVIOUS
<1> HIDE DEF d, new, guarding, booted
<1>6. /\ Tidy(n, guarding) /\ guarding.nodeState = state
      /\ IF "LifeGuard" \in new THEN Watching(n, guarding) ELSE NoAlarms(n, guarding)
  <2>1. CASE "LifeGuard" \in new \ d.communication
    <3>1. guarding = lifeGuardInit(n, d)
      BY <1>4, <2>1
    <3>2. NoAlarms(n, d)
      BY <1>3, <2>1 DEF Switched, NoAlarms
    <3>3. Tidy(n, guarding) /\ SameSettings(d, guarding) /\ Watching(n, guarding)
      BY <1>3, <3>1, <3>2, LifeGuardStarts
    <3> QED BY <1>3, <2>1, <3>3 DEF SameSettings
  <2>2. CASE "LifeGuard" \in d.communication \ new
    <3>1. guarding = lifeGuardStop(n, d)
      BY <1>4, <2>2
    <3>2. Tidy(n, guarding) /\ SameSettings(d, guarding) /\ NoAlarms(n, guarding)
      BY <1>3, <3>1, LifeGuardStops
    <3> QED BY <1>3, <2>2, <3>2 DEF SameSettings
  <2>3. CASE "LifeGuard" \in new <=> "LifeGuard" \in d.communication
    <3>1. guarding = d
      BY <1>4, <2>3
    <3> QED BY <1>3, <2>3, <3>1 DEF Switched, NoAlarms, Watching, Feared
  <2> QED BY <2>1, <2>2, <2>3
<1>7. Tidy(n, booted) /\ SameSettings(guarding, booted) /\ booted.handle = guarding.handle
  <2>1. CASE booted = guarding
    BY <1>6, <2>1 DEF SameSettings
  <2>2. CASE booted = slaveSendBootUp(n, guarding)
    <3>1. NodeGuardFrame(n, Initialisation) \in Frames
      BY OwnFrameIsAFrame DEF States
    <3>2. booted = Send(guarding, NodeGuardFrame(n, Initialisation))
      BY <2>2 DEF slaveSendBootUp
    <3> QED BY <1>6, <3>1, <3>2, SendOf
  <2> QED BY <1>5, <2>1, <2>2
<1>8. /\ Tidy(n, y) /\ y.communication = new /\ y.nodeState = booted.nodeState
      /\ y.NMTable = booted.NMTable /\ y.handle = booted.handle
  BY <1>1, <1>2, <1>7, StateSet
<1>9. Switched(n, y)
  BY <1>6, <1>7, <1>8 DEF Switched, Watching, NoAlarms, Feared, SameSettings
<1> QED BY <1>6, <1>7, <1>8, <1>9 DEF SameSettings, new

\* A node in a state with life guarding.
LEMMA GuardingIsInOrder ==
  ASSUME NEW n, NEW x, Tidy(n, x), Switched(n, x),
         x.nodeState \in {Pre_operational, Operational, Stopped},
         x.communication = CommunicationState(x.nodeState)
  PROVE  InOrder(n, x)
<1>1. "LifeGuard" \in x.communication /\ x.nodeState # Unknown_state
  BY StatesAre
<1> QED BY <1>1 DEF InOrder, Switched

\* Into Pre_operational; a master resets the others.
LEMMA PreOperationalInOrder ==
  ASSUME NEW n \in Nodes, NEW x, Tidy(n, x), Switched(n, x),
         NEW y, y = EntersPreOperational(n, x)
  PROVE  InOrder(n, y) /\ y.nodeState # Unknown_state
<1> DEFINE z == Enters(n, x, Pre_operational)
           frame == NMTFrame(Everybody, NMT_Reset_Node)
<1>1. z = Enters(n, x, Pre_operational)
  OBVIOUS
<1>2. y = z \/ y = Send(z, frame)
  BY DEF EntersPreOperational, masterSendNMTstateChange
<1>3. frame \in Frames
  BY DEF NMTFrame, Frames, Commands, Everybody
<1> HIDE DEF z, frame
<1>4. /\ Tidy(n, z) /\ Switched(n, z) /\ z.nodeState = Pre_operational
      /\ z.communication = CommunicationState(Pre_operational)
  BY <1>1, EntersInOrder
<1>5. Tidy(n, y) /\ SameSettings(z, y) /\ y.handle = z.handle
  <2>1. CASE y = z
    BY <1>4, <2>1 DEF SameSettings
  <2>2. CASE y = Send(z, frame)
    BY <1>3, <1>4, <2>2, SendOf
  <2> QED BY <1>2, <2>1, <2>2
<1>6. Switched(n, y)
  BY <1>4, <1>5 DEF Switched, Watching, NoAlarms, Feared, SameSettings
<1>7. y.nodeState = Pre_operational /\ y.communication = CommunicationState(Pre_operational)
  BY <1>4, <1>5 DEF SameSettings
<1> QED BY <1>5, <1>6, <1>7, GuardingIsInOrder, StatesAre

\* setState, of a node that is up, or boots.
LEMMA SetStateInOrder ==
  ASSUME NEW n \in Nodes, NEW x, InOrder(n, x),
         NEW state \in {Initialisation, Pre_operational, Operational, Stopped},
         NEW y, y = setState(n, x, state)
  PROVE  InOrder(n, y)
<1>1. Tidy(n, x) /\ Switched(n, x)
  BY DEF InOrder, Switched
<1>2. CASE state = x.nodeState
  BY <1>2 DEF setState
<1>3. CASE state # x.nodeState /\ state = Initialisation
  <2> DEFINE z == Enters(n, x, Initialisation)
  <2>1. z = Enters(n, x, Initialisation) /\ y = EntersPreOperational(n, z)
    BY <1>3 DEF setState
  <2> HIDE DEF z
  <2>2. Tidy(n, z) /\ Switched(n, z)
    BY <1>1, <2>1, EntersInOrder
  <2> QED BY <2>1, <2>2, PreOperationalInOrder
<1>4. CASE state # x.nodeState /\ state = Pre_operational
  <2>1. y = EntersPreOperational(n, x)
    BY <1>4, StatesAre DEF setState
  <2> QED BY <1>1, <2>1, PreOperationalInOrder
<1>5. CASE state # x.nodeState /\ state \in {Operational, Stopped}
  <2>1. y = Enters(n, x, state)
    BY <1>5 DEF setState, Initialisation, Pre_operational, Operational, Stopped
  <2>2. /\ Tidy(n, y) /\ Switched(n, y) /\ y.nodeState = state
        /\ y.communication = CommunicationState(state)
    BY <1>1, <1>5, <2>1, EntersInOrder
  <2> QED BY <1>5, <2>2, GuardingIsInOrder
<1> QED BY <1>2, <1>3, <1>4, <1>5

\* canDispatch.
LEMMA DispatchInOrder ==
  ASSUME NEW n \in Nodes, NEW x, InOrder(n, x), NEW m \in Frames,
         NEW y, y = canDispatch(n, x, m)
  PROVE  InOrder(n, y)
<1>1. CASE m.proto = "NMT"
  <2>1. y = x \/ \E state \in {Initialisation, Pre_operational, Operational, Stopped} :
                   y = setState(n, x, state)
    BY <1>1 DEF canDispatch, proceedNMTstateChange, Commanded
  <2> QED BY <2>1, SetStateInOrder
<1>2. CASE m.proto # "NMT"
  <2>1. m.proto = "NODE_GUARD"
    BY <1>2 DEF Frames
  <2>2. CASE "LifeGuard" \in x.communication
    <3>1. x.nodeState # Unknown_state
      BY <2>2 DEF InOrder
    <3> QED BY <1>2, <2>1, <2>2, <3>1, NodeGuardInOrder DEF canDispatch
  <2>3. CASE "LifeGuard" \notin x.communication
    BY <1>2, <2>3 DEF canDispatch
  <2> QED BY <2>2, <2>3
<1> QED BY <1>1, <1>2

-----------------------------------------------------------------------------
(***************************************************************************)
(* Calls of alarms.                                                        *)
(***************************************************************************)
\* ProducerHeartbeatAlarm goes on, or gives up its own alarm.
LEMMA ProducerInOrder ==
  ASSUME NEW n \in Nodes, NEW x, InOrder(n, x), x.nodeState # Unknown_state,
         NEW y, y = ProducerHeartbeatAlarm(n, x)
  PROVE  InOrder(n, y)
<1>1. Tidy(n, x) /\ x.nodeState \in States
  BY FieldsOfNode DEF InOrder, Tidy
<1>2. CASE y = Send(x, NodeGuardFrame(n, x.nodeState))
  <2>1. Tidy(n, y) /\ SameSettings(x, y) /\ y.handle = x.handle
    BY <1>1, <1>2, OwnFrameIsAFrame, SendOf
  <2> QED BY <2>1, StaysInOrder DEF SameSettings, StillWatching, Feared
<1>3. CASE y = Del(x, Producer)
  <2>1. /\ Tidy(n, y) /\ SameSettings(x, y)
        /\ \A b \in AlarmNames(n) \ {Producer} : y.handle[b] = x.handle[b]
    BY <1>1, <1>3, DelOf, NamesDiffer
  <2>2. StillWatching(n, x, y)
    BY <2>1, NamesDiffer DEF StillWatching, Periodic
  <2> QED BY <2>1, <2>2, StaysInOrder DEF SameSettings, Feared
<1> QED BY <1>2, <1>3 DEF ProducerHeartbeatAlarm

\* So does GuardTimeAlarm.
LEMMA GuardInOrder ==
  ASSUME NEW n \in Nodes, NEW x, InOrder(n, x), x.nodeState # Unknown_state,
         NEW y, y = GuardTimeAlarm(n, x)
  PROVE  InOrder(n, y)
<1>1. CASE x.GuardTime # 0
  BY <1>1, GuardsAreCounted
<1>2. CASE x.GuardTime = 0
  <2>1. y = Del(x, Guard) /\ Tidy(n, x)
    BY <1>2 DEF GuardTimeAlarm, InOrder
  <2>2. /\ Tidy(n, y) /\ SameSettings(x, y)
        /\ \A b \in AlarmNames(n) \ {Guard} : y.handle[b] = x.handle[b]
    BY <2>1, DelOf, NamesDiffer
  <2>3. StillWatching(n, x, y)
    BY <2>2, NamesDiffer DEF StillWatching, Periodic
  <2> QED BY <2>2, <2>3, StaysInOrder DEF SameSettings, Feared
<1> QED BY <1>1, <1>2

\* A due alarm is one of a node that is up, and knows it.
LEMMA DueIsKnown ==
  ASSUME NEW n \in Nodes, NEW x, InOrder(n, x), NEW r \in Rows, Due(x.alarms, r)
  PROVE  /\ Kept(x.alarms, x.handle, AlarmNames(n)) /\ r \in UsedRows(x.alarms)
         /\ x.alarms[r].alarm \in AlarmNames(n) /\ x.handle[x.alarms[r].alarm] = r
         /\ x.nodeState # Unknown_state
         /\ x.alarms[r].interval # 0 <=> x.alarms[r].alarm \in Periodic
<1>1. Kept(x.alarms, x.handle, AlarmNames(n)) /\ r \in UsedRows(x.alarms)
  BY DEF InOrder, Tidy, Kept, NodeStates, Due
<1>2. x.alarms[r].alarm \in AlarmNames(n)
  BY <1>1, RowOfTable, RowsAssumption DEF Kept
<1>3. x.handle[x.alarms[r].alarm] = r
  BY <1>1 DEF Kept, Matched
<1>4. r # TIMER_NONE
  BY NoneIsNoRow
<1> QED BY <1>1, <1>2, <1>3, <1>4 DEF InOrder, Tidy, NoAlarms

\* A periodic alarm is armed again.
LEMMA ArmedAgainInOrder ==
  ASSUME NEW n \in Nodes, NEW x, InOrder(n, x), NEW r \in Rows, Due(x.alarms, r),
         x.alarms[r].alarm \in Periodic,
         NEW y, y = WithAlarms(x, Called(x.alarms, r), x.handle)
  PROVE  InOrder(n, y) /\ y.nodeState # Unknown_state
<1> DEFINE t == Called(x.alarms, r)
<1>1. /\ Kept(x.alarms, x.handle, AlarmNames(n)) /\ r \in UsedRows(x.alarms)
      /\ x.nodeState # Unknown_state /\ x.alarms[r].interval # 0
  BY DueIsKnown
<1>2. /\ Kept(t, x.handle, AlarmNames(n))
      /\ \A q \in Rows : t[q].interval = x.alarms[q].interval
  BY <1>1, CalledAgainKeeps, RowsAssumption
<1>3. Tidy(n, x) /\ x \in NodeStates(n)
  BY DEF InOrder, Tidy
<1> HIDE DEF t
<1>4. y \in NodeStates(n) /\ SameSettings(x, y) /\ y.alarms = t /\ y.handle = x.handle
  BY <1>2, <1>3, AlarmsSet DEF Kept, t
<1>5. Tidy(n, y)
  <2>1. \A a \in AlarmNames(n) : x.handle[a] # TIMER_NONE => x.handle[a] \in Rows
    BY <1>1 DEF Kept, Handles
  <2> QED BY <1>2, <1>3, <1>4, <2>1 DEF Tidy, Kept
<1> QED BY <1>1, <1>4, <1>5, StaysInOrder DEF SameSettings, StillWatching, Feared

WithTable(x, table) == [x EXCEPT !.NMTable = table]

\* ConsumerHeartbeatAlarm: the alarm is gone and the node feared for.
LEMMA ConsumerInOrder ==
  ASSUME NEW n \in Nodes, NEW x, InOrder(n, x), NEW r \in Rows, Due(x.alarms, r),
         NEW i \in Entries(n), x.alarms[r].alarm = Consumer(i),
         NEW y, y = ConsumerHeartbeatAlarm(n, [x EXCEPT !.alarms = Called(@, r)], i)
  PROVE  InOrder(n, y)
<1> DEFINE t == Called(x.alarms, r)
           h == [x.handle EXCEPT ![Consumer(i)] = TIMER_NONE]
           p == ConsumerHeartbeatEntries[n][i].node
           table == [x.NMTable EXCEPT ![p] = Disconnected]
<1>1. Consumer(i) \in AlarmNames(n) /\ Consumer(i) \notin Periodic /\ p \in Nodes
  BY EntriesAre, NamesDiffer
<1>2. /\ Kept(x.alarms, x.handle, AlarmNames(n)) /\ r \in UsedRows(x.alarms)
      /\ x.nodeState # Unknown_state /\ x.alarms[r].interval = 0
  BY <1>1, DueIsKnown
<1>3. Tidy(n, x) /\ x \in NodeStates(n)
  BY DEF InOrder, Tidy
<1>4. /\ Kept(t, h, AlarmNames(n))
      /\ \A b \in AlarmNames(n) \ {Consumer(i)} : SameAlarm(x.alarms, x.handle, t, h, b)
  BY <1>2, CalledOnceKeeps, RowsAssumption
<1>5. h[Consumer(i)] = TIMER_NONE
  BY <1>1, <1>2 DEF Kept
<1>6. /\ table \in [Nodes -> States] /\ table[p] = Disconnected
      /\ \A q \in Nodes : q # p => table[q] = x.NMTable[q]
  BY <1>1, <1>3, FieldsOfNode DEF States
<1> DEFINE z == WithAlarms(x, t, h)
<1>7. y = WithTable(z, table)
  BY <1>3 DEF ConsumerHeartbeatAlarm, WithTable, WithAlarms, NodeStates
<1> HIDE DEF t, h, table
<1>8. z \in NodeStates(n) /\ SameSettings(x, z) /\ z.alarms = t /\ z.handle = h
  BY <1>3, <1>4, AlarmsSet DEF Kept
<1> HIDE DEF z, p
<1>9. /\ y \in NodeStates(n) /\ y.NMTable = table /\ y.alarms = t /\ y.handle = h
      /\ y.nodeState = z.nodeState /\ y.communication = z.communication
  BY <1>6, <1>7, <1>8 DEF NodeStates, WithTable
<1>10. Tidy(n, y)
  BY <1>3, <1>4, <1>5, <1>9 DEF Tidy, Kept, SameAlarm
<1>11. Watching(n, y)
  <2> SUFFICES ASSUME NEW j \in Entries(n), ConsumerHeartbeatEntries[n][j].time # 0,
                      ~Feared(y, ConsumerHeartbeatEntries[n][j].node)
               PROVE  y.handle[Consumer(j)] # TIMER_NONE
    BY DEF Watching
  <2> DEFINE q == ConsumerHeartbeatEntries[n][j].node
  <2>1. q \in Nodes /\ q # p
    BY <1>6, <1>9, EntriesAre DEF Feared
  <2>2. j # i
    BY <2>1 DEF p
  <2>3. ~Feared(x, q)
    BY <1>6, <1>9, <2>1 DEF Feared
  <2>4. x.handle[Consumer(j)] # TIMER_NONE
    BY <1>2, <2>3 DEF InOrder, Watching
  <2>5. Consumer(j) \in AlarmNames(n) \ {Consumer(i)}
    BY <2>2, NamesDiffer
  <2> QED BY <1>4, <1>9, <2>4, <2>5 DEF SameAlarm
<1> QED BY <1>2, <1>8, <1>9, <1>10, <1>11 DEF InOrder, SameSettings

-----------------------------------------------------------------------------
(***************************************************************************)
(* Users and writes.                                                       *)
(***************************************************************************)
\* A value is written to 0x1017, 0x100C or 0x100D.
LEMMA WrittenInOrder ==
  ASSUME NEW n \in Nodes, NEW x, InOrder(n, x), x.nodeState # Unknown_state,
         NEW time \in Nat, NEW factor \in 0 .. MaxUNS8, NEW y,
         \/ y = [x EXCEPT !.ProducerHeartBeatTime = time]
         \/ y = [x EXCEPT !.GuardTime = time]
         \/ y = [x EXCEPT !.LifeTimeFactor = factor]
  PROVE  InOrder(n, y) /\ y.nodeState # Unknown_state
<1>1. Tidy(n, x) /\ x \in NodeStates(n)
  BY DEF InOrder, Tidy
<1>2. /\ y \in NodeStates(n) /\ y.alarms = x.alarms /\ y.handle = x.handle
      /\ y.NMTable = x.NMTable
      /\ y.nodeState = x.nodeState /\ y.communication = x.communication
  BY <1>1 DEF NodeStates
<1>3. Tidy(n, y)
  BY <1>1, <1>2 DEF Tidy
<1> QED BY <1>2, <1>3, StaysInOrder DEF StillWatching, Feared

\* OnHeartbeatProducerUpdate starts or stops the producer.
LEMMA ProducerUpdated ==
  ASSUME NEW n \in Nodes, NEW x, InOrder(n, x), x.nodeState # Unknown_state,
         NEW y, y = OnHeartbeatProducerUpdate(x)
  PROVE  InOrder(n, y)
<1> DEFINE z == Del(x, Producer)
<1>1. Tidy(n, x) /\ x.ProducerHeartBeatTime \in Nat
  BY FieldsOfNode DEF InOrder, Tidy
<1>2. z = Del(x, Producer)
  OBVIOUS
<1> HIDE DEF z
<1>3. \/ y = z
      \/ x.ProducerHeartBeatTime # 0 /\ y = Set(z, Producer, 0, x.ProducerHeartBeatTime)
  BY <1>2 DEF OnHeartbeatProducerUpdate
<1>4. /\ Tidy(n, z) /\ SameSettings(x, z) /\ z.handle[Producer] = TIMER_NONE
      /\ \A b \in AlarmNames(n) \ {Producer} : z.handle[b] = x.handle[b]
  BY <1>1, <1>2, DelOf, NamesDiffer
<1>5. /\ Tidy(n, y) /\ SameSettings(z, y)
      /\ \A b \in AlarmNames(n) \ {Producer} : y.handle[b] = z.handle[b]
  <2>1. CASE y = z
    BY <1>4, <2>1 DEF SameSettings
  <2>2. CASE x.ProducerHeartBeatTime # 0 /\ y = Set(z, Producer, 0, x.ProducerHeartBeatTime)
    <3>1. Producer \in AlarmNames(n) /\ Producer \in Periodic /\ 0 \in Nat
      BY NamesDiffer DEF Periodic
    <3> QED BY <1>1, <1>4, <2>2, <3>1, SetOf
  <2> QED BY <1>3, <2>1, <2>2
<1>6. StillWatching(n, x, y)
  BY <1>4, <1>5, NamesDiffer DEF StillWatching, Periodic
<1> QED BY <1>4, <1>5, <1>6, StaysInOrder DEF SameSettings, Feared

\* OnNodeGuardUpdate starts guarding anew.
LEMMA GuardUpdated ==
  ASSUME NEW n \in Nodes, NEW x, InOrder(n, x), x.nodeState # Unknown_state,
         NEW y, y = OnNodeGuardUpdate(n, x)
  PROVE  InOrder(n, y)
<1> DEFINE z == Del(x, Guard)
<1>1. Tidy(n, x)
  BY DEF InOrder
<1>2. z = Del(x, Guard) /\ y = nodeguardInit(n, z)
  BY DEF OnNodeGuardUpdate, nodeguardStop
<1> HIDE DEF z
<1>3. /\ Tidy(n, z) /\ SameSettings(x, z) /\ z.handle[Guard] = TIMER_NONE
      /\ \A b \in AlarmNames(n) \ {Guard} : z.handle[b] = x.handle[b]
  BY <1>1, <1>2, DelOf, NamesDiffer
<1>4. /\ Tidy(n, y) /\ SameSettings(z, y)
      /\ \A b \in AlarmNames(n) \ {Guard} : y.handle[b] = z.handle[b]
  BY <1>2, <1>3, GuardStarts
<1>5. StillWatching(n, x, y)
  BY <1>3, <1>4, NamesDiffer DEF StillWatching, Periodic
<1> QED BY <1>3, <1>4, <1>5, StaysInOrder DEF SameSettings, Feared

\* A user sends a command.
LEMMA CommandInOrder ==
  ASSUME NEW n \in Nodes, NEW x, InOrder(n, x), x.nodeState # Unknown_state,
         NEW frame \in Frames, NEW y, y = Send(x, frame)
  PROVE  InOrder(n, y)
<1>1. Tidy(n, x)
  BY DEF InOrder
<1>2. Tidy(n, y) /\ SameSettings(x, y) /\ y.handle = x.handle
  BY <1>1, SendOf
<1> QED BY <1>2, StaysInOrder DEF SameSettings, StillWatching, Feared

\* The frames users send.
LEMMA CommandsAreFrames ==
  ASSUME NEW p \in Nodes \cup {Everybody}
  PROVE  /\ NodeGuardRequest(p) \in Frames
         /\ \A cs \in Commands : NMTFrame(p, cs) \in Frames
<1>1. p \in Nat
  BY LifeGuardAssumption DEF Everybody
<1> QED BY <1>1 DEF NodeGuardRequest, NMTFrame, Frames, States

\* A user asks for states and forgets what was known.
LEMMA AskingInOrder ==
  ASSUME NEW n \in Nodes, NEW x, InOrder(n, x), x.nodeState # Unknown_state,
         NEW p \in Nodes \cup {Everybody}, NEW table \in [Nodes -> States],
         \A q \in Nodes : table[q] \in {x.NMTable[q], Unknown_state},
         NEW y, y = masterSendNMTnodeguard(WithTable(x, table), p)
  PROVE  InOrder(n, y)
<1> DEFINE z == WithTable(x, table)
<1>1. Tidy(n, x) /\ x \in NodeStates(n)
  BY DEF InOrder, Tidy
<1>2. /\ z \in NodeStates(n) /\ z.NMTable = table /\ z.alarms = x.alarms /\ z.handle = x.handle
      /\ z.nodeState = x.nodeState /\ z.communication = x.communication
  BY <1>1 DEF NodeStates, WithTable
<1>3. y = Send(z, NodeGuardRequest(p))
  BY DEF masterSendNMTnodeguard
<1> HIDE DEF z
<1>4. Tidy(n, z)
  BY <1>1, <1>2 DEF Tidy
<1>5. \A q \in Nodes : Feared(x, q) => Feared(z, q)
  BY <1>2 DEF Feared
<1>6. InOrder(n, z)
  BY <1>2, <1>4, <1>5, StaysInOrder DEF StillWatching
<1> QED BY <1>2, <1>3, <1>6, CommandsAreFrames, CommandInOrder

-----------------------------------------------------------------------------
(***************************************************************************)
(* Steps.                                                                  *)
(***************************************************************************)
\* A node whose frames are on the bus.
LEMMA SentInOrder ==
  ASSUME NEW n, NEW x, InOrder(n, x), NEW y, y = [x EXCEPT !.out = <<>>]
  PROVE  InOrder(n, y) /\ y.out = <<>>
<1>1. Tidy(n, x) /\ x \in NodeStates(n)
  BY DEF InOrder, Tidy
<1>2. /\ y \in NodeStates(n) /\ y.out = <<>> /\ y.alarms = x.alarms /\ y.handle = x.handle
      /\ y.NMTable = x.NMTable
      /\ y.nodeState = x.nodeState /\ y.communication = x.communication
  <2>1. <<>> \in Seq(Frames)
    OBVIOUS
  <2> QED BY <1>1, <2>1 DEF NodeStates
<1> QED BY <1>1, <1>2 DEF InOrder, Tidy, NoAlarms, Watching, Feared

\* Frames that go on the bus.
LEMMA AgedFrames ==
  ASSUME NEW out \in Seq(Frames)
  PROVE  WithAge(out) \in Seq(Delayed)
<1>1. \A i \in 1 .. Len(out) : [frame |-> out[i], age |-> 0] \in Delayed
  BY DEF Delayed
<1> QED BY <1>1 DEF WithAge

\* A node becomes one in order, and others get its frames.
LEMMA BecomesKeeps ==
  ASSUME NetworkInvariant, NEW n \in Nodes, NEW new, InOrder(n, new),
         NEW own \in Seq(Delayed), Becomes(n, new, own)
  PROVE  NetworkInvariant'
<1> DEFINE sent == [new EXCEPT !.out = <<>>]
<1>1. InOrder(n, sent) /\ sent.out = <<>>
  BY SentInOrder
<1>2. node = [p \in Nodes |-> node[p]] /\ node' = [node EXCEPT ![n] = sent]
  BY DEF NetworkInvariant, Becomes
<1> HIDE DEF sent
<1>3. node' = [p \in Nodes |-> IF p = n THEN sent ELSE node[p]]
  BY <1>2
<1>4. WithAge(new.out) \in Seq(Delayed)
  BY AgedFrames, FieldsOfNode DEF InOrder, Tidy
<1>5. inbox' \in [Nodes -> Seq(Delayed)]
  <2>1. ASSUME NEW p \in Nodes
        PROVE  (IF p = n THEN own ELSE IF Up(p) THEN inbox[p] \o WithAge(new.out)
                ELSE inbox[p]) \in Seq(Delayed)
    <3>1. inbox[p] \in Seq(Delayed)
      BY DEF NetworkInvariant
    <3>2. inbox[p] \o WithAge(new.out) \in Seq(Delayed)
      BY <1>4, <3>1
    <3> QED BY <3>1, <3>2
  <2> QED BY <2>1, Zenon DEF Becomes
<1>6. ASSUME NEW p \in Nodes PROVE InOrder(p, node'[p]) /\ node'[p].out = <<>>
  <2>1. CASE p = n
    BY <1>1, <1>3, <2>1
  <2>2. CASE p # n
    BY <1>3, <2>2 DEF NetworkInvariant
  <2> QED BY <2>1, <2>2
<1>7. node' = [p \in Nodes |-> node'[p]]
  BY <1>3, Zenon
<1> QED BY <1>5, <1>6, <1>7 DEF NetworkInvariant

\* Nodes that are down.
LEMMA InitialInOrder ==
  ASSUME NEW n \in Nodes
  PROVE  InOrder(n, InitialNode(n)) /\ InitialNode(n).out = <<>>
<1> DEFINE x == InitialNode(n)
<1>1. Defaults[n] \in [ProducerHeartBeatTime : Nat, GuardTime : Nat, LifeTimeFactor : 0 .. MaxUNS8]
  BY NetworkAssumption
<1>2. EmptyTable \in Tables(AlarmNames(n)) /\ \A r \in Rows : EmptyTable[r] = FreeRow
  BY FreeRowIsARow DEF EmptyTable, Tables
<1>3. 0 \in 0 .. MaxUNS8 /\ TIMER_NONE \in Handles /\ <<>> \in Seq(Frames)
  BY LifeGuardAssumption DEF Handles
<1>4. /\ x \in NodeStates(n) /\ x.nodeState = Unknown_state /\ x.communication = {}
      /\ x.out = <<>> /\ x.alarms = EmptyTable
      /\ \A a \in AlarmNames(n) : x.handle[a] = TIMER_NONE
  BY <1>1, <1>2, <1>3 DEF InitialNode, NodeStates, States
<1> HIDE DEF x
<1>5. UsedRows(x.alarms) = {}
  BY <1>2, <1>4, FreeRowIsARow DEF UsedRows
<1>6. Tidy(n, x) /\ NoAlarms(n, x)
  BY <1>4, <1>5 DEF Tidy, Matched, NoAlarms
<1> QED BY <1>4, <1>6 DEF InOrder, x

\* All are, first.
LEMMA NodesStartInOrder == Init => NetworkInvariant
<1> SUFFICES ASSUME Init PROVE NetworkInvariant
  OBVIOUS
<1>1. node = [n \in Nodes |-> InitialNode(n)] /\ inbox = [n \in Nodes |-> <<>>]
  BY DEF Init
<1>2. inbox \in [Nodes -> Seq(Delayed)]
  <2>1. <<>> \in Seq(Delayed)
    OBVIOUS
  <2> QED BY <1>1, <2>1
<1>3. \A n \in Nodes : node[n] = InitialNode(n)
  BY <1>1
<1>4. node = [n \in Nodes |-> node[n]]
  BY <1>1, Zenon
<1>5. \A n \in Nodes : InOrder(n, node[n]) /\ node[n].out = <<>>
  BY <1>3, InitialInOrder
<1> QED BY <1>2, <1>4, <1>5 DEF NetworkInvariant

\* Of a tick a node has only its alarms' times changed.
LEMMA TickInOrder ==
  ASSUME NEW n \in Nodes, NEW x, InOrder(n, x), NEW y,
         y = [x EXCEPT !.alarms = OneTickLater(@)]
  PROVE  InOrder(n, y) /\ y.out = x.out
<1> DEFINE t == OneTickLater(x.alarms)
<1>1. Tidy(n, x) /\ x \in NodeStates(n) /\ Kept(x.alarms, x.handle, AlarmNames(n))
  BY DEF InOrder, Tidy, Kept, NodeStates
<1>2. /\ Kept(t, x.handle, AlarmNames(n))
      /\ \A r \in Rows : t[r].interval = x.alarms[r].interval
  BY <1>1, TickKeeps, RowsAssumption
<1>3. y = WithAlarms(x, t, x.handle) /\ y.out = x.out
  BY <1>1 DEF WithAlarms, NodeStates
<1> HIDE DEF t
<1>4. y \in NodeStates(n) /\ SameSettings(x, y) /\ y.alarms = t /\ y.handle = x.handle
  <2>1. t \in Tables(AlarmNames(n)) /\ x.handle \in [AlarmNames(n) -> Handles]
    BY <1>2 DEF Kept
  <2> DEFINE z == WithAlarms(x, t, x.handle)
  <2>2. z \in NodeStates(n) /\ SameSettings(x, z) /\ z.alarms = t /\ z.handle = x.handle
    BY <1>1, <2>1, AlarmsSet
  <2> QED BY <1>3, <2>2
<1>5. Tidy(n, y)
  <2>1. \A a \in AlarmNames(n) : x.handle[a] # TIMER_NONE => x.handle[a] \in Rows
    BY <1>1 DEF Kept, Handles
  <2> QED BY <1>1, <1>2, <1>4, <2>1 DEF Tidy, Kept
<1> QED BY <1>3, <1>4, <1>5 DEF InOrder, SameSettings, NoAlarms, Watching, Feared

\* Time passes for all.
LEMMA TickKeepsOrder == NetworkInvariant /\ Tick => NetworkInvariant'
<1> SUFFICES ASSUME NetworkInvariant, Tick PROVE NetworkInvariant'
  OBVIOUS
<1>1. node' = [n \in Nodes |-> [node[n] EXCEPT !.alarms = OneTickLater(@)]]
  BY DEF Tick
<1>2. ASSUME NEW n \in Nodes PROVE InOrder(n, node'[n]) /\ node'[n].out = <<>>
  <2>1. node'[n] = [node[n] EXCEPT !.alarms = OneTickLater(@)]
    BY <1>1
  <2>2. InOrder(n, node[n]) /\ node[n].out = <<>>
    BY DEF NetworkInvariant
  <2> QED BY <2>1, <2>2, TickInOrder
<1>3. node' = [n \in Nodes |-> node'[n]]
  BY <1>1, Zenon
<1>4. inbox' \in [Nodes -> Seq(Delayed)]
  <2>1. ASSUME NEW n \in Nodes
        PROVE  [i \in DOMAIN inbox[n] |-> [inbox[n][i] EXCEPT !.age = @ + 1]] \in Seq(Delayed)
    <3>1. inbox[n] \in Seq(Delayed)
      BY DEF NetworkInvariant
    <3>2. \A i \in 1 .. Len(inbox[n]) : [inbox[n][i] EXCEPT !.age = @ + 1] \in Delayed
      <4>1. \A i \in 1 .. Len(inbox[n]) : inbox[n][i] \in Delayed
        BY <3>1
      <4> QED BY <4>1 DEF Delayed
    <3>3. DOMAIN inbox[n] = 1 .. Len(inbox[n]) /\ Len(inbox[n]) \in Nat
      BY <3>1
    <3> QED BY <3>2, <3>3
  <2> QED BY <2>1, Zenon DEF Tick
<1> QED BY <1>2, <1>3, <1>4 DEF NetworkInvariant

\* A node crashes, or a frame is lost.
LEMMA FaultsKeepOrder ==
  ASSUME NetworkInvariant, NEW n \in Nodes, Lose(n) \/ Crash(n)
  PROVE  NetworkInvariant'
<1>1. node = [p \in Nodes |-> node[p]] /\ inbox \in [Nodes -> Seq(Delayed)]
  BY DEF NetworkInvariant
<1>2. CASE Lose(n)
  <2>1. node' = node /\ inbox' = [inbox EXCEPT ![n] = Tail(@)] /\ inbox[n] # <<>>
    BY <1>2 DEF Lose
  <2>2. Tail(inbox[n]) \in Seq(Delayed)
    BY <1>1, <2>1
  <2>3. inbox' \in [Nodes -> Seq(Delayed)]
    BY <1>1, <2>1, <2>2
  <2> QED BY <2>1, <2>3 DEF NetworkInvariant
<1>3. CASE Crash(n)
  <2>1. /\ node' = [node EXCEPT ![n] = InitialNode(n)]
        /\ inbox' = [inbox EXCEPT ![n] = <<>>]
    BY <1>3 DEF Crash
  <2>2. node' = [p \in Nodes |-> IF p = n THEN InitialNode(n) ELSE node[p]]
    BY <1>1, <2>1
  <2>3. inbox' \in [Nodes -> Seq(Delayed)]
    <3>1. <<>> \in Seq(Delayed)
      OBVIOUS
    <3> QED BY <1>1, <2>1, <3>1
  <2>4. node' = [p \in Nodes |-> node'[p]]
    BY <2>2, Zenon
  <2>5. ASSUME NEW p \in Nodes PROVE InOrder(p, node'[p]) /\ node'[p].out = <<>>
    <3>1. CASE p = n
      BY <2>2, <3>1, InitialInOrder
    <3>2. CASE p # n
      BY <2>2, <3>2 DEF NetworkInvariant
    <3> QED BY <3>1, <3>2
  <2> QED BY <2>3, <2>4, <2>5 DEF NetworkInvariant
<1> QED BY <1>2, <1>3

\* A node takes a frame from its inbox.
LEMMA ReceiveKeepsOrder ==
  ASSUME NetworkInvariant, NEW n \in Nodes, Receive(n)
  PROVE  NetworkInvariant'
<1> DEFINE m == Head(inbox[n]).frame
           new == canDispatch(n, node[n], m)
<1>1. inbox[n] \in Seq(Delayed) /\ inbox[n] # <<>> /\ InOrder(n, node[n])
  BY DEF NetworkInvariant, Receive
<1>2. Head(inbox[n]) \in Delayed /\ Tail(inbox[n]) \in Seq(Delayed)
  BY <1>1
<1>3. m \in Frames
  BY <1>2 DEF Delayed
<1>4. new = canDispatch(n, node[n], m) /\ Becomes(n, new, Tail(inbox[n]))
  BY DEF Receive
<1> HIDE DEF new, m
<1>5. InOrder(n, new)
  BY <1>1, <1>3, <1>4, DispatchInOrder
<1> QED BY <1>2, <1>4, <1>5, BecomesKeeps

\* An alarm is called.
LEMMA CallAlarmKeepsOrder ==
  ASSUME NetworkInvariant, NEW n \in Nodes, NEW r \in Rows, CallAlarm(n, r)
  PROVE  NetworkInvariant'
<1> DEFINE x == node[n]
           alarm == x.alarms[r].alarm
           d == [x EXCEPT !.alarms = Called(@, r)]
           new == IF alarm = Producer THEN ProducerHeartbeatAlarm(n, d)
                  ELSE IF alarm = Guard THEN GuardTimeAlarm(n, d)
                  ELSE ConsumerHeartbeatAlarm(n, d, alarm[2])
<1>1. InOrder(n, x) /\ inbox[n] \in Seq(Delayed)
  BY DEF NetworkInvariant
<1>2. Due(x.alarms, r) /\ Becomes(n, new, inbox[n])
  BY DEF CallAlarm, Acts
<1>3. d = [x EXCEPT !.alarms = Called(@, r)]
  OBVIOUS
<1>4. d = WithAlarms(x, Called(x.alarms, r), x.handle)
  BY <1>1 DEF InOrder, Tidy, NodeStates, WithAlarms
<1>5. new = IF alarm = Producer THEN ProducerHeartbeatAlarm(n, d)
            ELSE IF alarm = Guard THEN GuardTimeAlarm(n, d)
            ELSE ConsumerHeartbeatAlarm(n, d, alarm[2])
  OBVIOUS
<1>6. alarm \in AlarmNames(n) /\ alarm = x.alarms[r].alarm
  BY <1>1, <1>2, DueIsKnown
<1> HIDE DEF x, alarm, d, new
<1>7. InOrder(n, new)
  <2>1. CASE alarm \in Periodic
    <3>1. InOrder(n, d) /\ d.nodeState # Unknown_state
      BY <1>1, <1>2, <1>4, <1>6, <2>1, ArmedAgainInOrder
    <3>2. CASE alarm = Producer
      BY <1>5, <3>1, <3>2, ProducerInOrder
    <3>3. CASE alarm = Guard
      BY <1>5, <3>1, <3>3, NamesDiffer, GuardInOrder
    <3> QED BY <2>1, <3>2, <3>3 DEF Periodic
  <2>2. CASE alarm \notin Periodic
    <3>1. PICK i \in Entries(n) : alarm = Consumer(i)
      BY <1>6, <2>2, NamesDiffer
    <3>2. alarm[2] = i
      BY <3>1 DEF Consumer
    <3>3. new = ConsumerHeartbeatAlarm(n, d, i)
      BY <1>5, <2>2, <3>2 DEF Periodic
    <3> QED BY <1>1, <1>2, <1>3, <1>6, <3>1, <3>3, ConsumerInOrder
  <2> QED BY <2>1, <2>2
<1> QED BY <1>1, <1>2, <1>7, BecomesKeeps

\* A node boots.
LEMMA BootKeepsOrder ==
  ASSUME NetworkInvariant, NEW n \in Nodes, Boot(n)
  PROVE  NetworkInvariant'
<1> DEFINE new == setState(n, node[n], Initialisation)
<1>1. InOrder(n, node[n]) /\ inbox[n] \in Seq(Delayed)
  BY DEF NetworkInvariant
<1>2. new = setState(n, node[n], Initialisation) /\ Becomes(n, new, inbox[n])
  BY DEF Boot, Acts
<1> HIDE DEF new
<1>3. InOrder(n, new)
  BY <1>1, <1>2, SetStateInOrder
<1> QED BY <1>1, <1>2, <1>3, BecomesKeeps

\* A user calls.
LEMMA UsersKeepOrder ==
  ASSUME NetworkInvariant, NEW n \in Nodes,
         \/ \E s \in {Initialisation, Pre_operational, Operational, Stopped} : UserSetsState(n, s)
         \/ \E p \in Nodes \cup {Everybody}, cs \in Commands : UserCommands(n, p, cs)
         \/ \E p \in Nodes : UserAsks(n, p)
         \/ UserAsksAll(n)
  PROVE  NetworkInvariant'
<1>1. /\ InOrder(n, node[n]) /\ inbox[n] \in Seq(Delayed)
      /\ node[n].NMTable \in [Nodes -> States]
  BY FieldsOfNode DEF NetworkInvariant, InOrder, Tidy
<1>2. node[n].nodeState # Unknown_state
  BY DEF UserSetsState, UserCommands, UserAsks, UserAsksAll, Calls, Up
<1>3. ASSUME NEW s \in {Initialisation, Pre_operational, Operational, Stopped},
             UserSetsState(n, s)
      PROVE  NetworkInvariant'
  <2> DEFINE new == setState(n, node[n], s)
  <2>1. new = setState(n, node[n], s) /\ Becomes(n, new, inbox[n])
    BY <1>3 DEF UserSetsState, Calls, Acts
  <2> HIDE DEF new
  <2>2. InOrder(n, new)
    BY <1>1, <2>1, SetStateInOrder
  <2> QED BY <1>1, <2>1, <2>2, BecomesKeeps
<1>4. ASSUME NEW p \in Nodes \cup {Everybody}, NEW cs \in Commands, UserCommands(n, p, cs)
      PROVE  NetworkInvariant'
  <2> DEFINE new == Send(node[n], NMTFrame(p, cs))
  <2>1. new = Send(node[n], NMTFrame(p, cs)) /\ Becomes(n, new, inbox[n])
    BY <1>4 DEF UserCommands, masterSendNMTstateChange, Calls, Acts
  <2>2. NMTFrame(p, cs) \in Frames
    BY CommandsAreFrames
  <2> HIDE DEF new
  <2>3. InOrder(n, new)
    BY <1>1, <1>2, <2>1, <2>2, CommandInOrder
  <2> QED BY <1>1, <2>1, <2>3, BecomesKeeps
<1>5. ASSUME NEW p \in Nodes, UserAsks(n, p) PROVE NetworkInvariant'
  <2> DEFINE table == [node[n].NMTable EXCEPT ![p] = Unknown_state]
             new == masterSendNMTnodeguard(WithTable(node[n], table), p)
  <2>1. Becomes(n, new, inbox[n])
    BY <1>5 DEF UserAsks, masterRequestNodeState, Calls, Acts, WithTable
  <2>2. /\ table \in [Nodes -> States]
        /\ \A q \in Nodes : table[q] \in {node[n].NMTable[q], Unknown_state}
    BY <1>1 DEF States
  <2>3. new = masterSendNMTnodeguard(WithTable(node[n], table), p)
    OBVIOUS
  <2> HIDE DEF new, table
  <2>4. InOrder(n, new)
    BY <1>1, <1>2, <2>2, <2>3, AskingInOrder
  <2> QED BY <1>1, <2>1, <2>4, BecomesKeeps
<1>6. ASSUME UserAsksAll(n) PROVE NetworkInvariant'
  <2> DEFINE table == [p \in Nodes |-> Unknown_state]
             new == masterSendNMTnodeguard(WithTable(node[n], table), Everybody)
  <2>1. Becomes(n, new, inbox[n])
    BY <1>6 DEF UserAsksAll, masterRequestAllStates, Calls, Acts, WithTable, Everybody
  <2>2. /\ table \in [Nodes -> States]
        /\ \A q \in Nodes : table[q] \in {node[n].NMTable[q], Unknown_state}
    BY DEF States
  <2>3. new = masterSendNMTnodeguard(WithTable(node[n], table), Everybody)
    OBVIOUS
  <2> HIDE DEF new, table
  <2>4. InOrder(n, new)
    BY <1>1, <1>2, <2>2, <2>3, AskingInOrder
  <2> QED BY <1>1, <2>1, <2>4, BecomesKeeps
<1> QED BY <1>3, <1>4, <1>5, <1>6

\* A dictionary is written.
LEMMA WritesKeepOrder ==
  ASSUME NetworkInvariant, NEW n \in Nodes,
         \/ \E time \in HeartBeatTimes : WriteHeartBeatTime(n, time)
         \/ \E time \in GuardTimes : WriteGuardTime(n, time)
         \/ \E factor \in LifeTimeFactors : WriteLifeTimeFactor(n, factor)
  PROVE  NetworkInvariant'
<1>1. InOrder(n, node[n]) /\ inbox[n] \in Seq(Delayed)
  BY DEF NetworkInvariant
<1>2. node[n].nodeState # Unknown_state
  BY DEF WriteHeartBeatTime, WriteGuardTime, WriteLifeTimeFactor, Writes, Up
<1>3. /\ HeartBeatTimes \subseteq Nat /\ GuardTimes \subseteq Nat
      /\ LifeTimeFactors \subseteq 0 .. MaxUNS8 /\ 0 \in Nat /\ 0 \in 0 .. MaxUNS8
  BY NetworkAssumption, LifeGuardAssumption
<1>4. ASSUME NEW time \in HeartBeatTimes, WriteHeartBeatTime(n, time) PROVE NetworkInvariant'
  <2> DEFINE d == [node[n] EXCEPT !.ProducerHeartBeatTime = time]
             new == IF node[n].registered THEN OnHeartbeatProducerUpdate(d) ELSE d
  <2>1. Becomes(n, new, inbox[n])
    BY <1>4 DEF WriteHeartBeatTime, Writes, Acts
  <2>2. d = [node[n] EXCEPT !.ProducerHeartBeatTime = time]
    OBVIOUS
  <2>3. new = OnHeartbeatProducerUpdate(d) \/ new = d
    OBVIOUS
  <2> HIDE DEF new, d
  <2>4. InOrder(n, d) /\ d.nodeState # Unknown_state
    BY <1>1, <1>2, <1>3, <2>2, WrittenInOrder
  <2>5. InOrder(n, new)
    BY <2>3, <2>4, ProducerUpdated
  <2> QED BY <1>1, <2>1, <2>5, BecomesKeeps
<1>5. ASSUME NEW time \in GuardTimes, WriteGuardTime(n, time) PROVE NetworkInvariant'
  <2> DEFINE d == [node[n] EXCEPT !.GuardTime = time]
             new == IF node[n].registered THEN OnNodeGuardUpdate(n, d) ELSE d
  <2>1. Becomes(n, new, inbox[n])
    BY <1>5 DEF WriteGuardTime, Writes, Acts
  <2>2. d = [node[n] EXCEPT !.GuardTime = time]
    OBVIOUS
  <2>3. new = OnNodeGuardUpdate(n, d) \/ new = d
    OBVIOUS
  <2> HIDE DEF new, d
  <2>4. InOrder(n, d) /\ d.nodeState # Unknown_state
    BY <1>1, <1>2, <1>3, <2>2, WrittenInOrder
  <2>5. InOrder(n, new)
    BY <2>3, <2>4, GuardUpdated
  <2> QED BY <1>1, <2>1, <2>5, BecomesKeeps
<1>6. ASSUME NEW factor \in LifeTimeFactors, WriteLifeTimeFactor(n, factor)
      PROVE  NetworkInvariant'
  <2> DEFINE d == [node[n] EXCEPT !.LifeTimeFactor = factor]
             new == IF node[n].registered THEN OnNodeGuardUpdate(n, d) ELSE d
  <2>1. Becomes(n, new, inbox[n])
    BY <1>6 DEF WriteLifeTimeFactor, Writes, Acts
  <2>2. d = [node[n] EXCEPT !.LifeTimeFactor = factor]
    OBVIOUS
  <2>3. new = OnNodeGuardUpdate(n, d) \/ new = d
    OBVIOUS
  <2> HIDE DEF new, d
  <2>4. InOrder(n, d) /\ d.nodeState # Unknown_state
    BY <1>1, <1>2, <1>3, <2>2, WrittenInOrder
  <2>5. InOrder(n, new)
    BY <2>3, <2>4, GuardUpdated
  <2> QED BY <1>1, <2>1, <2>5, BecomesKeeps
<1> QED BY <1>4, <1>5, <1>6

-----------------------------------------------------------------------------
\* Whatever the nodes, users, dictionaries and faults do, every node is well
\* typed, is down without alarms or guards its list, and its alarms and
\* handles match (lifegrd.c, nmtSlave.c, nmtMaster.c, states.c).
THEOREM NodesStayInOrder == Spec => []NetworkInvariant
<1>1. Init => NetworkInvariant
  BY NodesStartInOrder
<1>2. NetworkInvariant /\ [Next]_vars => NetworkInvariant'
  <2> SUFFICES ASSUME NetworkInvariant, [Next]_vars PROVE NetworkInvariant'
    OBVIOUS
  <2>1. CASE Tick
    BY <2>1, TickKeepsOrder
  <2>2. CASE \E n \in Nodes : Receive(n) \/ Boot(n) \/ Lose(n) \/ Crash(n) \/ UserAsksAll(n)
    BY <2>2, ReceiveKeepsOrder, BootKeepsOrder, FaultsKeepOrder, UsersKeepOrder
  <2>3. CASE \E n \in Nodes, r \in Rows : CallAlarm(n, r)
    BY <2>3, CallAlarmKeepsOrder
  <2>4. CASE \E n \in Nodes, s \in {Initialisation, Pre_operational, Operational, Stopped} :
               UserSetsState(n, s)
    BY <2>4, UsersKeepOrder
  <2>5. CASE \E n \in Nodes, p \in Nodes \cup {Everybody}, cs \in Commands :
               UserCommands(n, p, cs)
    BY <2>5, UsersKeepOrder
  <2>6. CASE \E n, p \in Nodes : UserAsks(n, p)
    BY <2>6, UsersKeepOrder
  <2>7. CASE \/ \E n \in Nodes, t \in HeartBeatTimes : WriteHeartBeatTime(n, t)
             \/ \E n \in Nodes, t \in GuardTimes : WriteGuardTime(n, t)
             \/ \E n \in Nodes, f \in LifeTimeFactors : WriteLifeTimeFactor(n, f)
    BY <2>7, WritesKeepOrder
  <2>8. CASE UNCHANGED vars
    <3>1. node' = node /\ inbox' = inbox
      BY <2>8 DEF vars
    <3> QED BY <3>1 DEF NetworkInvariant
  <2> QED BY <2>1, <2>2, <2>3, <2>4, <2>5, <2>6, <2>7, <2>8 DEF Next
<1> QED BY <1>1, <1>2, PTL DEF Spec

\* Of each alarm of life guarding its node knows the handle, and each handle is
\* of the alarm it is kept for: none runs on without owner, none is deleted by
\* another's owner (SetAlarm and DelAlarm as lifegrd.c uses them).
THEOREM HandlesAreRight == Spec => []AlarmsMatchHandles
<1>1. NetworkInvariant => AlarmsMatchHandles
  BY DEF NetworkInvariant, InOrder, Tidy, Matched, AlarmsMatchHandles
<1> QED BY <1>1, NodesStayInOrder, PTL

\* A node that another believes in is watched with a running alarm: no order of
\* state changes, writes, frames, crashes and expirations lets the consumer of
\* heartbeats forget it (ConsumerHeartbeatAlarm, proceedNODE_GUARD, heartbeatInit).
THEOREM SilenceIsWatched == Spec => []WatchedOrReported
<1>1. NetworkInvariant => WatchedOrReported
  <2> SUFFICES ASSUME NetworkInvariant, NEW n \in Nodes, Up(n), NEW i \in Entries(n),
                      ConsumerHeartbeatEntries[n][i].time # 0,
                      Believed(n, ConsumerHeartbeatEntries[n][i].node)
               PROVE  node[n].handle[Consumer(i)] # TIMER_NONE
    BY DEF WatchedOrReported
  <2>1. Watching(n, node[n])
    BY DEF NetworkInvariant, InOrder, Up
  <2> QED BY <2>1 DEF Watching, Feared, Believed
<1> QED BY <1>1, NodesStayInOrder, PTL

=============================================================================
