-------------------------- MODULE Emergency_proofs --------------------------
(***************************************************************************)
(* Proofs about Emergency: what the error register tells, for any table of *)
(* errors, any codes that share any bits, and whatever clients write.      *)
(***************************************************************************)
EXTENDS Emergency, WellFoundedInduction, TLAPS

USE DEF Error_free, Error_occurred, RO, NoCode

-----------------------------------------------------------------------------
(***************************************************************************)
(* The inductive invariant.                                                *)
(***************************************************************************)
RowRecords == [errCode : Codes \cup {NoCode}, errRegMask : SUBSET Bits, active : BOOLEAN]

\* A row in use has the bits of its code, and no other row has that code.
RowsOK ==
  /\ error_data \in [Rows -> RowRecords]
  /\ \A r \in Rows : error_data[r].active => error_data[r].errCode # NoCode
  /\ \A r \in Rows : error_data[r].errCode # NoCode =>
       error_data[r].errRegMask = Mask[error_data[r].errCode]
  /\ \A r, q \in Rows : r # q /\ error_data[r].errCode # NoCode =>
       error_data[r].errCode # error_data[q].errCode

\* Entry 0x1001 of a dictionary holds these bits, and clients may only read it.
RegisterIs(dict, bits) ==
  /\ ErrorRegister \in DOMAIN dict
  /\ dict[ErrorRegister] = <<Entry({RO}, "uint8", <<bits>>)>>

EmergencyInvariant ==
  /\ RowsOK
  /\ RegisterIs(od, RegisterOf(error_data))
  /\ (error_state = Error_free) = (ActiveIn(error_data) = {})

-----------------------------------------------------------------------------
\* The loops over error_data find the first row they look for.
LEMMA LowestRowIsIn ==
  ASSUME NEW S, S \subseteq Rows, S # {}
  PROVE  LowestRow(S) \in S
<1>1. S \subseteq Nat
  BY EmergencyAssumption DEF Rows
<1>2. IsWellFoundedOn(OpToRel(<, Nat), Nat)
  BY NatLessThanWellFounded, Zenon
<1>3. PICK r \in S : \A q \in S : ~(<<q, r>> \in OpToRel(<, Nat))
  BY <1>1, <1>2, WFMin, Zenon
<1>4. \A q \in S : ~(q < r)
  BY <1>1, <1>3, Zenon DEF OpToRel
<1>5. ASSUME NEW q \in S PROVE r <= q
  <2>1. r \in Nat /\ q \in Nat
    BY <1>1
  <2> QED BY <1>4, <2>1
<1> QED BY <1>5, Zenon DEF LowestRow

\* EMCY_setError finds a row unless the table is full.
LEMMA RowForIsARow ==
  ASSUME NEW code, RowsOf(code) \cup InactiveRows # {}
  PROVE  /\ RowFor(code) \in Rows
         /\ RowsOf(code) # {} => RowFor(code) \in RowsOf(code)
<1>1. RowsOf(code) \subseteq Rows /\ InactiveRows \subseteq Rows
  BY DEF RowsOf, InactiveRows
<1>2. CASE RowsOf(code) # {}
  BY <1>1, <1>2, LowestRowIsIn, Zenon DEF RowFor
<1>3. CASE RowsOf(code) = {}
  <2>1. InactiveRows # {}
    BY <1>3
  <2>2. LowestRow(InactiveRows) \in InactiveRows
    BY <1>1, <2>1, LowestRowIsIn
  <2>3. RowFor(code) = LowestRow(InactiveRows)
    BY <1>3 DEF RowFor
  <2> QED BY <1>1, <1>3, <2>2, <2>3
<1> QED BY <1>2, <1>3

-----------------------------------------------------------------------------
(***************************************************************************)
(* Entry 0x1001 under the operations on the dictionary.                    *)
(***************************************************************************)
\* Storing the register.
LEMMA SetRegisterSets ==
  ASSUME NEW dict, NEW old, RegisterIs(dict, old), NEW bits
  PROVE  RegisterIs(SetRegister(dict, bits), bits)
BY DEF RegisterIs, SetRegister, Store, Entry

\* 0x1001 is not 0x1003.
LEMMA IndexesDiffer == PredefinedErrors # ErrorRegister
BY DEF PredefinedErrors, ErrorRegister

\* Whatever changes another entry.
LEMMA OthersKeepRegister ==
  ASSUME NEW dict, NEW bits, RegisterIs(dict, bits), NEW i, i # ErrorRegister, NEW e
  PROVE  RegisterIs([dict EXCEPT ![i] = e], bits)
BY DEF RegisterIs

\* A client's write never gets as far as 0x1001.
LEMMA RegisterIsReadOnly ==
  ASSUME NEW dict, NEW bits, RegisterIs(dict, bits), NEW sub \in Nat, NEW data
  PROVE  Verdict(dict, ErrorRegister, sub, data, TRUE) # OD_SUCCESSFUL
<1>1. Len(dict[ErrorRegister]) = 1
  BY DEF RegisterIs
<1>2. CASE sub >= 1
  BY <1>1, <1>2 DEF Verdict, Missing, RegisterIs, OD_SUCCESSFUL, OD_NO_SUCH_SUBINDEX
<1>3. CASE sub = 0
  <2>1. Sub(dict, ErrorRegister, sub).bAccessType = {RO}
    BY <1>3 DEF RegisterIs, Sub, Entry
  <2> QED BY <1>1, <1>3, <2>1
          DEF Verdict, Missing, RegisterIs, OD_SUCCESSFUL, OD_WRITE_NOT_ALLOWED
<1>4. sub = 0 \/ sub >= 1
  OBVIOUS
<1> QED BY <1>2, <1>3, <1>4, Zenon

-----------------------------------------------------------------------------
(***************************************************************************)
(* One step per action.                                                    *)
(***************************************************************************)
\* Raising an error.
LEMMA SetErrorKeeps ==
  ASSUME EmergencyInvariant, NEW c \in Codes, EMCY_setError(c)
  PROVE  EmergencyInvariant'
<1> DEFINE full == \/ \E r \in RowsOf(c) : error_data[r].active
                   \/ RowsOf(c) \cup InactiveRows = {}
           q == RowFor(c)
           row == [errCode |-> c, errRegMask |-> Mask[c], active |-> TRUE]
           rows == [error_data EXCEPT ![q] = row]
<1>1. CASE full
  BY <1>1 DEF EMCY_setError, nodeVars, EmergencyInvariant, RowsOK
<1>2. CASE ~full
  <2>1. /\ error_data' = rows
        /\ error_state' = Error_occurred
        /\ od' = Pushed(SetRegister(od, RegisterOf(rows)), c)
    BY <1>2 DEF EMCY_setError
  <2>2. q \in Rows /\ (RowsOf(c) # {} => q \in RowsOf(c))
    BY <1>2, RowForIsARow
  <2> HIDE DEF q
  <2>3. row \in RowRecords /\ c # NoCode
    BY EmergencyAssumption DEF RowRecords
  <2>4. \A r \in Rows : r # q => error_data[r].errCode # c
    BY <2>2, <2>3 DEF EmergencyInvariant, RowsOK, RowsOf
  <2>5. RowsOK'
    <3> DEFINE d == error_data'
    <3>1. d \in [Rows -> RowRecords]
      BY <2>1, <2>2, <2>3 DEF EmergencyInvariant, RowsOK
    <3>2. \A r \in Rows : d[r] = IF r = q THEN row ELSE error_data[r]
      BY <2>1, <2>2 DEF EmergencyInvariant, RowsOK
    <3> HIDE DEF d
    <3> QED BY <2>2, <2>3, <2>4, <3>1, <3>2 DEF EmergencyInvariant, RowsOK, d
  <2>6. RegisterIs(od', RegisterOf(rows))
    <3> DEFINE dict == SetRegister(od, RegisterOf(rows))
               moved == Shifted(dict, c)
    <3>1. RegisterIs(dict, RegisterOf(rows))
      BY SetRegisterSets DEF EmergencyInvariant
    <3> HIDE DEF dict, rows
    <3>2. RegisterIs(moved, RegisterOf(rows))
      BY <3>1, OthersKeepRegister, IndexesDiffer DEF Shifted
    <3> HIDE DEF moved
    <3>3. \A n : RegisterIs(SetNumber(moved, n), RegisterOf(rows))
      BY <3>2, OthersKeepRegister, IndexesDiffer DEF SetNumber, Store
    <3> QED BY <2>1, <3>3 DEF Pushed, dict, moved
  <2>7. q \in ActiveIn(rows)
    BY <2>2 DEF ActiveIn, EmergencyInvariant, RowsOK
  <2> QED BY <2>1, <2>5, <2>6, <2>7 DEF EmergencyInvariant
<1> QED BY <1>1, <1>2

\* Recovering one.
LEMMA RecoveredKeeps ==
  ASSUME EmergencyInvariant, NEW c \in Codes, EMCY_errorRecovered(c)
  PROVE  EmergencyInvariant'
<1> DEFINE q == LowestRow(RowsOf(c))
           rows == [error_data EXCEPT ![q].active = FALSE]
<1>1. /\ error_data' = rows
      /\ od' = SetRegister(od, RegisterOf(rows))
      /\ error_state' = IF ActiveIn(rows) = {} THEN Error_free ELSE error_state
  BY DEF EMCY_errorRecovered, RegisterAfter
<1>2. q \in RowsOf(c)
  BY LowestRowIsIn DEF EMCY_errorRecovered, RowsOf
<1>3. q \in Rows
  BY <1>2 DEF RowsOf
<1> HIDE DEF q
<1>4. \A r \in Rows :
        /\ rows[r].errCode = error_data[r].errCode
        /\ rows[r].errRegMask = error_data[r].errRegMask
        /\ rows[r].active => error_data[r].active
  BY <1>3 DEF EmergencyInvariant, RowsOK, RowRecords
<1>5. rows \in [Rows -> RowRecords]
  BY <1>3 DEF EmergencyInvariant, RowsOK, RowRecords
<1>6. RowsOK'
  <2> HIDE DEF rows
  <2> QED BY <1>1, <1>4, <1>5 DEF EmergencyInvariant, RowsOK
<1>7. RegisterIs(od', RegisterOf(rows))
  BY <1>1, SetRegisterSets DEF EmergencyInvariant
<1>8. ActiveIn(rows) \subseteq ActiveIn(error_data)
  BY <1>4 DEF ActiveIn
<1> HIDE DEF rows
<1> QED BY <1>1, <1>6, <1>7, <1>8 DEF EmergencyInvariant

\* A change of the node's state.
LEMMA SwitchKeeps ==
  ASSUME EmergencyInvariant, SwitchesEmergency
  PROVE  EmergencyInvariant'
<1>1. error_data' = error_data /\ error_state' = error_state
  BY DEF SwitchesEmergency
<1>2. ASSUME NEW dict, RegisterIs(dict, RegisterOf(error_data)), NEW callback
      PROVE  RegisterIs(RegisterSetODentryCallBack(dict, PredefinedErrors, 0, callback),
                        RegisterOf(error_data))
  BY <1>2, OthersKeepRegister, IndexesDiffer DEF RegisterSetODentryCallBack
<1>3. RegisterIs(SetNumber(od, 0), RegisterOf(error_data))
  BY OthersKeepRegister, IndexesDiffer DEF EmergencyInvariant, SetNumber, Store
<1>4. RegisterIs(od', RegisterOf(error_data))
  BY <1>2, <1>3 DEF SwitchesEmergency, emergencyInit, EmergencyInvariant
<1> QED BY <1>1, <1>4 DEF EmergencyInvariant, RowsOK

\* A client's write.
LEMMA WriteKeeps ==
  ASSUME EmergencyInvariant, NEW w \in Written_to, setODentry(w.index, w.sub, w.data)
  PROVE  EmergencyInvariant'
<1> DEFINE bits == RegisterOf(error_data)
           dict == Written(od, w.index, w.sub, w.data)
<1>1. error_data' = error_data /\ error_state' = error_state
  BY DEF setODentry
<1>2. RegisterIs(od, bits)
  BY DEF EmergencyInvariant
<1> HIDE DEF bits
<1>3. ASSUME od' = od PROVE RegisterIs(od', bits)
  BY <1>2, <1>3
<1>4. ASSUME od' # od PROVE RegisterIs(od', bits)
  <2>1. Verdict(od, w.index, w.sub, w.data, TRUE) = OD_SUCCESSFUL
    BY <1>4 DEF setODentry
  <2>2. w.index # ErrorRegister
    <3>1. w.sub \in Nat
      BY EmergencyAssumption
    <3> QED BY <1>2, <2>1, <3>1, RegisterIsReadOnly, Zenon
  <2>3. RegisterIs(dict, bits)
    BY <1>2, <2>2, OthersKeepRegister DEF Written, Store
  <2> HIDE DEF dict
  <2>4. RegisterIs(OnNumberOfErrorsUpdate(dict), bits)
    <3>1. ASSUME NEW e PROVE RegisterIs([dict EXCEPT ![PredefinedErrors] = e], bits)
      BY <2>3, OthersKeepRegister, IndexesDiffer
    <3> QED BY <2>3, <3>1, Zenon DEF OnNumberOfErrorsUpdate
  <2>5. od' = dict \/ od' = OnNumberOfErrorsUpdate(dict)
    BY <2>1 DEF setODentry, dict
  <2> QED BY <2>3, <2>4, <2>5
<1>5. RegisterIs(od', bits)
  BY <1>2, <1>3, <1>4
<1> QED BY <1>1, <1>5 DEF EmergencyInvariant, RowsOK, bits

-----------------------------------------------------------------------------
(***************************************************************************)
(* The theorems.                                                           *)
(***************************************************************************)
\* The strengthening RegisterTellsActiveErrors rests on.
THEOREM RowsAndRegisterAgree == Spec => []EmergencyInvariant
<1>1. Init => EmergencyInvariant
  <2> SUFFICES ASSUME Init PROVE EmergencyInvariant
    OBVIOUS
  <2>1. \A r \in Rows : error_data[r] = FreeRow
    BY DEF Init
  <2>2. ActiveIn(error_data) = {}
    BY <2>1 DEF ActiveIn, FreeRow
  <2>3. RegisterOf(error_data) = {}
    BY <2>2 DEF RegisterOf
  <2>4. RegisterIs(od, {})
    BY DEF Init, InitialDictionary, RegisterIs, ErrorRegister, PredefinedErrors, String, Domain
  <2>5. RowsOK
    BY <2>1 DEF Init, RowsOK, RowRecords, FreeRow
  <2> QED BY <2>2, <2>3, <2>4, <2>5 DEF Init, EmergencyInvariant
<1>2. EmergencyInvariant /\ [Next]_vars => EmergencyInvariant'
  <2> SUFFICES ASSUME EmergencyInvariant, [Next]_vars PROVE EmergencyInvariant'
    OBVIOUS
  <2>1. ASSUME NEW c \in Codes, EMCY_setError(c) PROVE EmergencyInvariant'
    BY <2>1, SetErrorKeeps
  <2>2. ASSUME NEW c \in Codes, EMCY_errorRecovered(c) PROVE EmergencyInvariant'
    BY <2>2, RecoveredKeeps
  <2>3. CASE SwitchesEmergency
    BY <2>3, SwitchKeeps
  <2>4. ASSUME NEW w \in Written_to, setODentry(w.index, w.sub, w.data)
        PROVE  EmergencyInvariant'
    BY <2>4, WriteKeeps
  <2>5. CASE UNCHANGED nodeVars
    BY <2>5 DEF nodeVars, EmergencyInvariant, RowsOK
  <2>6. proceedEMCY \/ Lose \/ UNCHANGED vars => UNCHANGED nodeVars
    BY DEF proceedEMCY, Lose, vars
  <2> QED BY <2>1, <2>2, <2>3, <2>4, <2>5, <2>6 DEF Next
<1> QED BY <1>1, <1>2, PTL DEF Spec

\* RegisterTellsActiveErrors: EMCY_setError and EMCY_errorRecovered keep the
\* register, error_state and the table in step, whoever shares a bit.
THEOREM RegisterIsRight == Spec => []RegisterTellsActiveErrors
<1>1. EmergencyInvariant => RegisterTellsActiveErrors
  <2> SUFFICES ASSUME EmergencyInvariant PROVE RegisterTellsActiveErrors
    OBVIOUS
  <2>1. error_register = RegisterOf(error_data)
    BY DEF EmergencyInvariant, RegisterIs, error_register, Sub, Entry
  <2>2. \A r \in ActiveIn(error_data) :
          error_data[r].errRegMask = Mask[error_data[r].errCode]
    BY DEF EmergencyInvariant, RowsOK, ActiveIn
  <2>3. RegisterOf(error_data) = UNION {Mask[c] : c \in ActiveCodes}
    <3>1. ASSUME NEW b
          PROVE  b \in RegisterOf(error_data) <=> b \in UNION {Mask[c] : c \in ActiveCodes}
      BY <2>2 DEF RegisterOf, ActiveCodes
    <3> QED BY <3>1, Zenon
  <2>4. (ActiveCodes = {}) = (ActiveIn(error_data) = {})
    BY DEF ActiveCodes
  <2> QED BY <2>1, <2>3, <2>4 DEF EmergencyInvariant, RowsOK, RegisterTellsActiveErrors
<1> QED BY <1>1, RowsAndRegisterAgree, PTL

-----------------------------------------------------------------------------
(***************************************************************************)
(* The dictionary: the history of errors and the application's entries.    *)
(***************************************************************************)
Values == 0 .. error_history_size \cup Codes \cup {NoCode}
HistoryEntries ==
  [bAccessType : SUBSET {RO}, bDataType : {valueRange_EMC, "uint32"},
   pObject : Seq(Values), callback : {NoCallback, "OnNumberOfErrorsUpdate"}]

Counted(l) == IF Len(l) < error_history_size THEN Len(l) ELSE error_history_size

\* Entry 0x1003 h counts the errors of l that it has elements for, and its
\* elements, which clients may only read, are the first of l.
HistoryIs(h, l) ==
  /\ h \in [1 .. error_history_size + 1 -> HistoryEntries]
  /\ h[1].bDataType = valueRange_EMC
  /\ h[1].pObject = <<Counted(l)>>
  /\ \A i \in 2 .. error_history_size + 1 : h[i].bAccessType = {RO}
  /\ \A i \in 1 .. Counted(l) : h[i + 1].pObject = <<l[i]>>

\* The string entry e begins with the bytes of g, and ends there.
StringIs(e, g) ==
  /\ e = <<Entry({}, visible_string, e[1].pObject)>>
  /\ e[1].pObject \in Seq({e[1].pObject[i] : i \in 1 .. StringSize})
  /\ Len(e[1].pObject) = StringSize
  /\ Len(g) \in 0 .. StringSize
  /\ \A i \in 1 .. Len(g) : e[1].pObject[i] = g[i] /\ g[i] # Zero
  /\ Len(g) < StringSize => e[1].pObject[Len(g) + 1] = Zero

DomainIs(e, g) == e = <<Entry({}, domain, g)>>

Indexes == {ErrorRegister, PredefinedErrors, String, Domain}

\* A client's write comes only after emergencyInit, which sets the callback.
DictionaryInvariant ==
  /\ DOMAIN od = Indexes
  /\ log \in Seq(Codes)
  /\ HistoryIs(od[PredefinedErrors], log)
  /\ csEmergency => od[PredefinedErrors][1].callback # NoCallback
  /\ DOMAIN given = {String, Domain}
  /\ given[String] \in Seq({given[String][i] : i \in DOMAIN given[String]})
  /\ given[Domain] \in Seq({given[Domain][i] : i \in DOMAIN given[Domain]})
  /\ StringIs(od[String], given[String])
  /\ DomainIs(od[Domain], given[Domain])

LEMMA AllIndexesDiffer ==
  /\ ErrorRegister # PredefinedErrors /\ ErrorRegister # String /\ ErrorRegister # Domain
  /\ PredefinedErrors # String /\ PredefinedErrors # Domain /\ String # Domain
BY DEF ErrorRegister, PredefinedErrors, String, Domain

LEMMA LenOfTable ==
  ASSUME NEW n \in Nat, NEW S, NEW h \in [1 .. n -> S]
  PROVE  h \in Seq(S) /\ Len(h) = n
<1>1. h \in Seq(S)
  OBVIOUS
<1> QED BY <1>1

\* The history has one element more than it counts, and at least one.
LEMMA HistoryLen ==
  ASSUME NEW h, NEW l, HistoryIs(h, l)
  PROVE  Len(h) = error_history_size + 1
<1>1. error_history_size + 1 \in Nat
  BY EmergencyAssumption
<1> QED BY <1>1, LenOfTable DEF HistoryIs

-----------------------------------------------------------------------------
\* Storing the register leaves the other indexes alone.
LEMMA SetRegisterChangesOne ==
  ASSUME NEW dict, NEW bits
  PROVE  LET new == SetRegister(dict, bits)
         IN  /\ DOMAIN new = DOMAIN dict
             /\ \A i \in DOMAIN dict : i # ErrorRegister => new[i] = dict[i]
BY DEF SetRegister, Store

\* An entry of the history with another value.
With(e, value) == [e EXCEPT !.pObject = value]

LEMMA WithOther ==
  ASSUME NEW e \in HistoryEntries, NEW value \in Seq(Values)
  PROVE  /\ With(e, value) \in HistoryEntries
         /\ With(e, value).pObject = value
         /\ With(e, value).bAccessType = e.bAccessType
         /\ With(e, value).bDataType = e.bDataType
         /\ With(e, value).callback = e.callback
<1>1. With(e, value) = [bAccessType |-> e.bAccessType, bDataType |-> e.bDataType,
                        pObject |-> value, callback |-> e.callback]
  BY DEF HistoryEntries, With
<1> HIDE DEF With
<1> QED BY <1>1 DEF HistoryEntries

\* Subindex 0 of the history.
LEMMA FirstStored ==
  ASSUME NEW h \in [1 .. error_history_size + 1 -> HistoryEntries],
         NEW e \in HistoryEntries,
         NEW new, new = [h EXCEPT ![1] = e]
  PROVE  /\ new \in [1 .. error_history_size + 1 -> HistoryEntries]
         /\ new[1] = e
         /\ \A i \in 2 .. error_history_size + 1 : new[i] = h[i]
BY EmergencyAssumption

\* EMCY_setError's push: the elements move on by one, the new error is the
\* first of them, and the count goes up until all elements count.
LEMMA PushedIsNewest ==
  ASSUME NEW dict, PredefinedErrors \in DOMAIN dict,
         NEW l \in Seq(Codes), HistoryIs(dict[PredefinedErrors], l), NEW c \in Codes
  PROVE  LET new == Pushed(dict, c)
         IN  /\ DOMAIN new = DOMAIN dict
             /\ \A i \in DOMAIN dict : i # PredefinedErrors => new[i] = dict[i]
             /\ HistoryIs(new[PredefinedErrors], <<c>> \o l)
             /\ new[PredefinedErrors][1].callback = dict[PredefinedErrors][1].callback
<1> USE EmergencyAssumption
<1> DEFINE N == error_history_size
           h == dict[PredefinedErrors]
           m == Counted(l)
           n == IF m < N THEN m + 1 ELSE m
           value(i) == IF i = 2 THEN <<c>> ELSE h[i - 1].pObject
           moved == [i \in DOMAIN h |-> IF i = 1 THEN h[1] ELSE With(h[i], value(i))]
           shifted == Shifted(dict, c)
           new == Pushed(dict, c)
           k == new[PredefinedErrors]
           l1 == <<c>> \o l
<1>1. /\ h \in [1 .. N + 1 -> HistoryEntries]
      /\ DOMAIN h = 1 .. N + 1
      /\ h[1].bDataType = valueRange_EMC /\ h[1].pObject = <<m>>
      /\ \A i \in 2 .. N + 1 : h[i].bAccessType = {RO}
      /\ \A i \in 1 .. m : h[i + 1].pObject = <<l[i]>>
  BY DEF HistoryIs
<1>2. m \in 0 .. N /\ n \in 0 .. N
  BY DEF Counted
<1>3. /\ DOMAIN shifted = DOMAIN dict
      /\ shifted[PredefinedErrors] = moved
      /\ \A i \in DOMAIN dict : i # PredefinedErrors => shifted[i] = dict[i]
  <2>1. shifted = [dict EXCEPT ![PredefinedErrors] = moved]
    BY Zenon DEF Shifted, With
  <2> HIDE DEF shifted, moved
  <2> QED BY <2>1
<1>4. element(dict, 0) = m
  BY <1>1 DEF element, Sub
<1>5. new = [shifted EXCEPT ![PredefinedErrors] = [moved EXCEPT ![1] = With(moved[1], <<n>>)]]
  <2>1. new = SetNumber(shifted, n)
    BY <1>4, Zenon DEF Pushed
  <2> HIDE DEF shifted, moved, new, n
  <2>2. new = [shifted EXCEPT ![PredefinedErrors][0 + 1].pObject = <<n>>]
    BY <2>1, Zenon DEF SetNumber, Store
  <2>3. 0 + 1 = 1
    OBVIOUS
  <2> QED BY <1>3, <2>2, <2>3, Zenon DEF With
<1>6. /\ moved \in [1 .. N + 1 -> HistoryEntries]
      /\ moved[1] = h[1]
      /\ \A i \in 2 .. N + 1 : moved[i].bAccessType = {RO} /\ moved[i].pObject = value(i)
  <2>1. <<c>> \in Seq(Values)
    BY DEF Values
  <2>2. \A i \in 1 .. N + 1 : h[i].pObject \in Seq(Values)
    BY <1>1 DEF HistoryEntries
  <2>3. ASSUME NEW i \in 2 .. N + 1
        PROVE  /\ moved[i] \in HistoryEntries
               /\ moved[i].bAccessType = {RO}
               /\ moved[i].pObject = value(i)
    <3>1. value(i) \in Seq(Values)
      BY <2>1, <2>2
    <3>2. moved[i] = With(h[i], value(i))
      BY <1>1
    <3> HIDE DEF value, moved, h
    <3>3. h[i] \in HistoryEntries /\ h[i].bAccessType = {RO}
      BY <1>1
    <3> QED BY <3>1, <3>2, <3>3, WithOther
  <2>4. moved[1] = h[1] /\ h[1] \in HistoryEntries
    BY <1>1
  <2>5. moved = [i \in 1 .. N + 1 |-> moved[i]]
    BY <1>1
  <2> HIDE DEF moved, h
  <2>6. \A i \in 1 .. N + 1 : i = 1 \/ i \in 2 .. N + 1
    OBVIOUS
  <2> QED BY <2>3, <2>4, <2>5, <2>6
<1> HIDE DEF moved, shifted
<1>7. /\ DOMAIN new = DOMAIN dict
      /\ \A i \in DOMAIN dict : i # PredefinedErrors => new[i] = dict[i]
      /\ k = [moved EXCEPT ![1] = With(moved[1], <<n>>)]
  <2> DEFINE entry == [moved EXCEPT ![1] = With(moved[1], <<n>>)]
  <2>1. new = [shifted EXCEPT ![PredefinedErrors] = entry]
    BY <1>5
  <2> HIDE DEF entry, new
  <2>2. k = entry
    BY <1>3, <2>1
  <2> QED BY <1>3, <2>1, <2>2 DEF entry
<1>8. /\ k \in [1 .. N + 1 -> HistoryEntries]
      /\ k[1].pObject = <<n>>
      /\ k[1].bDataType = moved[1].bDataType
      /\ k[1].callback = moved[1].callback
      /\ \A i \in 2 .. N + 1 : k[i] = moved[i]
  <2> DEFINE e == With(moved[1], <<n>>)
  <2>1. k = [moved EXCEPT ![1] = e]
    BY <1>7
  <2>2. <<n>> \in Seq(Values)
    BY <1>2 DEF Values
  <2>3. moved[1] \in HistoryEntries
    BY <1>6
  <2>4. /\ e \in HistoryEntries /\ e.pObject = <<n>>
        /\ e.bDataType = moved[1].bDataType /\ e.callback = moved[1].callback
    BY <2>2, <2>3, WithOther
  <2> HIDE DEF k, e, n
  <2>5. k \in [1 .. N + 1 -> HistoryEntries] /\ k[1] = e
        /\ \A i \in 2 .. N + 1 : k[i] = moved[i]
    BY <1>6, <2>1, <2>4, FirstStored
  <2> QED BY <2>4, <2>5
<1>9. /\ Len(l1) = Len(l) + 1 /\ l1[1] = c
      /\ \A i \in 2 .. Len(l) + 1 : l1[i] = l[i - 1]
  OBVIOUS
<1> HIDE DEF l1
<1>10. Counted(l1) = n
  BY <1>9 DEF Counted
<1> HIDE DEF k, new, h
<1>11. ASSUME NEW i \in 1 .. n PROVE k[i + 1].pObject = <<l1[i]>>
  <2>1. i + 1 \in 2 .. N + 1
    BY <1>2
  <2>2. k[i + 1].pObject = value(i + 1)
    BY <1>6, <1>8, <2>1, Zenon
  <2>3. CASE i = 1
    BY <2>2, <2>3, <1>9
  <2>4. CASE i # 1
    <3>1. i - 1 \in 1 .. m /\ i \in 2 .. Len(l) + 1
      BY <1>2, <2>4 DEF Counted
    <3>2. value(i + 1) = h[i].pObject
      BY <2>4
    <3>3. (i - 1) + 1 = i
      OBVIOUS
    <3>4. h[i].pObject = <<l[i - 1]>>
      BY <1>1, <3>1, <3>3
    <3> QED BY <2>2, <3>1, <3>2, <3>4, <1>9
  <2> QED BY <2>3, <2>4
<1>12. HistoryIs(k, l1)
  <2> HIDE DEF n
  <2>1. \A i \in 2 .. N + 1 : k[i].bAccessType = {RO}
    BY <1>6, <1>8
  <2> QED BY <1>1, <1>6, <1>8, <1>10, <1>11, <2>1 DEF HistoryIs
<1> QED BY <1>6, <1>7, <1>8, <1>12 DEF k, new, h, l1

\* emergencyInit: no element counts.
LEMMA InitCountsNone ==
  ASSUME NEW dict, PredefinedErrors \in DOMAIN dict,
         NEW l \in Seq(Codes), HistoryIs(dict[PredefinedErrors], l)
  PROVE  LET new == RegisterSetODentryCallBack(SetNumber(dict, 0), PredefinedErrors, 0,
                                               "OnNumberOfErrorsUpdate")
         IN  /\ DOMAIN new = DOMAIN dict
             /\ \A i \in DOMAIN dict : i # PredefinedErrors => new[i] = dict[i]
             /\ HistoryIs(new[PredefinedErrors], <<>>)
             /\ new[PredefinedErrors][1].callback # NoCallback
<1> USE EmergencyAssumption
<1> DEFINE N == error_history_size
           h == dict[PredefinedErrors]
           e == With(h[1], <<0>>)
           h1 == [h EXCEPT ![1] = e]
           counted == SetNumber(dict, 0)
           d == [e EXCEPT !.callback = "OnNumberOfErrorsUpdate"]
           new == RegisterSetODentryCallBack(counted, PredefinedErrors, 0,
                                             "OnNumberOfErrorsUpdate")
<1>1. h \in [1 .. N + 1 -> HistoryEntries] /\ h[1] \in HistoryEntries
      /\ h[1].bDataType = valueRange_EMC
      /\ \A i \in 2 .. N + 1 : h[i].bAccessType = {RO}
  BY DEF HistoryIs
<1>2. <<0>> \in Seq(Values)
  BY DEF Values
<1>3. e \in HistoryEntries /\ e.pObject = <<0>> /\ e.bDataType = valueRange_EMC
  BY <1>1, <1>2, WithOther
<1>4. counted = [dict EXCEPT ![PredefinedErrors] = h1]
  <2>1. counted = [dict EXCEPT ![PredefinedErrors][0 + 1].pObject = <<0>>]
    BY Zenon DEF SetNumber, Store
  <2>2. 0 + 1 = 1
    OBVIOUS
  <2> QED BY <2>1, <2>2, Zenon DEF With
<1> HIDE DEF e, h, counted
<1>5. /\ h1 \in [1 .. N + 1 -> HistoryEntries] /\ h1[1] = e
      /\ \A i \in 2 .. N + 1 : h1[i] = h[i]
  BY <1>1, <1>3, FirstStored
<1>6. Len(h1) = N + 1
  <2>1. N + 1 \in Nat
    OBVIOUS
  <2> HIDE DEF h1
  <2> QED BY <1>5, <2>1, LenOfTable
<1>7. DOMAIN counted = DOMAIN dict /\ counted[PredefinedErrors] = h1
      /\ \A i \in DOMAIN dict : i # PredefinedErrors => counted[i] = dict[i]
  BY <1>4
<1> HIDE DEF h1
<1>8. Missing(counted, PredefinedErrors, 0) = OD_SUCCESSFUL
  BY <1>6, <1>7 DEF Missing
<1>9. new = [counted EXCEPT ![PredefinedErrors] = [h1 EXCEPT ![1] = d]]
  <2>1. new = [counted EXCEPT ![PredefinedErrors][0 + 1].callback = "OnNumberOfErrorsUpdate"]
    BY <1>8, Zenon DEF RegisterSetODentryCallBack
  <2>2. 0 + 1 = 1
    OBVIOUS
  <2> QED BY <1>5, <1>7, <2>1, <2>2, Zenon
<1>10. d \in HistoryEntries /\ d.pObject = <<0>> /\ d.bDataType = valueRange_EMC
       /\ d.callback = "OnNumberOfErrorsUpdate"
  <2>1. d = [bAccessType |-> e.bAccessType, bDataType |-> e.bDataType,
             pObject |-> e.pObject, callback |-> "OnNumberOfErrorsUpdate"]
    BY <1>3 DEF HistoryEntries
  <2> HIDE DEF d
  <2> QED BY <1>3, <2>1 DEF HistoryEntries
<1> HIDE DEF d, new
<1> DEFINE k == new[PredefinedErrors]
<1>11. /\ DOMAIN new = DOMAIN dict /\ k = [h1 EXCEPT ![1] = d]
       /\ \A i \in DOMAIN dict : i # PredefinedErrors => new[i] = dict[i]
  BY <1>7, <1>9
<1> HIDE DEF k
<1>12. /\ k \in [1 .. N + 1 -> HistoryEntries] /\ k[1] = d
       /\ \A i \in 2 .. N + 1 : k[i] = h1[i]
  BY <1>5, <1>10, <1>11, FirstStored
<1>13. Counted(<<>>) = 0
  BY DEF Counted
<1>14. HistoryIs(k, <<>>)
  <2>1. \A i \in 2 .. N + 1 : k[i].bAccessType = {RO}
    BY <1>1, <1>5, <1>12
  <2> QED BY <1>10, <1>12, <1>13, <2>1 DEF HistoryIs
<1> QED BY <1>10, <1>11, <1>12, <1>14 DEF k, new, counted, NoCallback

\* OnNumberOfErrorsUpdate, after a client has written a zero to subindex 0.
LEMMA ClearedHistory ==
  ASSUME NEW dict, PredefinedErrors \in DOMAIN dict,
         NEW l \in Seq(Codes), HistoryIs(dict[PredefinedErrors], l),
         NEW data, DOMAIN data = 1 .. 1, Len(data) = 1, data[1] = Zero
  PROVE  LET new == OnNumberOfErrorsUpdate(Written(dict, PredefinedErrors, 0, data))
         IN  /\ DOMAIN new = DOMAIN dict
             /\ \A i \in DOMAIN dict : i # PredefinedErrors => new[i] = dict[i]
             /\ HistoryIs(new[PredefinedErrors], <<>>)
             /\ new[PredefinedErrors][1].callback = dict[PredefinedErrors][1].callback
<1> USE EmergencyAssumption
<1> DEFINE N == error_history_size
           h == dict[PredefinedErrors]
           e == With(h[1], <<0>>)
           h1 == [h EXCEPT ![1] = e]
           written == Written(dict, PredefinedErrors, 0, data)
           k == [i \in 1 .. N + 1 |-> IF i = 1 THEN h1[1] ELSE With(h1[i], <<NoCode>>)]
           new == OnNumberOfErrorsUpdate(written)
<1>1. h \in [1 .. N + 1 -> HistoryEntries] /\ h[1] \in HistoryEntries
      /\ h[1].bDataType = valueRange_EMC /\ DOMAIN h[1].pObject = 1 .. 1
      /\ \A i \in 2 .. N + 1 : h[i].bAccessType = {RO}
  <2>1. h[1].pObject = <<Counted(l)>>
    BY DEF HistoryIs
  <2>2. h \in [1 .. N + 1 -> HistoryEntries] /\ h[1].bDataType = valueRange_EMC
        /\ \A i \in 2 .. N + 1 : h[i].bAccessType = {RO}
    BY DEF HistoryIs
  <2> HIDE DEF h
  <2>3. h[1] \in HistoryEntries
    BY <2>2
  <2> QED BY <2>1, <2>2, <2>3
<1>2. <<0>> \in Seq(Values)
  BY DEF Values
<1>3. e \in HistoryEntries /\ e.pObject = <<0>> /\ e.bDataType = valueRange_EMC
      /\ e.callback = h[1].callback
  BY <1>1, <1>2, WithOther
<1> HIDE DEF h
<1>4. Copied(h[1], data) = <<0>>
  <2>1. Copied(h[1], data) = CopiedOver(h[1], data)
    BY <1>1 DEF Copied, valueRange_EMC, domain
  <2>3. CopiedOver(h[1], data) = [i \in 1 .. 1 |-> 0]
    BY <1>1 DEF CopiedOver, Zero
  <2>4. [i \in 1 .. 1 |-> 0] = <<0>>
    OBVIOUS
  <2> QED BY <2>1, <2>3, <2>4
<1>5. written = [dict EXCEPT ![PredefinedErrors] = h1]
  <2>1. 0 + 1 = 1
    OBVIOUS
  <2>2. Sub(dict, PredefinedErrors, 0) = h[1]
    BY <2>1, Zenon DEF Sub, h
  <2>3. written = [dict EXCEPT ![PredefinedErrors][0 + 1].pObject = <<0>>]
    BY <1>4, <2>2, Zenon DEF Written, Store
  <2> QED BY <2>1, <2>3, Zenon DEF With, h
<1> HIDE DEF e
<1>6. /\ h1 \in [1 .. N + 1 -> HistoryEntries] /\ h1[1] = e
      /\ \A i \in 2 .. N + 1 : h1[i] = h[i]
  BY <1>1, <1>3, FirstStored
<1> HIDE DEF written
<1>7. DOMAIN written = DOMAIN dict /\ written[PredefinedErrors] = h1
      /\ \A i \in DOMAIN dict : i # PredefinedErrors => written[i] = dict[i]
  BY <1>5
<1> HIDE DEF h1
<1>8. new = [written EXCEPT ![PredefinedErrors] = k]
  <2>1. element(written, 0) = 0
    BY <1>3, <1>6, <1>7 DEF element, Sub
  <2>2. DOMAIN h1 = 1 .. N + 1
    BY <1>6
  <2> HIDE DEF N
  <2> QED BY <1>7, <2>1, <2>2, Zenon DEF OnNumberOfErrorsUpdate, With
<1>9. /\ k \in [1 .. N + 1 -> HistoryEntries] /\ k[1] = e
      /\ \A i \in 2 .. N + 1 : k[i].bAccessType = {RO}
  <2>1. ASSUME NEW i \in 2 .. N + 1
        PROVE  k[i] \in HistoryEntries /\ k[i].bAccessType = {RO}
    <3>1. k[i] = With(h1[i], <<NoCode>>) /\ h1[i] \in HistoryEntries
          /\ h1[i].bAccessType = {RO}
      BY <1>1, <1>6
    <3>2. With(h1[i], <<0>>) \in HistoryEntries
          /\ With(h1[i], <<0>>).bAccessType = h1[i].bAccessType
      BY <1>2, <3>1, WithOther, Zenon
    <3> QED BY <3>1, <3>2, Zenon
  <2>2. k[1] = e
    BY <1>6
  <2>3. k = [i \in 1 .. N + 1 |-> k[i]]
    OBVIOUS
  <2> HIDE DEF k
  <2>4. \A i \in 1 .. N + 1 : i = 1 \/ i \in 2 .. N + 1
    OBVIOUS
  <2> QED BY <1>3, <2>1, <2>2, <2>3, <2>4
<1> HIDE DEF k
<1>10. HistoryIs(k, <<>>)
  <2>1. Counted(<<>>) = 0
    BY DEF Counted
  <2> QED BY <1>3, <1>9, <2>1 DEF HistoryIs
<1> HIDE DEF new
<1>11. /\ DOMAIN new = DOMAIN dict /\ new[PredefinedErrors] = k
       /\ \A i \in DOMAIN dict : i # PredefinedErrors => new[i] = dict[i]
  BY <1>7, <1>8
<1> QED BY <1>3, <1>9, <1>10, <1>11 DEF new, written, h

LEMMA OneLeft ==
  ASSUME NEW n \in Nat, n # 0, ~(n > 1)
  PROVE  n = 1
OBVIOUS

LEMMA EntryOther ==
  ASSUME NEW access, NEW type, NEW value, NEW e, e = Entry(access, type, value), NEW other
  PROVE  [e EXCEPT !.pObject = other] = Entry(access, type, other)
BY DEF Entry

\* What a client's write went through when it is let in.
LEMMA GoodVerdict ==
  ASSUME NEW dict, NEW index, NEW sub, NEW data,
         Verdict(dict, index, sub, data, TRUE) = OD_SUCCESSFUL
  PROVE  /\ index \in DOMAIN dict
         /\ ~(sub >= Len(dict[index]))
         /\ Sub(dict, index, sub).bAccessType # {RO}
         /\ \/ Sub(dict, index, sub).bDataType = domain
            \/ /\ ~(Len(data) > Len(Sub(dict, index, sub).pObject))
               /\ InRange(Sub(dict, index, sub).bDataType, data)
BY Zenon DEF Verdict, Missing, OD_SUCCESSFUL, OD_NO_SUCH_OBJECT, OD_NO_SUCH_SUBINDEX,
         OD_WRITE_NOT_ALLOWED, OD_LENGTH_DATA_INVALID, OD_VALUE_RANGE_EXCEEDED

\* A client can write a zero to the count of the history, the application's
\* string within its size, and its domain: nothing else.
LEMMA WhatClientsWrite ==
  ASSUME EmergencyInvariant, DictionaryInvariant, NEW w \in Written_to,
         Verdict(od, w.index, w.sub, w.data, TRUE) = OD_SUCCESSFUL
  PROVE  /\ w.sub = 0
         /\ \/ w.index = PredefinedErrors /\ Len(w.data) = 1 /\ w.data[1] = Zero
            \/ w.index = String /\ Len(w.data) <= StringSize
            \/ w.index = Domain
<1> DEFINE e == Sub(od, w.index, w.sub)
           data == w.data
<1>1. /\ w.sub \in Nat
      /\ data \in Seq({data[i] : i \in DOMAIN data}) /\ data # <<>>
  BY EmergencyAssumption
<1>2. Len(data) \in Nat /\ Len(data) # 0
  BY <1>1
<1>3. /\ w.index \in Indexes
      /\ ~(w.sub >= Len(od[w.index]))
      /\ e.bAccessType # {RO}
      /\ \/ e.bDataType = domain
         \/ ~(Len(data) > Len(e.pObject)) /\ InRange(e.bDataType, data)
  BY GoodVerdict, Zenon DEF DictionaryInvariant
<1>4. CASE w.index = ErrorRegister
  BY <1>1, <1>4, RegisterIsReadOnly, Zenon DEF EmergencyInvariant
<1>5. CASE w.index = PredefinedErrors
  <2> DEFINE h == od[PredefinedErrors]
  <2>1. HistoryIs(h, log)
    BY DEF DictionaryInvariant
  <2>2. Len(h) = error_history_size + 1
    BY <2>1, HistoryLen
  <2>3. e = h[w.sub + 1]
    BY <1>5, Zenon DEF Sub
  <2>4. ~(w.sub >= error_history_size + 1)
    BY <1>3, <1>5, <2>2
  <2> HIDE DEF e, h, data
  <2>5. w.sub = 0
    <3>1. CASE w.sub # 0
      <4>1. w.sub + 1 \in 2 .. error_history_size + 1
        BY <1>1, <2>4, <3>1, EmergencyAssumption
      <4> QED BY <1>3, <2>1, <2>3, <4>1 DEF HistoryIs
    <3> QED BY <3>1
  <2>6. e.bDataType = valueRange_EMC /\ e.pObject = <<Counted(log)>>
    BY <2>1, <2>3, <2>5 DEF HistoryIs
  <2>7. Len(e.pObject) = 1
    BY <2>6
  <2>8. ~(Len(data) > 1) /\ InRange(valueRange_EMC, data)
    BY <1>3, <2>6, <2>7 DEF valueRange_EMC, domain
  <2>9. data[1] = Zero
    BY <2>8 DEF InRange
  <2>10. Len(data) = 1
    <3>1. ~(Len(data) > 1)
      BY <2>8
    <3> QED BY <1>2, <3>1, OneLeft, Zenon
  <2> QED BY <1>5, <2>5, <2>9, <2>10, Zenon DEF data
<1>6. CASE w.index = String
  <2>1. StringIs(od[String], given[String])
    BY DEF DictionaryInvariant
  <2>2. Len(od[String]) = 1
    <3>1. od[String] = <<Entry({}, visible_string, od[String][1].pObject)>>
      BY <2>1, Zenon DEF StringIs
    <3> QED BY <3>1
  <2>3. w.sub = 0
    BY <1>1, <1>3, <1>6, <2>2
  <2>4. e = od[String][1]
    BY <1>6, <2>3 DEF Sub
  <2>5. e.bDataType = visible_string /\ Len(e.pObject) = StringSize
    BY <2>1, <2>4 DEF StringIs, Entry
  <2>6. ~(Len(data) > StringSize)
    BY <1>3, <2>5 DEF visible_string, domain
  <2> QED BY <1>2, <1>6, <2>3, <2>6, EmergencyAssumption
<1>7. CASE w.index = Domain
  <2>1. Len(od[Domain]) = 1
    BY DEF DictionaryInvariant, DomainIs
  <2> QED BY <1>1, <1>3, <1>7, <2>1
<1> QED BY <1>3, <1>4, <1>5, <1>6, <1>7 DEF Indexes

\* A string within its size replaces what was there.
LEMMA StringReplaced ==
  ASSUME NEW e, NEW g, StringIs(e, g),
         NEW data, data \in Seq({data[i] : i \in DOMAIN data}), Len(data) <= StringSize,
         \A i \in DOMAIN data : data[i] # Zero
  PROVE  StringIs([e EXCEPT ![1] = [e[1] EXCEPT !.pObject = Copied(e[1], data)]], data)
<1> DEFINE old == e[1].pObject
           new == [i \in 1 .. StringSize |->
                     IF i <= Len(data) THEN data[i]
                     ELSE IF i = Len(data) + 1 THEN Zero ELSE old[i]]
           k == [e EXCEPT ![1] = [e[1] EXCEPT !.pObject = Copied(e[1], data)]]
<1>1. StringSize \in Nat
  BY EmergencyAssumption
<1>2. /\ e = <<Entry({}, visible_string, old)>>
      /\ e[1].bDataType = visible_string
      /\ DOMAIN old = 1 .. StringSize
  BY DEF StringIs, Entry
<1>3. Copied(e[1], data) = new
  BY <1>2, Zenon DEF Copied, CopiedOver, visible_string, domain
<1> HIDE DEF new, old
<1>4. k = <<Entry({}, visible_string, new)>>
  <2> DEFINE r == e[1]
             entry == [r EXCEPT !.pObject = new]
  <2>1. r = Entry({}, visible_string, old)
    BY <1>2
  <2>2. k = [e EXCEPT ![1] = entry]
    BY <1>3
  <2> HIDE DEF r, k
  <2>3. entry = Entry({}, visible_string, new)
    BY <2>1, EntryOther
  <2> HIDE DEF entry
  <2>4. k = <<entry>>
    BY <1>2, <2>2
  <2> QED BY <2>3, <2>4
<1> HIDE DEF k
<1>5. k[1].pObject = new
  BY <1>4 DEF Entry
<1>6. Len(data) \in 0 .. StringSize /\ DOMAIN data = 1 .. Len(data)
  BY <1>1
<1>7. new \in Seq({new[i] : i \in 1 .. StringSize}) /\ Len(new) = StringSize
  <2>1. new \in [1 .. StringSize -> {new[i] : i \in 1 .. StringSize}]
    BY DEF new
  <2> QED BY <1>1, <2>1, LenOfTable
<1>8. ASSUME NEW i \in 1 .. Len(data) PROVE new[i] = data[i] /\ data[i] # Zero
  BY <1>1, <1>6, <1>8 DEF new
<1>9. Len(data) < StringSize => new[Len(data) + 1] = Zero
  BY <1>1, <1>6 DEF new
<1>10. StringIs(k, data)
  BY <1>4, <1>5, <1>6, <1>7, <1>8, <1>9 DEF StringIs
<1> QED BY <1>10 DEF k

-----------------------------------------------------------------------------
(***************************************************************************)
(* The dictionary, one step per action.                                    *)
(***************************************************************************)
\* Raising an error pushes it into the history.
LEMMA SetErrorKeepsDictionary ==
  ASSUME DictionaryInvariant, NEW c \in Codes, EMCY_setError(c)
  PROVE  DictionaryInvariant'
<1>1. given' = given /\ csEmergency' = csEmergency
  BY DEF EMCY_setError, nodeVars
<1>2. CASE od' = od /\ log' = log
  BY <1>1, <1>2 DEF DictionaryInvariant
<1>3. CASE ~(od' = od /\ log' = log)
  <2>1. PICK bits : od' = Pushed(SetRegister(od, bits), c) /\ log' = <<c>> \o log
    BY <1>3 DEF EMCY_setError, nodeVars
  <2> DEFINE dict == SetRegister(od, bits)
  <2>2. /\ DOMAIN dict = DOMAIN od
        /\ \A i \in DOMAIN od : i # ErrorRegister => dict[i] = od[i]
    BY SetRegisterChangesOne
  <2> HIDE DEF dict
  <2>3. /\ DOMAIN od' = DOMAIN dict
        /\ \A i \in DOMAIN dict : i # PredefinedErrors => od'[i] = dict[i]
        /\ HistoryIs(od'[PredefinedErrors], <<c>> \o log)
        /\ od'[PredefinedErrors][1].callback = dict[PredefinedErrors][1].callback
    <3>1. HistoryIs(dict[PredefinedErrors], log) /\ PredefinedErrors \in DOMAIN dict
      BY <2>2, AllIndexesDiffer DEF DictionaryInvariant, Indexes
    <3>2. log \in Seq(Codes)
      BY DEF DictionaryInvariant
    <3> QED BY <2>1, <3>1, <3>2, PushedIsNewest, Zenon DEF dict
  <2>4. <<c>> \o log \in Seq(Codes)
    BY DEF DictionaryInvariant
  <2>5. /\ od'[String] = od[String] /\ od'[Domain] = od[Domain]
        /\ dict[PredefinedErrors] = od[PredefinedErrors]
    BY <2>2, <2>3, AllIndexesDiffer DEF DictionaryInvariant, Indexes
  <2> QED BY <1>1, <2>1, <2>2, <2>3, <2>4, <2>5 DEF DictionaryInvariant
<1> QED BY <1>2, <1>3

\* Recovering one leaves the history alone.
LEMMA RecoveredKeepsDictionary ==
  ASSUME DictionaryInvariant, NEW c \in Codes, EMCY_errorRecovered(c)
  PROVE  DictionaryInvariant'
<1>1. given' = given /\ csEmergency' = csEmergency /\ log' = log
  BY DEF EMCY_errorRecovered
<1>2. PICK bits : od' = SetRegister(od, bits)
  BY DEF EMCY_errorRecovered
<1>3. /\ DOMAIN od' = DOMAIN od
      /\ \A i \in DOMAIN od : i # ErrorRegister => od'[i] = od[i]
  BY <1>2, SetRegisterChangesOne
<1>4. /\ od'[String] = od[String] /\ od'[Domain] = od[Domain]
      /\ od'[PredefinedErrors] = od[PredefinedErrors]
  BY <1>3, AllIndexesDiffer DEF DictionaryInvariant, Indexes
<1> QED BY <1>1, <1>3, <1>4 DEF DictionaryInvariant

\* A change of the node's state restarts the count.
LEMMA SwitchKeepsDictionary ==
  ASSUME DictionaryInvariant, SwitchesEmergency
  PROVE  DictionaryInvariant'
<1>1. given' = given
  BY DEF SwitchesEmergency
<1>2. CASE csEmergency
  <2>1. od' = od /\ log' = log /\ csEmergency' = FALSE
    BY <1>2 DEF SwitchesEmergency
  <2> QED BY <1>1, <2>1 DEF DictionaryInvariant
<1>3. CASE ~csEmergency
  <2>1. /\ od' = RegisterSetODentryCallBack(SetNumber(od, 0), PredefinedErrors, 0,
                                            "OnNumberOfErrorsUpdate")
        /\ log' = <<>>
    BY <1>3 DEF SwitchesEmergency, emergencyInit
  <2>2. /\ DOMAIN od' = DOMAIN od
        /\ \A i \in DOMAIN od : i # PredefinedErrors => od'[i] = od[i]
        /\ HistoryIs(od'[PredefinedErrors], <<>>)
        /\ od'[PredefinedErrors][1].callback # NoCallback
    <3>1. log \in Seq(Codes) /\ HistoryIs(od[PredefinedErrors], log)
          /\ PredefinedErrors \in DOMAIN od
      BY DEF DictionaryInvariant, Indexes
    <3> QED BY <2>1, <3>1, InitCountsNone, Zenon
  <2>3. od'[String] = od[String] /\ od'[Domain] = od[Domain]
    BY <2>2, AllIndexesDiffer DEF DictionaryInvariant, Indexes
  <2>4. <<>> \in Seq(Codes)
    OBVIOUS
  <2> QED BY <1>1, <2>1, <2>2, <2>3, <2>4 DEF DictionaryInvariant
<1> QED BY <1>2, <1>3

\* A client's write clears the history or changes the application's entries.
LEMMA WriteKeepsDictionary ==
  ASSUME EmergencyInvariant, DictionaryInvariant,
         NEW w \in Written_to, setODentry(w.index, w.sub, w.data)
  PROVE  DictionaryInvariant'
<1> DEFINE data == w.data
           good == Verdict(od, w.index, w.sub, data, TRUE) = OD_SUCCESSFUL
           dict == Written(od, w.index, w.sub, data)
           called == Sub(od, w.index, w.sub).callback # NoCallback
<1>1. csEmergency' = csEmergency /\ csEmergency
  BY DEF setODentry
<1>2. CASE ~good
  <2>1. od' = od /\ log' = log /\ given' = given
    BY <1>2, Zenon DEF setODentry
  <2> QED BY <1>1, <2>1 DEF DictionaryInvariant
<1>3. CASE good
  <2>1. /\ od' = IF called THEN OnNumberOfErrorsUpdate(dict) ELSE dict
        /\ log' = IF called THEN <<>> ELSE log
        /\ given' = IF w.index \in DOMAIN given THEN [given EXCEPT ![w.index] = data] ELSE given
    BY <1>3, Zenon DEF setODentry
  <2>2. w.sub = 0
    BY <1>3, WhatClientsWrite, Zenon
  <2>3. /\ w.index = PredefinedErrors => Len(data) = 1 /\ data[1] = Zero
        /\ w.index = String => Len(data) <= StringSize
        /\ w.index \in {PredefinedErrors, String, Domain}
    BY <1>3, WhatClientsWrite, AllIndexesDiffer, Zenon
  <2>4. data \in Seq({data[i] : i \in DOMAIN data})
    BY EmergencyAssumption
  <2>5. DOMAIN given = {String, Domain}
    BY DEF DictionaryInvariant
  <2> HIDE DEF good
  <2>6. CASE w.index = PredefinedErrors
    <3>1. Sub(od, w.index, w.sub) = od[PredefinedErrors][1]
      BY <2>2, <2>6 DEF Sub
    <3>2. called
      BY <1>1, <3>1 DEF DictionaryInvariant
    <3>3. /\ od' = OnNumberOfErrorsUpdate(Written(od, PredefinedErrors, 0, data))
          /\ log' = <<>> /\ given' = given
      BY <2>1, <2>2, <2>5, <2>6, <3>2, AllIndexesDiffer, Zenon
    <3>4. DOMAIN data = 1 .. 1
      BY <2>3, <2>4, <2>6
    <3>5. log \in Seq(Codes) /\ HistoryIs(od[PredefinedErrors], log)
          /\ PredefinedErrors \in DOMAIN od
      BY DEF DictionaryInvariant, Indexes
    <3> HIDE DEF dict, called, data
    <3>6. /\ DOMAIN od' = DOMAIN od
          /\ \A i \in DOMAIN od : i # PredefinedErrors => od'[i] = od[i]
          /\ HistoryIs(od'[PredefinedErrors], <<>>)
          /\ od'[PredefinedErrors][1].callback = od[PredefinedErrors][1].callback
      BY <2>3, <2>6, <3>3, <3>4, <3>5, ClearedHistory, Zenon
    <3>7. od'[String] = od[String] /\ od'[Domain] = od[Domain]
      BY <3>6, AllIndexesDiffer DEF DictionaryInvariant, Indexes
    <3>8. <<>> \in Seq(Codes)
      OBVIOUS
    <3> QED BY <1>1, <3>3, <3>6, <3>7, <3>8 DEF DictionaryInvariant
  <2>7. CASE w.index = String
    <3> DEFINE e == od[String]
               k == [e EXCEPT ![1] = [e[1] EXCEPT !.pObject = Copied(e[1], data)]]
    <3>1. StringIs(e, given[String]) /\ String \in DOMAIN od
      BY DEF DictionaryInvariant, Indexes
    <3>2. Sub(od, w.index, w.sub) = e[1]
      BY <2>2, <2>7 DEF Sub
    <3>3. e[1].callback = NoCallback
      BY <3>1 DEF StringIs, Entry
    <3>4. ~called
      BY <3>2, <3>3, Zenon
    <3>5. od' = [od EXCEPT ![String] = k]
      <4>1. 0 + 1 = 1
        OBVIOUS
      <4>2. od' = [od EXCEPT ![String][0 + 1].pObject = Copied(e[1], data)]
        BY <2>1, <2>2, <2>7, <3>2, <3>4, Zenon DEF Written, Store
      <4> QED BY <4>1, <4>2, Zenon
    <3>6. log' = log /\ given' = [given EXCEPT ![String] = data]
      BY <2>1, <2>5, <2>7, <3>4, Zenon
    <3>7. \A i \in DOMAIN data : data[i] # Zero
      BY <2>7, EmergencyAssumption
    <3> HIDE DEF dict, called, data
    <3>8. StringIs(k, data)
      BY <2>3, <2>4, <2>7, <3>1, <3>7, StringReplaced, Zenon
    <3> HIDE DEF k, e
    <3>9. /\ DOMAIN od' = DOMAIN od /\ od'[String] = k
          /\ od'[PredefinedErrors] = od[PredefinedErrors] /\ od'[Domain] = od[Domain]
      BY <3>5, AllIndexesDiffer DEF DictionaryInvariant, Indexes
    <3>10. /\ DOMAIN given' = DOMAIN given
           /\ given'[String] = data /\ given'[Domain] = given[Domain]
      BY <2>5, <3>6, AllIndexesDiffer
    <3> QED BY <1>1, <2>4, <3>6, <3>8, <3>9, <3>10 DEF DictionaryInvariant
  <2>8. CASE w.index = Domain
    <3> DEFINE e == od[Domain]
               k == [e EXCEPT ![1] = [e[1] EXCEPT !.pObject = data]]
    <3>1. DomainIs(e, given[Domain]) /\ Domain \in DOMAIN od
      BY DEF DictionaryInvariant, Indexes
    <3>2. Sub(od, w.index, w.sub) = e[1]
      BY <2>2, <2>8 DEF Sub
    <3>3. e[1].callback = NoCallback /\ e[1].bDataType = domain
      BY <3>1 DEF DomainIs, Entry
    <3>4. ~called /\ Copied(e[1], data) = data
      BY <3>2, <3>3, Zenon DEF Copied
    <3>5. od' = [od EXCEPT ![Domain] = k]
      <4>1. 0 + 1 = 1
        OBVIOUS
      <4>2. od' = [od EXCEPT ![Domain][0 + 1].pObject = data]
        BY <2>1, <2>2, <2>8, <3>2, <3>4, Zenon DEF Written, Store
      <4> QED BY <4>1, <4>2, Zenon
    <3>6. log' = log /\ given' = [given EXCEPT ![Domain] = data]
      BY <2>1, <2>5, <2>8, <3>4, Zenon
    <3> HIDE DEF dict, called, data
    <3>8. DomainIs(k, data)
      BY <3>1 DEF DomainIs, Entry
    <3> HIDE DEF k, e
    <3>9. /\ DOMAIN od' = DOMAIN od /\ od'[Domain] = k
          /\ od'[PredefinedErrors] = od[PredefinedErrors] /\ od'[String] = od[String]
      BY <3>5, AllIndexesDiffer DEF DictionaryInvariant, Indexes
    <3>10. /\ DOMAIN given' = DOMAIN given
           /\ given'[Domain] = data /\ given'[String] = given[String]
      BY <2>5, <3>6, AllIndexesDiffer
    <3> QED BY <1>1, <2>4, <3>6, <3>8, <3>9, <3>10 DEF DictionaryInvariant
  <2> QED BY <2>3, <2>6, <2>7, <2>8
<1> QED BY <1>2, <1>3

\* The strengthening HistoryIsNewestFirst and ReadsBack rest on.
THEOREM DictionaryIsInOrder == Spec => []DictionaryInvariant
<1>1. Init => DictionaryInvariant
  <2> SUFFICES ASSUME Init PROVE DictionaryInvariant
    OBVIOUS
  <2> DEFINE N == error_history_size
             h == <<Entry({}, valueRange_EMC, <<0>>)>>
                    \o [e \in 1 .. N |-> Entry({RO}, "uint32", <<NoCode>>)]
             zeros == [b \in 1 .. StringSize |-> Zero]
             blank == [b \in 1 .. DomainSize |-> Zero]
  <2>1. /\ DOMAIN od = Indexes
        /\ od[PredefinedErrors] = h
        /\ od[String] = <<Entry({}, visible_string, zeros)>>
        /\ od[Domain] = <<Entry({}, domain, blank)>>
    BY AllIndexesDiffer DEF Init, InitialDictionary, Indexes
  <2>2. /\ given = [i \in {String, Domain} |-> IF i = String THEN <<>> ELSE blank]
        /\ log = <<>> /\ csEmergency = FALSE
    <3>1. InitialDictionary[Domain] = <<Entry({}, domain, blank)>>
      BY <2>1 DEF Init
    <3>2. Sub(InitialDictionary, Domain, 0) = Entry({}, domain, blank)
      BY <3>1 DEF Sub
    <3>3. Entry({}, domain, blank).pObject = blank
      BY DEF Entry
    <3> QED BY <3>2, <3>3, Zenon DEF Init
  <2>3. HistoryIs(h, <<>>)
    <3> DEFINE first == Entry({}, valueRange_EMC, <<0>>)
               other == Entry({RO}, "uint32", <<NoCode>>)
               rest == [e \in 1 .. N |-> other]
    <3>1. N \in Nat
      BY EmergencyAssumption
    <3>2. first \in HistoryEntries /\ other \in HistoryEntries
      <4>1. <<0>> \in Seq(Values)
        BY DEF Values
      <4> QED BY <4>1 DEF Entry, HistoryEntries, NoCallback
    <3>3. other.bAccessType = {RO} /\ first.bDataType = valueRange_EMC /\ first.pObject = <<0>>
      BY DEF Entry
    <3>4. Counted(<<>>) = 0
      BY EmergencyAssumption DEF Counted
    <3> HIDE DEF first, other
    <3>5. rest \in Seq(HistoryEntries) /\ Len(rest) = N
      <4>1. rest \in [1 .. N -> HistoryEntries]
        BY <3>2
      <4> HIDE DEF rest
      <4> QED BY <3>1, <4>1, LenOfTable
    <3>6. /\ h \in [1 .. N + 1 -> HistoryEntries]
          /\ h[1] = first
          /\ \A i \in 2 .. N + 1 : h[i] = other
      <4>1. h = <<first>> \o rest
        BY DEF first, other
      <4>2. \A i \in 1 .. N : rest[i] = other
        OBVIOUS
      <4> HIDE DEF rest, h
      <4>3. /\ h \in Seq(HistoryEntries) /\ Len(h) = N + 1 /\ h[1] = first
            /\ \A i \in 2 .. N + 1 : h[i] = rest[i - 1]
        BY <3>1, <3>2, <3>5, <4>1
      <4>4. \A i \in 2 .. N + 1 : i - 1 \in 1 .. N
        BY <3>1
      <4>5. \A i \in 2 .. N + 1 : h[i] = other
        BY <4>2, <4>3, <4>4
      <4> QED BY <4>3, <4>5
    <3> HIDE DEF h
    <3> QED BY <3>3, <3>4, <3>6 DEF HistoryIs
  <2>4. StringIs(od[String], <<>>)
    <3>1. StringSize \in Nat
      BY EmergencyAssumption
    <3>2. zeros \in Seq({zeros[i] : i \in 1 .. StringSize}) /\ Len(zeros) = StringSize
      <4>1. zeros \in [1 .. StringSize -> {zeros[i] : i \in 1 .. StringSize}]
        OBVIOUS
      <4> QED BY <3>1, <4>1, LenOfTable
    <3>3. 0 < StringSize => zeros[0 + 1] = Zero
      BY <3>1
    <3> HIDE DEF zeros
    <3>4. od[String][1].pObject = zeros
      BY <2>1 DEF Entry
    <3> QED BY <2>1, <3>1, <3>2, <3>3, <3>4 DEF StringIs
  <2>5. blank \in Seq({blank[i] : i \in DOMAIN blank})
    <3>1. DomainSize \in Nat /\ DOMAIN blank = 1 .. DomainSize
      BY EmergencyAssumption
    <3>2. blank \in [1 .. DomainSize -> {blank[i] : i \in 1 .. DomainSize}]
      OBVIOUS
    <3> QED BY <3>1, <3>2, LenOfTable
  <2> HIDE DEF h, zeros, blank
  <2>7. /\ DOMAIN given = {String, Domain} /\ given[String] = <<>> /\ given[Domain] = blank
    BY <2>2, AllIndexesDiffer
  <2>6. <<>> \in Seq(Codes) /\ <<>> \in Seq({<<>>[i] : i \in DOMAIN <<>>})
    OBVIOUS
  <2> QED BY <2>1, <2>2, <2>3, <2>4, <2>5, <2>6, <2>7 DEF DictionaryInvariant, DomainIs
<1>2. EmergencyInvariant /\ DictionaryInvariant /\ [Next]_vars => DictionaryInvariant'
  <2> SUFFICES ASSUME EmergencyInvariant, DictionaryInvariant, [Next]_vars
               PROVE  DictionaryInvariant'
    OBVIOUS
  <2>1. ASSUME NEW c \in Codes, EMCY_setError(c) PROVE DictionaryInvariant'
    BY <2>1, SetErrorKeepsDictionary
  <2>2. ASSUME NEW c \in Codes, EMCY_errorRecovered(c) PROVE DictionaryInvariant'
    BY <2>2, RecoveredKeepsDictionary
  <2>3. CASE SwitchesEmergency
    BY <2>3, SwitchKeepsDictionary
  <2>4. ASSUME NEW w \in Written_to, setODentry(w.index, w.sub, w.data)
        PROVE  DictionaryInvariant'
    BY <2>4, WriteKeepsDictionary
  <2>5. proceedEMCY \/ Lose \/ UNCHANGED vars => UNCHANGED <<od, csEmergency, log, given>>
    BY DEF proceedEMCY, Lose, vars, nodeVars
  <2>6. CASE UNCHANGED <<od, csEmergency, log, given>>
    BY <2>6 DEF DictionaryInvariant
  <2> QED BY <2>1, <2>2, <2>3, <2>4, <2>5, <2>6 DEF Next
<1> QED BY <1>1, <1>2, RowsAndRegisterAgree, PTL DEF Spec

\* HistoryIsNewestFirst: the shift of EMCY_setError, emergencyInit and the
\* callback of subindex 0 keep 0x1003 a prefix of the errors since it was
\* last cleared, for any size of it, and clients change nothing else of it.
THEOREM HistoryIsRight == Spec => []HistoryIsNewestFirst
<1>1. DictionaryInvariant => HistoryIsNewestFirst
  <2> SUFFICES ASSUME DictionaryInvariant PROVE HistoryIsNewestFirst
    OBVIOUS
  <2>1. log \in Seq(Codes) /\ HistoryIs(od[PredefinedErrors], log)
    BY DEF DictionaryInvariant
  <2>2. error_number = Counted(log)
    BY <2>1 DEF HistoryIs, error_number, Sub
  <2>3. ASSUME NEW i \in 1 .. Counted(log) PROVE element(od, i) = log[i]
    <3>1. od[PredefinedErrors][i + 1].pObject = <<log[i]>>
      BY <2>1 DEF HistoryIs
    <3> QED BY <3>1 DEF element, Sub
  <2> QED BY <2>2, <2>3 DEF HistoryIsNewestFirst, Counted
<1> QED BY <1>1, DictionaryIsInOrder, PTL

\* ReadsBack: _setODentry and _getODentry keep what a client wrote and was
\* let in, a string up to its end and a domain of any size that its buffer
\* has room for (objacces.c:198); what is refused changes nothing.
THEOREM WhatIsWrittenReadsBack == Spec => []ReadsBack
<1>1. DictionaryInvariant => ReadsBack
  <2> SUFFICES ASSUME DictionaryInvariant PROVE ReadsBack
    OBVIOUS
  <2> DEFINE room(i) == StringSize + 1 + Len(given[i])
             r(i) == getODentry(od, i, 0, room(i), TRUE)
  <2>1. /\ StringSize \in Nat
        /\ \A i \in {String, Domain} : Len(given[i]) \in Nat
        /\ \A i \in {String, Domain} : room(i) \in Nat /\ StringSize + Len(given[i]) < room(i)
    <3>1. StringSize \in Nat
      BY EmergencyAssumption
    <3>2. ASSUME NEW i \in {String, Domain} PROVE Len(given[i]) \in Nat
      BY DEF DictionaryInvariant
    <3>3. ASSUME NEW i \in {String, Domain}
          PROVE  room(i) \in Nat /\ StringSize + Len(given[i]) < room(i)
      <4> DEFINE n == Len(given[i])
      <4>1. n \in Nat
        BY <3>2
      <4> HIDE DEF n
      <4>2. StringSize + 1 + n \in Nat /\ StringSize + n < StringSize + 1 + n
        BY <3>1, <4>1
      <4> QED BY <4>2 DEF n
    <3> QED BY <3>1, <3>2, <3>3
  <2> HIDE DEF room
  <2>2. ASSUME NEW i \in {String, Domain}, NEW type \in {visible_string, domain}, NEW bytes,
               od[i] = <<Entry({}, type, bytes)>>,
               Len(bytes) \in Nat, Len(bytes) <= StringSize + Len(given[i])
        PROVE  /\ r(i).error = OD_SUCCESSFUL
               /\ r(i).data = IF type = visible_string THEN Append(bytes, Zero) ELSE bytes
    <3>1. i \in DOMAIN od
      BY DEF DictionaryInvariant, Indexes
    <3>2. Len(od[i]) = 1
      BY <2>2
    <3>3. Missing(od, i, 0) = OD_SUCCESSFUL
      BY <3>1, <3>2 DEF Missing
    <3>4. Sub(od, i, 0) = Entry({}, type, bytes)
      BY <2>2 DEF Sub
    <3>5. /\ Entry({}, type, bytes).bAccessType = {}
          /\ Entry({}, type, bytes).bDataType = type
          /\ Entry({}, type, bytes).pObject = bytes
      BY DEF Entry
    <3>6. ~(Len(bytes) > room(i)) /\ Len(bytes) < room(i)
      BY <2>1, <2>2
    <3>7. getODentry(od, i, 0, room(i), TRUE) =
            [error |-> OD_SUCCESSFUL,
             data |-> IF type = visible_string THEN Append(bytes, Zero) ELSE bytes]
      BY <2>2, <3>3, <3>4, <3>5, <3>6, Zenon DEF getODentry
    <3> HIDE DEF r
    <3>8. r(i) = [error |-> OD_SUCCESSFUL,
                  data |-> IF type = visible_string THEN Append(bytes, Zero) ELSE bytes]
      BY <3>7, Zenon DEF r
    <3> QED BY <3>8
  <2> HIDE DEF r
  <2>3. r(Domain).error = OD_SUCCESSFUL /\ r(Domain).data = given[Domain]
    <3>1. od[Domain] = <<Entry({}, domain, given[Domain])>>
      BY DEF DictionaryInvariant, DomainIs
    <3>2. Len(given[Domain]) \in Nat
      BY DEF DictionaryInvariant
    <3>3. Len(given[Domain]) <= StringSize + Len(given[Domain])
      BY <2>1, <3>2
    <3>4. domain # visible_string
      BY DEF domain, visible_string
    <3> QED BY <2>2, <3>1, <3>2, <3>3, <3>4, Zenon
  <2>4. r(String).error = OD_SUCCESSFUL /\ BytesOfString(r(String).data) = given[String]
    <3> DEFINE g == given[String]
               bytes == od[String][1].pObject
               read == Append(bytes, Zero)
               ends == {i \in DOMAIN read : read[i] = Zero}
               end == CHOOSE e \in ends : \A i \in ends : e <= i
    <3>1. StringIs(od[String], g) /\ g \in Seq({g[i] : i \in DOMAIN g})
      BY DEF DictionaryInvariant
    <3>2. /\ od[String] = <<Entry({}, visible_string, bytes)>>
          /\ bytes \in Seq({bytes[i] : i \in 1 .. StringSize}) /\ Len(bytes) = StringSize
          /\ Len(g) \in 0 .. StringSize
          /\ \A i \in 1 .. Len(g) : bytes[i] = g[i] /\ g[i] # Zero
          /\ Len(g) < StringSize => bytes[Len(g) + 1] = Zero
      BY <3>1, Zenon DEF StringIs
    <3>3. Len(bytes) <= StringSize + Len(given[String])
      BY <2>1, <3>2
    <3>4. r(String).error = OD_SUCCESSFUL /\ r(String).data = read
      BY <2>1, <2>2, <3>2, <3>3, Zenon
    <3> HIDE DEF bytes, g
    <3>5. /\ DOMAIN read = 1 .. StringSize + 1
          /\ \A i \in 1 .. Len(g) : read[i] = g[i] /\ read[i] # Zero
          /\ read[Len(g) + 1] = Zero
      BY <2>1, <3>2
    <3>6. read \in Seq({bytes[i] : i \in 1 .. StringSize} \cup {Zero})
      <4> DEFINE S == {bytes[i] : i \in 1 .. StringSize} \cup {Zero}
      <4>1. Zero \in S /\ {bytes[i] : i \in 1 .. StringSize} \subseteq S
        OBVIOUS
      <4> HIDE DEF S
      <4>2. bytes \in Seq(S)
        BY <3>2, <4>1
      <4>3. read \in Seq(S)
        BY <4>1, <4>2
      <4> QED BY <4>3 DEF S
    <3> HIDE DEF read
    <3>7. Len(g) + 1 \in ends /\ \A i \in ends : Len(g) + 1 <= i
      BY <2>1, <3>2, <3>5
    <3>8. end \in ends /\ \A i \in ends : end <= i
      BY <3>7
    <3>9. end = Len(g) + 1
      <4>1. end \in Int /\ Len(g) + 1 \in Int
        <5>1. end \in 1 .. StringSize + 1
          BY <3>5, <3>8, Zenon
        <5> HIDE DEF end
        <5> QED BY <2>1, <3>2, <5>1
      <4>2. end <= Len(g) + 1 /\ Len(g) + 1 <= end
        BY <3>7, <3>8
      <4> HIDE DEF end
      <4> QED BY <4>1, <4>2
    <3> HIDE DEF end
    <3>10. BytesOfString(read) = SubSeq(read, 1, Len(g))
      <4>1. ends # {}
        BY <3>7
      <4>2. BytesOfString(read) = SubSeq(read, 1, end - 1)
        BY <4>1, Zenon DEF BytesOfString, end
      <4>3. end - 1 = Len(g)
        BY <3>2, <3>9
      <4> QED BY <4>2, <4>3
    <3>11. SubSeq(read, 1, Len(g)) = g
      BY <3>1, <3>2, <3>5, <3>6 DEF g
    <3> QED BY <3>4, <3>10, <3>11 DEF g
  <2> QED BY <2>3, <2>4, AllIndexesDiffer, Zenon DEF ReadsBack, r, room
<1> QED BY <1>1, DictionaryIsInOrder, PTL

-----------------------------------------------------------------------------
(***************************************************************************)
(* What the consumer knows once the frames on their way have come.         *)
(***************************************************************************)
Frames == [code : Codes \cup {NoCode}, register : SUBSET Bits]

\* From frame j on none says that no error is left.
NoneClears(w, j) == \A k \in j .. Len(w) : w[k].code # NoCode

Known(w, told) ==
  {w[j].code : j \in {i \in 1 .. Len(w) : NoneClears(w, i)}}
    \cup (IF NoneClears(w, 1) THEN told ELSE {})

ConsumerInvariant ==
  /\ wire \in Seq(Frames)
  /\ ~missed => /\ ActiveCodes \subseteq Known(wire, reported)
                /\ ActiveCodes = {} => Known(wire, reported) = {}

\* A frame more on the wire.
LEMMA KnownWithOneMore ==
  ASSUME NEW w \in Seq(Frames), NEW f \in Frames, NEW told
  PROVE  Known(Append(w, f), told) =
           IF f.code = NoCode THEN {} ELSE Known(w, told) \cup {f.code}
<1> DEFINE n == Len(w)
           v == Append(w, f)
<1>1. /\ n \in Nat /\ Len(v) = n + 1 /\ v[n + 1] = f
      /\ \A i \in 1 .. n : v[i] = w[i]
  OBVIOUS
<1> HIDE DEF v, n
<1>2. CASE f.code = NoCode
  <2>1. ASSUME NEW j \in 1 .. n + 1 PROVE ~NoneClears(v, j)
    <3>1. n + 1 \in j .. Len(v)
      BY <1>1
    <3> QED BY <1>1, <1>2, <3>1 DEF NoneClears
  <2>2. 1 \in 1 .. n + 1
    BY <1>1
  <2> QED BY <1>1, <1>2, <2>1, <2>2 DEF Known, v
<1>3. CASE f.code # NoCode
  <2>1. ASSUME NEW j \in 1 .. n + 1 PROVE NoneClears(v, j) <=> NoneClears(w, j)
    <3>1. \A k \in j .. n : k \in 1 .. n /\ k \in j .. n + 1
      BY <1>1
    <3>2. \A k \in j .. n + 1 : k \in j .. n \/ k = n + 1
      BY <1>1
    <3> QED BY <1>1, <1>3, <3>1, <3>2 DEF NoneClears, n
  <2>2. NoneClears(v, 1) <=> NoneClears(w, 1)
    <3>1. 1 \in 1 .. n + 1
      BY <1>1
    <3> QED BY <2>1, <3>1
  <2>3. NoneClears(v, n + 1)
    <3>1. \A k \in n + 1 .. n + 1 : k = n + 1
      BY <1>1
    <3> QED BY <1>1, <1>3, <3>1 DEF NoneClears
  <2> DEFINE A == {v[j].code : j \in {i \in 1 .. n + 1 : NoneClears(v, i)}}
             B == {w[j].code : j \in {i \in 1 .. n : NoneClears(w, i)}}
  <2>4. ASSUME NEW x PROVE x \in A <=> x \in B \cup {f.code}
    <3>1. ASSUME x \in A PROVE x \in B \cup {f.code}
      <4>1. PICK j \in 1 .. n + 1 : NoneClears(v, j) /\ x = v[j].code
        BY <3>1
      <4>2. j = n + 1 \/ j \in 1 .. n
        BY <1>1
      <4> QED BY <1>1, <2>1, <4>1, <4>2
    <3>2. ASSUME x \in B PROVE x \in A
      <4>1. PICK j \in 1 .. n : NoneClears(w, j) /\ x = w[j].code
        BY <3>2
      <4>2. j \in 1 .. n + 1
        BY <1>1
      <4> QED BY <1>1, <2>1, <4>1, <4>2
    <3>3. f.code \in A
      <4>1. n + 1 \in 1 .. n + 1
        BY <1>1
      <4> QED BY <1>1, <2>3, <4>1
    <3> QED BY <3>1, <3>2, <3>3
  <2>5. A = B \cup {f.code}
    BY <2>4, Zenon
  <2> HIDE DEF A, B
  <2>6. Known(v, told) = A \cup (IF NoneClears(w, 1) THEN told ELSE {})
    BY <1>1, <2>2, Zenon DEF Known, A
  <2>7. Known(w, told) = B \cup (IF NoneClears(w, 1) THEN told ELSE {})
    BY Zenon DEF Known, B, n
  <2>8. Known(v, told) = Known(w, told) \cup {f.code}
    BY <2>5, <2>6, <2>7
  <2> QED BY <1>3, <2>8 DEF v
<1> QED BY <1>2, <1>3

\* What the first frame tells is known before and after it is taken.
LEMMA KnownWithOneTaken ==
  ASSUME NEW w \in Seq(Frames), w # <<>>, NEW told
  PROVE  Known(Tail(w), IF Head(w).code = NoCode THEN {} ELSE told \cup {Head(w).code}) =
           Known(w, told)
<1> DEFINE n == Len(w)
           v == Tail(w)
           c == Head(w).code
           after == IF c = NoCode THEN {} ELSE told \cup {c}
<1>1. /\ n \in Nat /\ n >= 1 /\ Len(v) = n - 1 /\ c = w[1].code
      /\ \A i \in 1 .. n - 1 : v[i] = w[i + 1]
  OBVIOUS
<1> HIDE DEF v, n, c
<1>2. ASSUME NEW j \in 1 .. n PROVE NoneClears(v, j) <=> NoneClears(w, j + 1)
  <2>1. ASSUME NEW k \in j .. n - 1 PROVE k \in 1 .. n - 1 /\ k + 1 \in j + 1 .. n
    BY <1>1
  <2>2. ASSUME NEW k \in j + 1 .. n
        PROVE  k - 1 \in j .. n - 1 /\ (k - 1) + 1 = k /\ k - 1 \in 1 .. n - 1
    BY <1>1
  <2>3. ASSUME NoneClears(w, j + 1) PROVE NoneClears(v, j)
    BY <1>1, <2>1, <2>3 DEF NoneClears, n
  <2>4. ASSUME NoneClears(v, j), NEW k \in j + 1 .. n PROVE w[k].code # NoCode
    <3>1. v[k - 1] = w[k]
      BY <1>1, <2>2
    <3>2. v[k - 1].code # NoCode
      BY <1>1, <2>2, <2>4 DEF NoneClears
    <3> QED BY <3>1, <3>2
  <2> QED BY <2>3, <2>4 DEF NoneClears, n
<1>3. NoneClears(w, 1) <=> c # NoCode /\ NoneClears(v, 1)
  <2>1. 1 \in 1 .. n /\ 1 + 1 = 2 /\ \A k \in 1 .. n : k = 1 \/ k \in 2 .. n
    BY <1>1
  <2>2. \A k \in 2 .. n : k \in 1 .. n
    BY <1>1
  <2>3. NoneClears(v, 1) <=> NoneClears(w, 2)
    BY <1>2, <2>1
  <2>4. NoneClears(w, 1) <=> w[1].code # NoCode /\ NoneClears(w, 2)
    BY <2>1, <2>2 DEF NoneClears, n
  <2> QED BY <1>1, <2>3, <2>4
<1> DEFINE A == {v[j].code : j \in {i \in 1 .. n - 1 : NoneClears(v, i)}}
           B == {w[j].code : j \in {i \in 1 .. n : NoneClears(w, i)}}
<1>4. ASSUME NEW x PROVE x \in B <=> x \in A \/ (x = c /\ NoneClears(w, 1))
  <2>1. ASSUME x \in B PROVE x \in A \/ (x = c /\ NoneClears(w, 1))
    <3>1. PICK j \in 1 .. n : NoneClears(w, j) /\ x = w[j].code
      BY <2>1
    <3>2. CASE j = 1
      BY <1>1, <3>1, <3>2
    <3>3. CASE j # 1
      <4>1. j - 1 \in 1 .. n - 1 /\ (j - 1) + 1 = j /\ j - 1 \in 1 .. n
        BY <1>1, <3>3
      <4>2. NoneClears(v, j - 1)
        BY <1>2, <3>1, <4>1
      <4>3. v[j - 1] = w[j]
        BY <1>1, <4>1
      <4> QED BY <3>1, <4>1, <4>2, <4>3
    <3> QED BY <3>2, <3>3
  <2>2. ASSUME x \in A PROVE x \in B
    <3>1. PICK j \in 1 .. n - 1 : NoneClears(v, j) /\ x = v[j].code
      BY <2>2
    <3>2. j + 1 \in 1 .. n /\ j \in 1 .. n
      BY <1>1
    <3> QED BY <1>1, <1>2, <3>1, <3>2
  <2>3. ASSUME x = c, NoneClears(w, 1) PROVE x \in B
    <3>1. 1 \in 1 .. n
      BY <1>1
    <3> QED BY <1>1, <2>3, <3>1
  <2> QED BY <2>1, <2>2, <2>3
<1> HIDE DEF A, B
<1>5. Known(v, after) = A \cup (IF NoneClears(v, 1) THEN after ELSE {})
  BY <1>1, Zenon DEF Known, A
<1>6. Known(w, told) = B \cup (IF NoneClears(w, 1) THEN told ELSE {})
  BY Zenon DEF Known, B, n
<1>7. Known(v, after) = Known(w, told)
  <2>1. CASE NoneClears(w, 1)
    <3>1. after = told \cup {c} /\ NoneClears(v, 1)
      BY <1>3, <2>1
    <3>2. B = A \cup {c}
      BY <1>4, <2>1, Zenon
    <3> HIDE DEF after
    <3> QED BY <1>5, <1>6, <2>1, <3>1, <3>2
  <2>2. CASE ~NoneClears(w, 1)
    <3>1. NoneClears(v, 1) => after = {}
      BY <1>3, <2>2
    <3>2. B = A
      BY <1>4, <2>2, Zenon
    <3> HIDE DEF after
    <3> QED BY <1>5, <1>6, <2>2, <3>1, <3>2
  <2> QED BY <2>1, <2>2
<1> QED BY <1>7 DEF v, c

\* A register made from the table has the node's bits.
LEMMA RegisterOfRows ==
  ASSUME NEW rows \in [Rows -> RowRecords]
  PROVE  RegisterOf(rows) \in SUBSET Bits
BY DEF RegisterOf, ActiveIn, RowRecords

\* sendEMCY where it may: one frame more.
LEMMA SentIsKnown ==
  ASSUME ConsumerInvariant, NEW code \in Codes \cup {NoCode}, NEW register \in SUBSET Bits,
         sendEMCY(code, register), reported' = reported, missed \in BOOLEAN
  PROVE  /\ wire' \in Seq(Frames)
         /\ ~missed' =>
              /\ ~missed
              /\ Known(wire', reported') =
                   IF code = NoCode THEN {} ELSE Known(wire, reported) \cup {code}
<1>1. wire \in Seq(Frames)
  BY DEF ConsumerInvariant
<1>2. CASE csEmergency
  <2> DEFINE f == [code |-> code, register |-> register]
  <2>1. wire' = Append(wire, f) /\ missed' = missed
    BY <1>2 DEF sendEMCY
  <2>2. f \in Frames /\ f.code = code
    BY DEF Frames
  <2> HIDE DEF f
  <2>3. wire' \in Seq(Frames)
    BY <1>1, <2>1, <2>2
  <2> QED BY <1>1, <2>1, <2>2, <2>3, KnownWithOneMore
<1>3. CASE ~csEmergency
  BY <1>1, <1>3 DEF sendEMCY
<1> QED BY <1>2, <1>3

\* Raising an error.
LEMMA SetErrorTells ==
  ASSUME EmergencyInvariant, ConsumerInvariant, missed \in BOOLEAN,
         NEW c \in Codes, EMCY_setError(c)
  PROVE  ConsumerInvariant'
<1> DEFINE full == \/ \E r \in RowsOf(c) : error_data[r].active
                   \/ RowsOf(c) \cup InactiveRows = {}
           q == RowFor(c)
           row == [errCode |-> c, errRegMask |-> Mask[c], active |-> TRUE]
           rows == [error_data EXCEPT ![q] = row]
<1>1. CASE full
  BY <1>1 DEF EMCY_setError, nodeVars, ConsumerInvariant, ActiveCodes
<1>2. CASE ~full
  <2>1. error_data' = rows /\ sendEMCY(c, RegisterOf(rows)) /\ reported' = reported
    BY <1>2 DEF EMCY_setError
  <2>2. q \in Rows
    BY <1>2, RowForIsARow
  <2> HIDE DEF q
  <2>3. row \in RowRecords /\ row.active /\ row.errCode = c
    BY EmergencyAssumption DEF RowRecords
  <2> HIDE DEF row
  <2>4. rows \in [Rows -> RowRecords]
    BY <2>2, <2>3 DEF EmergencyInvariant, RowsOK
  <2>5. \A r \in Rows : rows[r] = IF r = q THEN row ELSE error_data[r]
    BY <2>2 DEF EmergencyInvariant, RowsOK
  <2> HIDE DEF rows
  <2>6. q \in ActiveIn(rows) /\ ActiveIn(rows) \subseteq ActiveIn(error_data) \cup {q}
    BY <2>2, <2>3, <2>5 DEF ActiveIn
  <2>7. c \in ActiveCodes' /\ ActiveCodes' \subseteq ActiveCodes \cup {c}
    <3>1. ActiveCodes' = {rows[r].errCode : r \in ActiveIn(rows)}
      BY <2>1 DEF ActiveCodes
    <3>2. ASSUME NEW r \in ActiveIn(rows) PROVE rows[r].errCode \in ActiveCodes \cup {c}
      <4>1. r \in Rows /\ (r = q \/ r \in ActiveIn(error_data))
        BY <2>6 DEF ActiveIn
      <4> QED BY <2>3, <2>5, <4>1 DEF ActiveCodes
    <3>3. rows[q].errCode = c
      BY <2>2, <2>3, <2>5
    <3> QED BY <2>6, <3>1, <3>2, <3>3
  <2>8. RegisterOf(rows) \in SUBSET Bits
    BY <2>4, RegisterOfRows
  <2>9. c # NoCode
    BY EmergencyAssumption
  <2>10. /\ wire' \in Seq(Frames)
         /\ ~missed' => ~missed /\ Known(wire', reported') = Known(wire, reported) \cup {c}
    BY <2>1, <2>8, <2>9, SentIsKnown
  <2> QED BY <2>7, <2>10 DEF ConsumerInvariant
<1> QED BY <1>1, <1>2

\* Recovering one.
LEMMA RecoveredTells ==
  ASSUME EmergencyInvariant, ConsumerInvariant, missed \in BOOLEAN,
         NEW c \in Codes, EMCY_errorRecovered(c)
  PROVE  ConsumerInvariant'
<1> DEFINE q == LowestRow(RowsOf(c))
           rows == [error_data EXCEPT ![q].active = FALSE]
<1>1. /\ error_data' = rows /\ reported' = reported
      /\ IF ActiveIn(rows) = {} THEN sendEMCY(NoCode, {}) ELSE UNCHANGED <<wire, missed>>
  BY DEF EMCY_errorRecovered
<1>2. q \in RowsOf(c)
  BY LowestRowIsIn DEF EMCY_errorRecovered, RowsOf
<1>3. q \in Rows
  BY <1>2 DEF RowsOf
<1> HIDE DEF q
<1>4. \A r \in Rows :
        rows[r].errCode = error_data[r].errCode /\ (rows[r].active => error_data[r].active)
  BY <1>3 DEF EmergencyInvariant, RowsOK, RowRecords
<1> HIDE DEF rows
<1>5. ActiveCodes' = {rows[r].errCode : r \in ActiveIn(rows)}
  BY <1>1 DEF ActiveCodes
<1>6. ActiveCodes' \subseteq ActiveCodes
  <2>1. ASSUME NEW r \in ActiveIn(rows) PROVE rows[r].errCode \in ActiveCodes
    <3>1. r \in ActiveIn(error_data) /\ rows[r].errCode = error_data[r].errCode
      BY <1>4 DEF ActiveIn
    <3> QED BY <3>1 DEF ActiveCodes
  <2> QED BY <1>5, <2>1
<1>7. CASE ActiveIn(rows) = {}
  <2>1. ActiveCodes' = {}
    BY <1>5, <1>7
  <2>2. wire' \in Seq(Frames) /\ (~missed' => Known(wire', reported') = {})
    <3>1. sendEMCY(NoCode, {}) /\ {} \in SUBSET Bits
      BY <1>1, <1>7
    <3> QED BY <1>1, <3>1, SentIsKnown
  <2> QED BY <2>1, <2>2 DEF ConsumerInvariant
<1>8. CASE ActiveIn(rows) # {}
  <2>1. ActiveCodes' # {}
    BY <1>5, <1>8
  <2>2. wire' = wire /\ missed' = missed
    BY <1>1, <1>8
  <2> QED BY <1>1, <1>6, <2>1, <2>2 DEF ConsumerInvariant
<1> QED BY <1>7, <1>8

\* The strengthening ConsumerKnowsErrors rests on.
THEOREM ConsumerIsTold == Spec => [](missed \in BOOLEAN /\ ConsumerInvariant)
<1>1. Init => missed \in BOOLEAN /\ ConsumerInvariant
  <2> SUFFICES ASSUME Init PROVE ConsumerInvariant
    BY DEF Init
  <2>1. ActiveCodes = {}
    BY DEF Init, ActiveCodes, ActiveIn, FreeRow
  <2>2. wire = <<>> /\ reported = {}
    BY DEF Init
  <2>3. Known(<<>>, {}) = {}
    BY DEF Known, NoneClears
  <2> QED BY <2>1, <2>2, <2>3 DEF ConsumerInvariant
<1>2. EmergencyInvariant /\ (missed \in BOOLEAN /\ ConsumerInvariant) /\ [Next]_vars
        => (missed \in BOOLEAN /\ ConsumerInvariant)'
  <2> SUFFICES ASSUME EmergencyInvariant, missed \in BOOLEAN, ConsumerInvariant, [Next]_vars
               PROVE  (missed \in BOOLEAN)' /\ ConsumerInvariant'
    OBVIOUS
  <2>1. ASSUME NEW c \in Codes, EMCY_setError(c) PROVE missed' \in BOOLEAN /\ ConsumerInvariant'
    BY <2>1, SetErrorTells DEF EMCY_setError, sendEMCY
  <2>2. ASSUME NEW c \in Codes, EMCY_errorRecovered(c)
        PROVE  missed' \in BOOLEAN /\ ConsumerInvariant'
    BY <2>2, RecoveredTells DEF EMCY_errorRecovered, sendEMCY
  <2>3. CASE proceedEMCY
    <3>1. /\ wire # <<>> /\ wire' = Tail(wire) /\ missed' = missed
          /\ reported' = IF Head(wire).code = NoCode THEN {} ELSE reported \cup {Head(wire).code}
          /\ ActiveCodes' = ActiveCodes
      BY <2>3 DEF proceedEMCY, nodeVars, ActiveCodes
    <3>2. wire \in Seq(Frames)
      BY DEF ConsumerInvariant
    <3>3. Known(wire', reported') = Known(wire, reported)
      BY <3>1, <3>2, KnownWithOneTaken
    <3>4. wire' \in Seq(Frames)
      BY <3>1, <3>2
    <3> QED BY <3>1, <3>3, <3>4 DEF ConsumerInvariant
  <2>4. CASE Lose
    <3>1. wire' \in Seq(Frames) /\ missed'
      BY <2>4 DEF Lose, ConsumerInvariant
    <3>2. missed' = TRUE
      BY <2>4 DEF Lose
    <3> QED BY <3>1, <3>2 DEF ConsumerInvariant
  <2>5. ASSUME UNCHANGED <<error_data, wire, reported, missed>>
        PROVE  missed' \in BOOLEAN /\ ConsumerInvariant'
    BY <2>5 DEF ConsumerInvariant, ActiveCodes
  <2>6. ASSUME \/ SwitchesEmergency
               \/ \E w \in Written_to : setODentry(w.index, w.sub, w.data)
               \/ UNCHANGED vars
        PROVE  UNCHANGED <<error_data, wire, reported, missed>>
    BY <2>6 DEF SwitchesEmergency, setODentry, vars, nodeVars
  <2> QED BY <2>1, <2>2, <2>3, <2>4, <2>5, <2>6 DEF Next
<1> QED BY <1>1, <1>2, RowsAndRegisterAgree, PTL DEF Spec

\* ConsumerKnowsErrors: what EMCY_setError and EMCY_errorRecovered send is
\* enough for a consumer that misses nothing, in whatever order errors come.
THEOREM ConsumerIsRight == Spec => []ConsumerKnowsErrors
<1>1. missed \in BOOLEAN /\ ConsumerInvariant => ConsumerKnowsErrors
  <2> SUFFICES ASSUME missed \in BOOLEAN, ConsumerInvariant, ~missed, wire = <<>>
               PROVE  ActiveCodes \subseteq reported /\ (ActiveCodes = {} => reported = {})
    BY DEF ConsumerKnowsErrors
  <2>1. Known(<<>>, reported) = reported
    BY DEF Known, NoneClears
  <2> QED BY <2>1 DEF ConsumerInvariant
<1> QED BY <1>1, ConsumerIsTold, PTL
=============================================================================
