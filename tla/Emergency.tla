----------------------------- MODULE Emergency -----------------------------
(***************************************************************************)
(* Emergency objects (src/src/emcy.c): a producer whose application raises *)
(* and recovers errors, the dictionary entries 0x1001 and 0x1003 kept from *)
(* them, which a client may write by SDO, and a consumer behind a bus that *)
(* may lose frames.  Every action is one call under the node's mutex.      *)
(*                                                                         *)
(* An error code stands for the code and its additional information, a     *)
(* register for the set of its bits.  The other entries of the dictionary  *)
(* are an application's string and its domain.                             *)
(***************************************************************************)
EXTENDS ObjDict

CONSTANTS
  Codes,               \* error codes
  Bits,                \* bits of the error register
  Mask,                \* the bits each code sets
  EMCY_MAX_ERRORS,     \* rows of error_data
  error_history_size,  \* elements of 0x1003
  StringSize,          \* bytes of the application's string
  DomainSize,          \* bytes of the buffer of its domain
  Written_to,          \* what clients write: [index, sub, data]
  MaxRaised,           \* bound: calls of EMCY_setError
  MaxWrites,           \* bound: writes by clients
  MaxSwitches,         \* bound: changes of the node's state
  MaxLosses            \* bound: frames lost

ErrorRegister == 4097     \* 0x1001
PredefinedErrors == 4099  \* 0x1003
String == 8192            \* entries of an application
Domain == 8193

NoCode == 0

ASSUME EmergencyAssumption ==
  /\ NoCode \notin Codes
  /\ Mask \in [Codes -> SUBSET Bits]
  /\ EMCY_MAX_ERRORS \in Nat \ {0} /\ error_history_size \in Nat \ {0}
  /\ StringSize \in Nat
  /\ DomainSize \in Nat /\ maxsize \in Nat /\ DomainSize <= maxsize
  /\ \A w \in Written_to :
       /\ w.sub \in Nat
       /\ w.data \in Seq({w.data[i] : i \in DOMAIN w.data}) /\ w.data # <<>>
       /\ w.index = String =>  \* the bytes up to its end
            \A i \in DOMAIN w.data : w.data[i] # Zero
       /\ w.index = Domain =>  \* what is let in fits the buffer, or memcpy overruns it
            Len(w.data) <= DomainSize \/ Len(w.data) > maxsize
  /\ {MaxRaised, MaxWrites, MaxSwitches, MaxLosses} \subseteq Nat

VARIABLES
  error_data,   \* the table of errors
  error_state,
  od,           \* the object dictionary
  csEmergency,  \* EMCY, and with it SDO, is on: the node is not Stopped
  wire,         \* EMCY frames on their way
  reported,     \* the codes the consumer was told since it was last told of none
  log,          \* ghost: errors since the history was last cleared, newest first
  missed,       \* ghost: a change was not announced, or its frame was lost
  given,        \* ghost: what the application's entries were last given
  raised, writes, switches, losses

nodeVars == <<error_data, error_state, od, csEmergency>>
bounds == <<raised, writes, switches, losses>>
vars == <<nodeVars, wire, reported, log, missed, given, bounds>>

-----------------------------------------------------------------------------
Error_free == "free"
Error_occurred == "occurred"

Rows == 1 .. EMCY_MAX_ERRORS
FreeRow == [errCode |-> NoCode, errRegMask |-> {}, active |-> FALSE]

InitialDictionary ==
  [i \in {ErrorRegister, PredefinedErrors, String, Domain} |->
     CASE i = ErrorRegister -> <<Entry({RO}, "uint8", <<{}>>)>>
       [] i = PredefinedErrors ->
            <<Entry({}, valueRange_EMC, <<0>>)>>
              \o [e \in 1 .. error_history_size |-> Entry({RO}, "uint32", <<NoCode>>)]
       [] i = String -> <<Entry({}, visible_string, [b \in 1 .. StringSize |-> Zero])>>
       [] i = Domain -> <<Entry({}, domain, [b \in 1 .. DomainSize |-> Zero])>>]

error_number == Sub(od, PredefinedErrors, 0).pObject[1]
error_register == Sub(od, ErrorRegister, 0).pObject[1]
element(dict, i) == Sub(dict, PredefinedErrors, i).pObject[1]

Init ==
  /\ error_data = [r \in Rows |-> FreeRow]
  /\ error_state = Error_free
  /\ od = InitialDictionary
  /\ csEmergency = FALSE
  /\ wire = <<>> /\ reported = {} /\ log = <<>> /\ missed = FALSE
  /\ given = [i \in {String, Domain} |->
                IF i = String THEN <<>> ELSE Sub(InitialDictionary, Domain, 0).pObject]
  /\ raised = 0 /\ writes = 0 /\ switches = 0 /\ losses = 0

-----------------------------------------------------------------------------
LowestRow(S) == CHOOSE r \in S : \A q \in S : r <= q

RowsOf(code) == {r \in Rows : error_data[r].errCode = code}
InactiveRows == {r \in Rows : ~error_data[r].active}

ActiveIn(rows) == {r \in Rows : rows[r].active}

\* The register a table of errors makes.
RegisterOf(rows) == UNION {rows[r].errRegMask : r \in ActiveIn(rows)}

SetRegister(dict, bits) == Store(dict, ErrorRegister, 0, <<bits>>)
SetNumber(dict, n) == Store(dict, PredefinedErrors, 0, <<n>>)

\* The last element is not reached.
ShiftedShort(dict, code) ==
  [dict EXCEPT ![PredefinedErrors] =
     [i \in DOMAIN dict[PredefinedErrors] |->
        IF i = 1 \/ i = error_history_size + 1 THEN dict[PredefinedErrors][i]
        ELSE [dict[PredefinedErrors][i] EXCEPT !.pObject =
                IF i = 2 THEN <<code>> ELSE dict[PredefinedErrors][i - 1].pObject]]]

\* The elements of 0x1003 move on by one, and the new error is the first.
Shifted(dict, code) ==
  [dict EXCEPT ![PredefinedErrors] =
     [i \in DOMAIN dict[PredefinedErrors] |->
        IF i = 1 THEN dict[PredefinedErrors][1]
        ELSE [dict[PredefinedErrors][i] EXCEPT !.pObject =
                IF i = 2 THEN <<code>> ELSE dict[PredefinedErrors][i - 1].pObject]]]

Pushed(dict, code) ==
  SetNumber(Shifted(dict, code),
            IF element(dict, 0) < error_history_size THEN element(dict, 0) + 1
            ELSE element(dict, 0))

(***************************************************************************)
(* sendEMCY, where the communication state allows it.                      *)
(***************************************************************************)
sendEMCY(code, register) ==
  IF csEmergency
  THEN /\ wire' = Append(wire, [code |-> code, register |-> register])
       /\ UNCHANGED missed
  ELSE missed' = TRUE /\ UNCHANGED wire

\* The row EMCY_setError takes: that of the code, or the first inactive one.
RowFor(code) == LowestRow(IF RowsOf(code) # {} THEN RowsOf(code) ELSE InactiveRows)

(***************************************************************************)
(* EMCY_setError returns early for an error that is active already, and    *)
(* with 1 when the table is full.                                          *)
(***************************************************************************)
EMCY_setError(code) ==
  /\ raised < MaxRaised
  /\ raised' = raised + 1
  /\ IF \/ \E r \in RowsOf(code) : error_data[r].active
        \/ RowsOf(code) \cup InactiveRows = {}
     THEN UNCHANGED <<nodeVars, wire, log, missed>>
     ELSE LET rows == [error_data EXCEPT ![RowFor(code)] =
                         [errCode |-> code, errRegMask |-> Mask[code], active |-> TRUE]]
          IN  /\ error_data' = rows
              /\ error_state' = Error_occurred
              /\ od' = Pushed(SetRegister(od, RegisterOf(rows)), code)
              /\ log' = <<code>> \o log
              /\ sendEMCY(code, RegisterOf(rows))
              /\ UNCHANGED csEmergency
  /\ UNCHANGED <<reported, given, writes, switches, losses>>

RegisterMasked(rows, code) == error_register \ Mask[code]

\* The register left by an error that is taken out: computed anew.
RegisterAfter(rows, code) == RegisterOf(rows)

RecoveredSilently(code) ==
  /\ \E r \in RowsOf(code) : error_data[r].active
  /\ LET rows == [error_data EXCEPT ![LowestRow(RowsOf(code))].active = FALSE]
     IN  /\ error_data' = rows
         /\ od' = SetRegister(od, RegisterAfter(rows, code))
         /\ error_state' = IF ActiveIn(rows) = {} THEN Error_free ELSE error_state
         /\ sendEMCY(NoCode, {})
  /\ UNCHANGED <<csEmergency, reported, log, given, bounds>>

(***************************************************************************)
(* EMCY_errorRecovered.  The consumer is told when no error is left.       *)
(***************************************************************************)
EMCY_errorRecovered(code) ==
  /\ \E r \in RowsOf(code) : error_data[r].active
  /\ LET rows == [error_data EXCEPT ![LowestRow(RowsOf(code))].active = FALSE]
     IN  /\ error_data' = rows
         /\ od' = SetRegister(od, RegisterAfter(rows, code))
         /\ IF ActiveIn(rows) = {}
            THEN error_state' = Error_free /\ sendEMCY(NoCode, {})
            ELSE UNCHANGED <<error_state, wire, missed>>
  /\ UNCHANGED <<csEmergency, reported, log, given, bounds>>

-----------------------------------------------------------------------------
(***************************************************************************)
(* setState: the switch of csEmergency.  emergencyInit restarts the count  *)
(* of 0x1003 and leaves its elements and the active errors alone.          *)
(***************************************************************************)
emergencyInit ==
  /\ od' = RegisterSetODentryCallBack(SetNumber(od, 0), PredefinedErrors, 0,
                                      "OnNumberOfErrorsUpdate")
  /\ log' = <<>>

SwitchesEmergency ==
  /\ switches < MaxSwitches
  /\ switches' = switches + 1
  /\ csEmergency' = ~csEmergency
  /\ IF csEmergency THEN UNCHANGED <<od, log>> ELSE emergencyInit
  /\ UNCHANGED <<error_data, error_state, wire, reported, missed, given, raised, writes, losses>>

\* The callback of subindex 0 of 0x1003.
OnNumberOfErrorsUpdate(dict) ==
  IF element(dict, 0) = 0
  THEN [dict EXCEPT ![PredefinedErrors] =
          [i \in DOMAIN dict[PredefinedErrors] |->
             IF i = 1 THEN dict[PredefinedErrors][1]
             ELSE [dict[PredefinedErrors][i] EXCEPT !.pObject = <<NoCode>>]]]
  ELSE dict

(***************************************************************************)
(* A client writes an entry by SDO: _setODentry with checkAccess.          *)
(***************************************************************************)
setODentry(index, sub, data) ==
  /\ csEmergency
  /\ writes < MaxWrites
  /\ writes' = writes + 1
  /\ IF Verdict(od, index, sub, data, TRUE) # OD_SUCCESSFUL
     THEN UNCHANGED <<od, log, given>>
     ELSE LET dict == Written(od, index, sub, data)
              called == Sub(od, index, sub).callback # NoCallback
          IN  /\ od' = IF called THEN OnNumberOfErrorsUpdate(dict) ELSE dict
              /\ log' = IF called THEN <<>> ELSE log
              /\ given' = IF index \in DOMAIN given THEN [given EXCEPT ![index] = data] ELSE given
  /\ UNCHANGED <<error_data, error_state, csEmergency, wire, reported, missed, raised, switches, losses>>

-----------------------------------------------------------------------------
\* The consumer's post_emcy adds the code to those it has been told of.
proceedEMCY ==
  /\ wire # <<>>
  /\ reported' = IF Head(wire).code = NoCode THEN {} ELSE reported \cup {Head(wire).code}
  /\ wire' = Tail(wire)
  /\ UNCHANGED <<nodeVars, log, missed, given, bounds>>

Lose ==
  /\ wire # <<>>
  /\ losses < MaxLosses
  /\ losses' = losses + 1
  /\ wire' = Tail(wire)
  /\ missed' = TRUE
  /\ UNCHANGED <<nodeVars, reported, log, given, raised, writes, switches>>

Next ==
  \/ \E c \in Codes : EMCY_setError(c) \/ EMCY_errorRecovered(c)
  \/ SwitchesEmergency
  \/ \E w \in Written_to : setODentry(w.index, w.sub, w.data)
  \/ proceedEMCY
  \/ Lose

Spec == Init /\ [][Next]_vars

-----------------------------------------------------------------------------
(***************************************************************************)
(* Properties.                                                             *)
(***************************************************************************)
ActiveCodes == {error_data[r].errCode : r \in ActiveIn(error_data)}

(***************************************************************************)
(* Whatever is raised and recovered, in whatever order, and whatever       *)
(* clients write: register, error state and table tell the same story, and *)
(* no code has two rows, of which only one would ever be recovered.        *)
(***************************************************************************)
RegisterTellsActiveErrors ==
  /\ error_register = UNION {Mask[c] : c \in ActiveCodes}
  /\ (error_state = Error_free) = (ActiveCodes = {})
  /\ \A r, q \in Rows : r # q /\ error_data[r].errCode # NoCode =>
       error_data[r].errCode # error_data[q].errCode

(***************************************************************************)
(* The elements of 0x1003 that its subindex 0 counts are the last errors,  *)
(* newest first; a client can clear them and do nothing else to them.      *)
(***************************************************************************)
HistoryIsNewestFirst ==
  /\ error_number = IF Len(log) < error_history_size THEN Len(log) ELSE error_history_size
  /\ \A i \in 1 .. error_number : element(od, i) = log[i]

(***************************************************************************)
(* A consumer that got every frame of a producer that was never silent     *)
(* knows of every active error, and of none when there is none.            *)
(***************************************************************************)
ConsumerKnowsErrors ==
  ~missed /\ wire = <<>> =>
    ActiveCodes \subseteq reported /\ (ActiveCodes = {} => reported = {})

(***************************************************************************)
(* What a client wrote, and was let in, it reads back: a domain takes the  *)
(* size of what was written, within its buffer; a string ends where the    *)
(* bytes given end, and is not followed by older ones.  What is too long   *)
(* for a string, or for any domain (objacces.c:200), changes neither.      *)
(***************************************************************************)
BytesOfString(bytes) ==
  LET ends == {i \in DOMAIN bytes : bytes[i] = Zero}
  IN  IF ends = {} THEN bytes
      ELSE SubSeq(bytes, 1, (CHOOSE e \in ends : \A i \in ends : e <= i) - 1)

ReadsBack ==
  \A i \in {String, Domain} :
    LET r == getODentry(od, i, 0, StringSize + 1 + Len(given[i]), TRUE)
    IN  /\ r.error = OD_SUCCESSFUL
        /\ (IF i = String THEN BytesOfString(r.data) ELSE r.data) = given[i]

=============================================================================
