------------------------------ MODULE ObjDict ------------------------------
(***************************************************************************)
(* The object dictionary of a node as src/src/objacces.c reads and writes  *)
(* it.  A dictionary od maps an index to the sequence of its subindexes,   *)
(* from subindex 0; a value is a sequence of bytes, whatever a byte is,    *)
(* and the size of an entry is the length of its value.                    *)
(***************************************************************************)
EXTENDS Integers, Sequences

CONSTANT maxsize  \* bytes a write to a domain may have at most, 65536

Zero == 0  \* the byte that ends a string

RO == "RO"
WO == "WO"
TO_BE_SAVE == "TO_BE_SAVE"  \* RW is the empty set of these

visible_string == "visible_string"
domain == "domain"
valueRange_EMC == "value range EMC"

OD_SUCCESSFUL == "successful"
OD_READ_NOT_ALLOWED == "read not allowed"
OD_WRITE_NOT_ALLOWED == "write not allowed"
OD_NO_SUCH_OBJECT == "no such object"
OD_NO_SUCH_SUBINDEX == "no such subindex"
OD_LENGTH_DATA_INVALID == "length invalid"
OD_VALUE_RANGE_EXCEEDED == "range exceeded"
SDOABT_OUT_OF_MEMORY == "out of memory"

NoCallback == "no callback"

Entry(access, type, value) ==
  [bAccessType |-> access, bDataType |-> type, pObject |-> value, callback |-> NoCallback]

\* Subindex sub of an index is element sub + 1 of its sequence.
Sub(od, index, sub) == od[index][sub + 1]

\* scanIndexOD, and the test of the subindex.
Missing(od, index, sub) ==
  IF index \notin DOMAIN od THEN OD_NO_SUCH_OBJECT
  ELSE IF sub >= Len(od[index]) THEN OD_NO_SUCH_SUBINDEX
  ELSE OD_SUCCESSFUL

Refused(error) == [error |-> error, data |-> <<>>]

(***************************************************************************)
(* _getODentry into a buffer of the given room.  A string gets a zero byte *)
(* more where there is room for one.                                       *)
(***************************************************************************)
getODentry(od, index, sub, room, checkAccess) ==
  IF Missing(od, index, sub) # OD_SUCCESSFUL THEN Refused(Missing(od, index, sub))
  ELSE LET e == Sub(od, index, sub) IN
       IF checkAccess /\ WO \in e.bAccessType THEN Refused(OD_READ_NOT_ALLOWED)
       ELSE IF Len(e.pObject) > room THEN Refused(SDOABT_OUT_OF_MEMORY)
       ELSE [error |-> OD_SUCCESSFUL,
             data |-> IF e.bDataType = visible_string /\ Len(e.pObject) < room
                      THEN Append(e.pObject, Zero) ELSE e.pObject]

\* Without the end of a string.
CopiedUnended(e, data) ==
  [i \in DOMAIN e.pObject |-> IF i <= Len(data) THEN data[i] ELSE e.pObject[i]]

(***************************************************************************)
(* The bytes of an entry after memcpy: those that are not given stay, but  *)
(* a string ends after those given, and a domain takes their size, which   *)
(* is not compared with that of its buffer: it must fit.                   *)
(***************************************************************************)
CopiedOver(e, data) ==
  [i \in DOMAIN e.pObject |->
     IF i <= Len(data) THEN data[i]
     ELSE IF e.bDataType = visible_string /\ i = Len(data) + 1 THEN Zero
     ELSE e.pObject[i]]

Copied(e, data) == IF e.bDataType = domain THEN data ELSE CopiedOver(e, data)

\* valueRangeTest, which is generated with the dictionary.
InRange(type, data) == type = valueRange_EMC => data[1] = Zero

\* What _setODentry returns before it changes anything.
Verdict(od, index, sub, data, checkAccess) ==
  IF Missing(od, index, sub) # OD_SUCCESSFUL THEN Missing(od, index, sub)
  ELSE LET e == Sub(od, index, sub) IN
       IF checkAccess /\ e.bAccessType = {RO} THEN OD_WRITE_NOT_ALLOWED
       ELSE IF e.bDataType = domain
       THEN IF Len(data) > maxsize THEN OD_LENGTH_DATA_INVALID ELSE OD_SUCCESSFUL
       ELSE IF Len(data) > Len(e.pObject) THEN OD_LENGTH_DATA_INVALID
       ELSE IF ~InRange(e.bDataType, data) THEN OD_VALUE_RANGE_EXCEEDED
       ELSE OD_SUCCESSFUL

Store(od, index, sub, value) == [od EXCEPT ![index][sub + 1].pObject = value]

\* The dictionary when the callback is called, if the verdict is good.  What
\* the callback returns, and for an entry TO_BE_SAVE the application's
\* storeODSubIndex after it, is the result of the write and undoes nothing.
Written(od, index, sub, data) == Store(od, index, sub, Copied(Sub(od, index, sub), data))

RegisterSetODentryCallBack(od, index, sub, callback) ==
  IF Missing(od, index, sub) = OD_SUCCESSFUL
  THEN [od EXCEPT ![index][sub + 1].callback = callback] ELSE od

=============================================================================
