------------------------------- MODULE MCLSS -------------------------------
(***************************************************************************)
(* LSS for two slaves without a node id, whose identities differ in one    *)
(* bit, and one that has a node id and COB-ids of its own.  The user knows *)
(* the upper bit of the first field.                                       *)
(***************************************************************************)
EXTENDS LSS, TLC

Id(x, y) == (0 :> x) @@ (1 :> y)

MCIdentity == ("a" :> Id(1, 2)) @@ ("b" :> Id(1, 3)) @@ ("c" :> Id(0, 3))
MCInitialId == ("a" :> None) @@ ("b" :> None) @@ ("c" :> 5)
MCInitialCob == ("a" :> None) @@ ("b" :> Custom) @@ ("c" :> 5)
MCKnown == Id(0, 0)
MCUnknownBits == Id(1, 2)
MCNodeIds == <<1, 2, 3>>

Leave == SMGlobal(LSS_WAITING_MODE)

Select(x, y) == <<Selective(0, x), Selective(1, y)>>

MCExtras ==
  { Select(0, 3) \o <<ConfNodeId, InquireNodeId, Inquire(1), Leave>>,
    <<Selective(0, 1), Leave>>,
    Select(1, 3) \o <<ConfNodeId, Leave>>,
    <<Identify("IDENT_EQUAL", 0, 1), Identify("IDENT_LOW", 1, 1), Identify("IDENT_HIGH", 1, 2)>>,
    <<Identify("IDENT_EQUAL", 0, 0), Identify("IDENT_LOW", 1, 1), Identify("IDENT_HIGH", 1, 2)>>,
    <<IdentifyNonConf>> }
    \cup {BitRatePlan(rate, delay) : rate \in Rates \cup OtherRates, delay \in Delays}

\* What the theorem about node ids assumes of the user holds of this one.
ASSUME GivenOnce == IdsAreGivenOnce
=============================================================================
