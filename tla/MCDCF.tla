------------------------------- MODULE MCDCF -------------------------------
(***************************************************************************)
(* An instance of DCF for TLC: slave 2 has an object its DCF wants         *)
(* otherwise and saves; slave 3 has an object that is short, longer than   *)
(* the buffer of the check, or longer than a line, a DCF with a value      *)
(* whose size does not fit UNS8, and nothing to save with; slave 5 has no  *)
(* DCF.                                                                    *)
(***************************************************************************)
EXTENDS DCF

CONSTANTS objA, objB, one, two, long, bulky, huge

MCSize ==
  [v \in Values |-> CASE v = long -> 8 [] v = bulky -> 40 [] v = huge -> 260 [] OTHER -> 4]

MCCut == [v \in Values |-> IF v = huge THEN two ELSE v]

Entry(i, v) == [index |-> i, value |-> v]

MCConciseDCF ==
  [n \in Slaves |-> CASE n = 2 -> <<Entry(objA, one), Entry(objB, two)>>
                      [] n = 3 -> <<Entry(objB, huge)>>
                      [] n = 5 -> <<>>]

MCFactories ==
  {[n \in Slaves |-> [i \in Indexes |-> IF n = 3 /\ i = objB THEN v ELSE one]] :
     v \in {one, long, bulky}}

MCLacks == [n \in Slaves |-> IF n = 3 THEN {StoreIndex} ELSE {}]

MCPreset == [e \in 0 .. NbClients - 1 |-> IF e = 1 THEN 3 ELSE NoNode]
=============================================================================
