---------------------------- MODULE MCEmergency ----------------------------
(***************************************************************************)
(* Emergency with three errors of which two share a bit of the register,   *)
(* for two rows and two elements of history.  A client clears the history, *)
(* tries to falsify it, and writes a long and a short string and domain,   *)
(* and one that is longer than the dictionary lets in.                     *)
(***************************************************************************)
EXTENDS Emergency

MCMask == <<{1}, {1, 2}, {2}>>

MCWritten ==
  [index : {PredefinedErrors}, sub : {0}, data : {<<0>>, <<1>>, <<0, 0>>}]
    \cup [index : {PredefinedErrors}, sub : {1, 3}, data : {<<0>>}]
    \cup [index : {ErrorRegister}, sub : {0}, data : {<<{}>>}]
    \cup [index : {String, Domain}, sub : {0}, data : {<<7>>, <<7, 8>>, <<7, 8, 7, 8>>}]
=============================================================================
